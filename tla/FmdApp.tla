------------------------------- MODULE FmdApp -------------------------------
(***************************************************************************)
(* The fabric management daemon and its local applications                 *)
(* (daemon/src/fmd_app.c), with the part of an application that libfmdd    *)
(* plays: connect, say hello, watch the shared directory.                  *)
(*                                                                         *)
(* The connection loop hands a slot of apps[] to a thread per connection.  *)
(* mp is the set of flags of the local master port in the directory; a     *)
(* flag stands for a kind of application.  update_peer_flags is the        *)
(* subject of FmdPeers.                                                    *)
(***************************************************************************)
EXTENDS Naturals, FiniteSets

CONSTANTS Conns, NULL,
          Flags,          \* the kinds of applications
          FlagOf,         \* by connection: the flag of its hello
          FMD_MAX_APPS,
          DdSem,          \* dd_mtx->sem: 1 by fmd_dd_mtx_open_priv and 1 by fmd_dd_update
          MayFail         \* whether pthread_create may fail

ASSUME AppConstants ==
  /\ NULL \notin Conns \cup Flags /\ FlagOf \in [Conns -> Flags] /\ FMD_MAX_APPS \in Nat \ {0}
  /\ DdSem \in Nat \ {0} /\ MayFail \in BOOLEAN

Slots == 1..FMD_MAX_APPS

VARIABLES
  slot,       \* apps[]: alloced, alive, flag, fd and proc_num (the connection), started
  avail,      \* apps_avail
  loop,       \* app_conn_loop: pc and new_app
  thr,        \* by connection: app_loop's pc, slot and the flags it read
  client,     \* by connection: what the application does
  mp, dd_sem, \* the flags of the local master port, and their semaphore
  ev,         \* by slot: dd_ev, the process that uses it and whether dd_event is posted
  view,       \* by connection: the flags the application has copied
  lost,       \* slots whose thread could not be created
  rush        \* history: an application came or went while another was being handled

vars == <<slot, avail, loop, thr, client, mp, dd_sem, ev, view, lost, rush>>

FreeSlot == [alloced |-> 0, alive |-> FALSE, flag |-> NULL, conn |-> NULL, proc |-> NULL, started |-> 0]

Init ==
  /\ slot = [i \in Slots |-> FreeSlot] /\ avail = FMD_MAX_APPS
  /\ loop = [pc |-> "wait", i |-> 0]
  /\ thr = [c \in Conns |-> [pc |-> "none", i |-> 0, tmp |-> {}]]
  /\ client = [c \in Conns |-> "idle"]
  /\ mp = {} /\ dd_sem = DdSem
  /\ ev = [i \in Slots |-> [proc |-> NULL, posted |-> FALSE]]
  /\ view = [c \in Conns |-> {}]
  /\ lost = 0 /\ rush = FALSE

Quiet ==
  /\ loop.pc \in {"wait", "accept", "dead"} /\ (loop.pc = "wait" => avail = 0)
  /\ \A c \in Conns : thr[c].pc \in {"none", "recv", "done"}
  /\ \A c \in Conns : client[c] \in {"idle", "wait", "closed"}
  /\ \A c \in Conns : thr[c].pc = "recv" => client[c] = "wait" /\ ~ev[thr[c].i].posted

Acts == rush' = (rush \/ ~Quiet)

-----------------------------------------------------------------------------
(* app_conn_loop. *)
WaitAvail ==
  /\ loop.pc = "wait" /\ avail > 0
  /\ avail' = avail - 1 /\ loop' = [pc |-> "scan", i |-> 0]
  /\ UNCHANGED <<slot, thr, client, mp, dd_sem, ev, view, lost, rush>>

(* Faulty variant: only a slot whose thread starts counts as taken. *)
UnallocedNotNew(i) == slot[i].alloced # 2
(* The slots the scan may take. *)
Unalloced(i) == slot[i].alloced = 0

(* init_app_mgmt leaves flag as it was. *)
Scan ==
  /\ loop.pc = "scan"
  /\ IF \E i \in Slots : Unalloced(i)
     THEN LET i == CHOOSE x \in Slots : Unalloced(x) /\ \A y \in 1..(x - 1) : ~Unalloced(y) IN
          /\ slot' = [slot EXCEPT ![i] = [FreeSlot EXCEPT !.flag = slot[i].flag]]
          /\ loop' = [pc |-> "accept", i |-> i]
     ELSE loop' = [pc |-> "dead", i |-> 0] /\ UNCHANGED slot
  /\ UNCHANGED <<avail, thr, client, mp, dd_sem, ev, view, lost, rush>>

Accept(c) ==
  /\ loop.pc = "accept" /\ client[c] = "connect"
  /\ slot' = [slot EXCEPT ![loop.i].conn = c, ![loop.i].alloced = 2]
  /\ \/ /\ thr' = [thr EXCEPT ![c] = [pc |-> "start", i |-> loop.i, tmp |-> {}]]
        /\ client' = [client EXCEPT ![c] = "hello"]
        /\ loop' = [loop EXCEPT !.pc = "started"] /\ UNCHANGED lost
     \/ /\ MayFail /\ client' = [client EXCEPT ![c] = "stuck"]
        /\ loop' = [pc |-> "wait", i |-> 0] /\ lost' = lost + 1 /\ UNCHANGED thr
  /\ UNCHANGED <<avail, mp, dd_sem, ev, view, rush>>

(* sem_wait(started), then alloced = 1, whatever the thread did since. *)
Started ==
  /\ loop.pc = "started" /\ slot[loop.i].started > 0
  /\ slot' = [slot EXCEPT ![loop.i].started = @ - 1, ![loop.i].alloced = 1]
  /\ loop' = [pc |-> "wait", i |-> 0]
  /\ UNCHANGED <<avail, thr, client, mp, dd_sem, ev, view, lost, rush>>

-----------------------------------------------------------------------------
(* app_loop. *)
Step(c, from, to) == thr[c].pc = from /\ thr' = [thr EXCEPT ![c].pc = to]


ThreadStart(c) ==
  /\ Step(c, "start", "recv")
  /\ slot' = [slot EXCEPT ![thr[c].i].alive = TRUE, ![thr[c].i].started = @ + 1]
  /\ UNCHANGED <<avail, loop, client, mp, dd_sem, ev, view, lost, rush>>

(* handle_app_msg and the reply. *)
Hello(c) ==
  /\ client[c] = "hello" /\ Step(c, "recv", "add")
  /\ slot' = [slot EXCEPT ![thr[c].i].flag = FlagOf[c], ![thr[c].i].proc = c]
  /\ client' = [client EXCEPT ![c] = "open"]
  /\ UNCHANGED <<avail, loop, mp, dd_sem, ev, view, lost, rush>>

(* The application ended with its hello under way: the reply fails. *)
HelloFails(c) ==
  /\ client[c] = "gone" /\ Step(c, "recv", "close")
  /\ slot' = [slot EXCEPT ![thr[c].i].flag = FlagOf[c], ![thr[c].i].proc = c]
  /\ client' = [client EXCEPT ![c] = "closed"]
  /\ UNCHANGED <<avail, loop, mp, dd_sem, ev, view, lost, rush>>

RecvFails(c) ==
  /\ client[c] = "closed" /\ Step(c, "recv", "close")
  /\ UNCHANGED <<slot, avail, loop, client, mp, dd_sem, ev, view, lost, rush>>

(* mod_dd_mp_flag reads and writes the flags under dd_mtx->sem. *)
ModRead(c, from, to) ==
  /\ dd_sem > 0 /\ thr[c].pc = from
  /\ dd_sem' = dd_sem - 1
  /\ thr' = [thr EXCEPT ![c].pc = to, ![c].tmp = mp]
  /\ UNCHANGED <<slot, avail, loop, client, mp, ev, view, lost, rush>>

(* Faulty variant: an application that ends keeps its flag. *)
ModWriteKept(c, from, to, add) ==
  /\ thr[c].pc = from
  /\ mp' = IF add THEN thr[c].tmp \cup {slot[thr[c].i].flag} ELSE thr[c].tmp
  /\ dd_sem' = dd_sem + 1
  /\ thr' = [thr EXCEPT ![c].pc = to, ![c].tmp = {}]
  /\ UNCHANGED <<slot, avail, loop, client, ev, view, lost, rush>>

ModWrite(c, from, to, add) ==
  LET flag == slot[thr[c].i].flag IN
  /\ thr[c].pc = from
  /\ mp' = IF flag = NULL THEN mp
           ELSE IF add THEN thr[c].tmp \cup {flag} ELSE thr[c].tmp \ {flag}
  /\ dd_sem' = dd_sem + 1
  /\ thr' = [thr EXCEPT ![c].pc = to, ![c].tmp = {}]
  /\ UNCHANGED <<slot, avail, loop, client, ev, view, lost, rush>>

(* fmd_notify_apps. *)
Notified(i) ==
  /\ slot[i].alloced # 0 /\ slot[i].alive
  /\ slot[i].proc # NULL /\ ev[i].proc = slot[i].proc

Notify(c, from, to) ==
  /\ Step(c, from, to)
  /\ ev' = [i \in Slots |-> IF Notified(i) THEN [ev[i] EXCEPT !.posted = TRUE] ELSE ev[i]]
  /\ UNCHANGED <<slot, avail, loop, client, mp, dd_sem, view, lost, rush>>

AddFlag(c) == ModRead(c, "add", "added") \/ ModWrite(c, "added", "tell", TRUE)
             \/ Notify(c, "tell", "recv")

CloseApp(c) ==
  /\ Step(c, "close", "dead")
  /\ slot' = [slot EXCEPT ![thr[c].i].alloced = 0]
  /\ UNCHANGED <<avail, loop, client, mp, dd_sem, ev, view, lost, rush>>

NotAlive(c) ==
  /\ Step(c, "dead", "post")
  /\ slot' = [slot EXCEPT ![thr[c].i].alive = FALSE]
  /\ UNCHANGED <<avail, loop, client, mp, dd_sem, ev, view, lost, rush>>

PostAvail(c) ==
  /\ Step(c, "post", "remove") /\ avail' = avail + 1
  /\ UNCHANGED <<slot, loop, client, mp, dd_sem, ev, view, lost, rush>>

RemoveFlag(c) == ModRead(c, "remove", "removed") \/ ModWrite(c, "removed", "untell", FALSE)
                \/ Notify(c, "untell", "done")

-----------------------------------------------------------------------------
(* The application, in libfmdd. *)
Connect(c) ==
  /\ Acts /\ client[c] = "idle" /\ loop.pc # "dead"
  /\ client' = [client EXCEPT ![c] = "connect"]
  /\ UNCHANGED <<slot, avail, loop, thr, mp, dd_sem, ev, view, lost>>

(* mon_loop: in_use and proc are set once the directory is open. *)
Open(c) ==
  /\ client[c] = "open" /\ client' = [client EXCEPT ![c] = "copy"]
  /\ ev' = [ev EXCEPT ![thr[c].i].proc = c]
  /\ UNCHANGED <<slot, avail, loop, thr, mp, dd_sem, view, lost, rush>>

(* fmd_dd_atomic_copy. *)
CopyDd(c) ==
  /\ client[c] = "copy" /\ client' = [client EXCEPT ![c] = "wait"]
  /\ view' = [view EXCEPT ![c] = mp]
  /\ UNCHANGED <<slot, avail, loop, thr, mp, dd_sem, ev, lost, rush>>

(* sem_timedwait on dd_event. *)
Event(c) ==
  /\ client[c] = "wait" /\ ev[thr[c].i].posted /\ ev[thr[c].i].proc = c
  /\ ev' = [ev EXCEPT ![thr[c].i].posted = FALSE]
  /\ client' = [client EXCEPT ![c] = "copy"]
  /\ UNCHANGED <<slot, avail, loop, thr, mp, dd_sem, view, lost, rush>>

(* sem_timedwait returns without a post: its time is an interval where the    *)
(* call expects a date, and so has always passed.                             *)
Timeout(c) ==
  /\ client[c] = "wait" /\ client' = [client EXCEPT ![c] = "copy"]
  /\ UNCHANGED <<slot, avail, loop, thr, mp, dd_sem, ev, view, lost, rush>>

(* An application ends, clearing its event entry (shutdown_fml) or not.  One *)
(* that is not accepted yet is not modelled as ending.                        *)
Close(c) ==
  /\ Acts /\ client[c] \in {"hello", "open", "copy", "wait"}
  /\ client' = [client EXCEPT ![c] = IF @ = "hello" THEN "gone" ELSE "closed"]
  /\ \/ UNCHANGED ev
     \/ ev[thr[c].i].proc = c /\ ev' = [ev EXCEPT ![thr[c].i].proc = NULL]
  /\ UNCHANGED <<slot, avail, loop, thr, mp, dd_sem, view, lost>>

-----------------------------------------------------------------------------
LoopStep == WaitAvail \/ Scan \/ Started
Serve(c) ==
  ThreadStart(c) \/ Hello(c) \/ HelloFails(c) \/ RecvFails(c) \/ AddFlag(c) \/ CloseApp(c) \/ NotAlive(c)
  \/ PostAvail(c) \/ RemoveFlag(c)
Watch(c) == Open(c) \/ CopyDd(c) \/ Event(c) \/ Timeout(c)

Next ==
  \/ LoopStep
  \/ \E c \in Conns : Accept(c) \/ Serve(c) \/ Watch(c) \/ Connect(c) \/ Close(c)

Spec == Init /\ [][Next]_vars

(* Some application has ended. *)
Ended == \E c \in Conns : client[c] \in {"gone", "closed"}

(* Every thread keeps running; accept takes the connections in some order     *)
(* that forgets none; applications need not connect or end.  Nothing is       *)
(* claimed, and so nothing assumed, after one has ended.                      *)
FairSpec ==
  /\ Spec /\ WF_vars(~Ended /\ LoopStep)
  /\ \A c \in Conns : /\ SF_vars(~Ended /\ Accept(c))
                       /\ WF_vars(~Ended /\ Serve(c)) /\ WF_vars(~Ended /\ Watch(c))

-----------------------------------------------------------------------------
Serving == {"start", "recv", "add", "added", "tell", "close"}
Holds(c) == thr[c].pc \in Serving \cup {"dead", "post"}

(* Type correctness of the slots, the threads and the semaphores. *)
TypeOK ==
  /\ \A i \in Slots : /\ slot[i].alloced \in 0..2 /\ slot[i].alive \in BOOLEAN
                      /\ slot[i].flag \in Flags \cup {NULL} /\ slot[i].started \in 0..1
  /\ avail \in 0..FMD_MAX_APPS /\ dd_sem \in 0..DdSem
  /\ mp \subseteq Flags /\ view \in [Conns -> SUBSET Flags]
  /\ \A c \in Conns : thr[c].i \in Slots \cup {0} /\ (thr[c].pc # "none" => thr[c].i \in Slots)

(* A thread that serves an application has its slot to itself: the slot is   *)
(* marked and holds this connection until the thread gives it back, although *)
(* the connection loop writes alloced at the same time (fmd_app.c:305-312).  *)
(* And apps_avail counts the slots that no thread and no accept in progress  *)
(* holds, whatever the order of connects and ends.                           *)
SlotsExact ==
  /\ \A c \in Conns : thr[c].pc \in Serving =>
       slot[thr[c].i].conn = c /\ slot[thr[c].i].alloced # 0
  /\ avail + lost + Cardinality({c \in Conns : Holds(c)})
       + (IF loop.pc \in {"scan", "accept", "dead"} THEN 1 ELSE 0) = FMD_MAX_APPS

(* libfmdd.h:118: "The flag value passed in will be propagated": once all is *)
(* quiet the flags are those of the connected applications, if these came    *)
(* and went one by one; and every application has seen the current flags: no *)
(* change between its reply, its registration and its copy is missed,        *)
(* whether applications come together or come and go one by one.             *)
FlagsRight ==
  Quiet =>
    /\ ~rush => mp = {FlagOf[c] : c \in {x \in Conns : client[x] = "wait"}}
    /\ ~(rush /\ Ended) => \A c \in Conns : client[c] = "wait" => view[c] = mp


-----------------------------------------------------------------------------
(* What the documentation says and the code does not do. *)

(* libfmdd.h:129: "The application will be removed from the device            *)
(* database": the thread of an application clears that application's flag.   *)
ClearsOwnFlag ==
  \A c \in Conns : thr[c].pc \in {"remove", "removed"} => slot[thr[c].i].flag \in {NULL, FlagOf[c]}

(* fmd_app.c:289: "Maximum applications reached!": the loop ends for want of  *)
(* a slot only when all slots are used.                                      *)
NeverFullEarly ==
  loop.pc = "dead" => Cardinality({c \in Conns : Holds(c)}) >= FMD_MAX_APPS

(* fmd_dd.h:83: "sem_post() whenever the dd changes": a connected            *)
(* application that waits is notified.                                       *)
WaitingIsNotified ==
  \A c \in Conns : thr[c].pc = "recv" /\ client[c] = "wait" => Notified(thr[c].i)
=============================================================================
