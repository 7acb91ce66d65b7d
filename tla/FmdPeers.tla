------------------------------ MODULE FmdPeers ------------------------------
(***************************************************************************)
(* The fabric management daemons: how the master (daemon/src/fmd_master.c) *)
(* and the slaves (daemon/src/fmd_slave.c) keep their device directories   *)
(* alike.                                                                  *)
(*                                                                         *)
(* The master has one thread per connected slave (a session) and a thread  *)
(* that serves a local application.  Each of them may send to every slave. *)
(* A flag is 1 when the application of a device is available.              *)
(* add_device_to_dd, del_device_from_dd and fmd_dd_atomic_copy are single  *)
(* steps.  The reply to a modification is only logged and is left out.     *)
(***************************************************************************)
EXTENDS Naturals, Sequences, FiniteSets

CONSTANTS Slaves, Master, AppThr, NULL,
          Unknown,       \* slaves whose component tag the master does not know
          FMD_MAX_DEVS,
          MaxSes,        \* bound on the sessions of a slave
          MaxFlips,      \* bound on the changes of flags
          Restless       \* slaves that may come and go at any time

ASSUME PeerConstants ==
  /\ Master \notin Slaves /\ NULL \notin Slaves \cup {Master}
  /\ Unknown \subseteq Slaves /\ FMD_MAX_DEVS \in Nat \ {0}
  /\ MaxSes \in Nat \ {0} /\ MaxFlips \in Nat /\ Restless \subseteq Slaves
  /\ AppThr \notin Slaves \X (1..MaxSes) /\ NULL \notin Slaves \X (1..MaxSes)

Sessions == Slaves \X (1..MaxSes)
Threads == Sessions \cup {AppThr}
Devs == Slaves \cup {Master}

VARIABLES
  dd,          \* the master's directory: a sequence of [dev, flag]
  peers,       \* fmp.peers: the sessions that said hello
  peers_mtx,   \* the thread that holds fmp.peers_mtx, or NULL
  tx_mtx,      \* by session: the thread that holds its tx_mtx, or NULL
  th,          \* the master's threads
  ses, up,     \* by slave: its last session, whether its daemon runs
  sdd,         \* by slave: its directory
  upd,         \* by slave and thread: the flag to be sent to the master
  m2s, s2m,    \* by session: the messages under way
  flips,       \* how often a flag changed
  calm         \* whether the environment acts only when all is quiet

mvars == <<dd, peers, peers_mtx, tx_mtx, th>>
svars == <<ses, up, sdd, upd>>
vars == <<dd, peers, peers_mtx, tx_mtx, th, ses, up, sdd, upd, m2s, s2m, flips, calm>>

Dev(d, f) == [dev |-> d, flag |-> f]
DevSet(q) == {q[i].dev : i \in DOMAIN q}
NoUpdate == [pc |-> "idle", dev |-> NULL, flag |-> 0]

Init ==
  /\ dd = <<Dev(Master, 0)>> /\ peers = {} /\ peers_mtx = NULL
  /\ tx_mtx = [k \in Sessions |-> NULL]
  /\ th = [t \in Threads |-> [pc |-> IF t = AppThr THEN "idle" ELSE "none",
                              id |-> NULL, add |-> FALSE, devs |-> <<>>, work |-> {},
                              tgt |-> NULL, todo |-> {}]]
  /\ ses = [s \in Slaves |-> 0] /\ up = [s \in Slaves |-> FALSE]
  /\ sdd = [s \in Slaves |-> <<>>]
  /\ upd = [s \in Slaves |-> [a \in {"rx", "app"} |-> NoUpdate]]
  /\ m2s = [k \in Sessions |-> <<>>] /\ s2m = [k \in Sessions |-> <<>>]
  /\ flips = 0 /\ calm \in BOOLEAN

-----------------------------------------------------------------------------
(* add_device_to_dd: a device that is listed gets the flags added; one that *)
(* does not fit is left out.                                                *)
AddDevice(q, d, f) ==
  IF d \in DevSet(q)
  THEN [i \in DOMAIN q |-> IF q[i].dev = d /\ f > q[i].flag THEN Dev(d, f) ELSE q[i]]
  ELSE IF Len(q) >= FMD_MAX_DEVS THEN q ELSE Append(q, Dev(d, f))

IndexOf(q, d) == CHOOSE i \in DOMAIN q : q[i].dev = d /\ \A j \in 1..(i - 1) : q[j].dev # d

(* del_device_from_dd: the entries behind are moved up; in a full directory  *)
(* num_devs stays and the call fails.                                        *)
DelOk(q, d) == d \in DevSet(q) /\ Len(q) < FMD_MAX_DEVS
DelDevice(q, d) ==
  IF d \notin DevSet(q) THEN q
  ELSE LET n == Len(q)
           x == IndexOf(q, d)
           moved == [i \in 1..(n - 1) |-> IF i < x THEN q[i] ELSE q[i + 1]]
       IN IF n < FMD_MAX_DEVS THEN moved
          ELSE Append(moved, IF x = n THEN Dev(NULL, 0) ELSE q[n])


(* The flag of a device that is listed is replaced. *)
SetFlag(q, d, f) == IF d \notin DevSet(q) THEN q ELSE [q EXCEPT ![IndexOf(q, d)] = Dev(d, f)]

(* The local master port is the first entry (loc_mp_idx) of a directory, as *)
(* long as it is there: mod_dd_mp_flag refuses another entry.               *)
Toggle(q, d) == IF q # <<>> /\ q[1].dev = d THEN [q EXCEPT ![1] = Dev(d, 1 - @.flag)] ELSE q

-----------------------------------------------------------------------------
(* The connection of a session is gone once the slave stopped. *)
Broken(k) == ses[k[1]] # k[2] \/ ~up[k[1]]

Quiet ==
  /\ \A k \in Sessions : m2s[k] = <<>> /\ s2m[k] = <<>>
  /\ \A t \in Threads : th[t].pc \in {"idle", "none", "rx", "dead"}
  /\ \A k \in Sessions : th[k].pc = "rx" => ~Broken(k)
  /\ \A s \in Slaves, a \in {"rx", "app"} : upd[s][a].pc = "idle"

(* A calm environment waits until its last act has been told to everybody.  *)
(* Another one does not wait: the slaves of Restless come and go, once, and *)
(* no flag changes.                                                         *)
MayJoin(s) == IF calm THEN Quiet /\ ses[s] < MaxSes ELSE s \in Restless /\ ses[s] = 0
MayLeave == calm => Quiet
MayFlip == calm /\ Quiet /\ flips < MaxFlips

At(t, p) == th[t].pc = p
Goto(t, p) == th' = [th EXCEPT ![t].pc = p]
Home(t) == IF t = AppThr THEN "idle" ELSE "rx"

(* The head of l_find's list for a device: its oldest session. *)
LFind(d) == IF \E k \in peers : k[1] = d
            THEN CHOOSE k \in peers : k[1] = d /\ \A l \in peers : l[1] = d => k[2] <= l[2]
            ELSE NULL

(* A message to a session; a connection that is gone takes none. *)
Send(k, msg) == m2s' = IF Broken(k) THEN m2s ELSE [m2s EXCEPT ![k] = Append(@, msg)]

-----------------------------------------------------------------------------
(* peer_rx_loop: the messages of a slave.  id is p_did and p_ct, unset until *)
(* the hello.                                                                *)
Receive(k, type) ==
  /\ At(k, "rx") /\ s2m[k] # <<>> /\ Head(s2m[k]).type = type
  /\ s2m' = [s2m EXCEPT ![k] = Tail(@)]

(* master_process_hello_peer.  Nobody else uses the session's tx_mtx before  *)
(* it is listed, so the reply is sent in the same step.                      *)
RxHello(k) ==
  /\ Receive(k, "HELLO")
  /\ \E p \in {"rx", "list", "clean"} :
       /\ IF k[1] \in Unknown
          THEN Send(k, [type |-> "DENIED"]) /\ p = "rx"
          ELSE /\ Send(k, [type |-> "RESP_HELLO"])
               /\ p = "list" \/ (p = "clean" /\ Broken(k))
       /\ th' = [th EXCEPT ![k].pc = p, ![k].id = k[1]]
  /\ UNCHANGED <<dd, peers, peers_mtx, tx_mtx, svars, flips>>

HelloList(k) ==
  /\ At(k, "list") /\ peers_mtx = NULL
  /\ peers' = peers \cup {k} /\ Goto(k, "dd")
  /\ UNCHANGED <<dd, peers_mtx, tx_mtx, svars, m2s, s2m, flips>>

HelloDd(k) ==
  /\ At(k, "dd")
  /\ dd' = AddDevice(dd, k[1], 0)
  /\ th' = [th EXCEPT ![k].pc = "copy", ![k].add = TRUE]
  /\ UNCHANGED <<peers, peers_mtx, tx_mtx, svars, m2s, s2m, flips>>

(* master_process_flag_set. *)
RxFset(k) ==
  /\ Receive(k, "FSET")
  /\ LET msg == Head(s2m[k]) IN
     IF msg.dev = th[k].id /\ msg.dev \in DevSet(dd)
     THEN /\ dd' = SetFlag(dd, msg.dev, msg.flag)
          /\ th' = [th EXCEPT ![k].pc = "copy", ![k].add = FALSE]
     ELSE UNCHANGED <<dd, th>>
  /\ UNCHANGED <<peers, peers_mtx, tx_mtx, svars, m2s, flips>>

RxFails(k) ==
  /\ At(k, "rx") /\ Broken(k) /\ Goto(k, "clean")
  /\ UNCHANGED <<dd, peers, peers_mtx, tx_mtx, svars, m2s, s2m, flips>>

-----------------------------------------------------------------------------
(* update_all_peer_dd_and_flags: every listed device but the master port is *)
(* told about every other device, in the order of the copy.                 *)
Work(q) == {p \in (DOMAIN q) \X (DOMAIN q) : p[1] # p[2] /\ q[p[2]].dev # Master}

(* The place the two loops are at: the source first, then the target. *)
Place(t) == CHOOSE p \in th[t].work : \A r \in th[t].work :
              p[1] < r[1] \/ (p[1] = r[1] /\ p[2] <= r[2])
Src(t) == th[t].devs[Place(t)[1]]
Tgt(t) == th[t].devs[Place(t)[2]].dev

Copy(t) ==
  /\ At(t, "copy")
  /\ th' = [th EXCEPT ![t].pc = "find", ![t].devs = dd, ![t].work = Work(dd)]
  /\ UNCHANGED <<dd, peers, peers_mtx, tx_mtx, svars, m2s, s2m, flips>>

(* l_find of the target, without fmp.peers_mtx. *)
Find(t) ==
  /\ At(t, "find")
  /\ th' = IF th[t].work = {} THEN [th EXCEPT ![t].pc = Home(t), ![t].devs = <<>>]
           ELSE LET k == LFind(Tgt(t)) IN
                IF k = NULL THEN [th EXCEPT ![t].work = @ \ {Place(t)}]
                ELSE [th EXCEPT ![t].pc = "lock", ![t].tgt = k]
  /\ UNCHANGED <<dd, peers, peers_mtx, tx_mtx, svars, m2s, s2m, flips>>

(* A message is put together and sent while the target's tx_mtx is held:     *)
(* to the others this is one step, unless fmp.peers_mtx is waited for.        *)
Transmit(t) ==
  Send(th[t].tgt, [type |-> IF th[t].add THEN "ADD" ELSE "FSET",
                   dev |-> Src(t).dev, flag |-> Src(t).flag])

Done(t) == th' = [th EXCEPT ![t].pc = "find", ![t].work = @ \ {Place(t)}, ![t].tgt = NULL]

(* send_m2s_flag_update, and send_add_dev_msg for the master port. *)
SendTx(t) ==
  /\ At(t, "lock") /\ tx_mtx[th[t].tgt] = NULL
  /\ ~th[t].add \/ Src(t).dev = Master
  /\ Transmit(t) /\ Done(t)
  /\ UNCHANGED <<dd, peers, peers_mtx, tx_mtx, svars, s2m, flips>>

(* send_add_dev_msg for another device: it is looked up among the peers. *)
LockTx(t) ==
  /\ At(t, "lock") /\ tx_mtx[th[t].tgt] = NULL
  /\ th[t].add /\ Src(t).dev # Master
  /\ tx_mtx' = [tx_mtx EXCEPT ![th[t].tgt] = t] /\ Goto(t, "lookup")
  /\ UNCHANGED <<dd, peers, peers_mtx, svars, m2s, s2m, flips>>



LookupSend(t) ==
  /\ At(t, "lookup") /\ peers_mtx = NULL
  /\ IF LFind(Src(t).dev) # NULL THEN Transmit(t) ELSE UNCHANGED m2s
  /\ tx_mtx' = [tx_mtx EXCEPT ![th[t].tgt] = NULL] /\ Done(t)
  /\ UNCHANGED <<dd, peers, peers_mtx, svars, s2m, flips>>

-----------------------------------------------------------------------------
(* cleanup_peer and the end of the thread. *)
CleanList(k) ==
  /\ At(k, "clean")
  /\ \/ k \in peers /\ peers_mtx = NULL /\ peers' = peers \ {k}
     \/ k \notin peers /\ UNCHANGED peers
  /\ Goto(k, "del")
  /\ UNCHANGED <<dd, peers_mtx, tx_mtx, svars, m2s, s2m, flips>>

(* Faulty variant: the device stays in the directory. *)
CleanDdKept(k) ==
  /\ At(k, "del") /\ Goto(k, IF DelOk(dd, th[k].id) THEN "removal" ELSE "free")
  /\ UNCHANGED <<dd, peers, peers_mtx, tx_mtx, svars, m2s, s2m, flips>>

CleanDd(k) ==
  /\ At(k, "del")
  /\ dd' = DelDevice(dd, th[k].id) /\ Goto(k, IF DelOk(dd, th[k].id) THEN "removal" ELSE "free")
  /\ UNCHANGED <<peers, peers_mtx, tx_mtx, svars, m2s, s2m, flips>>

(* send_peer_removal_messages keeps fmp.peers_mtx while it sends to all. *)
RemovalLock(k) ==
  /\ At(k, "removal") /\ peers_mtx = NULL
  /\ peers_mtx' = k /\ th' = [th EXCEPT ![k].pc = "dels", ![k].todo = peers]
  /\ UNCHANGED <<dd, peers, tx_mtx, svars, m2s, s2m, flips>>

RemovalSend(k) ==
  /\ At(k, "dels")
  /\ \E l \in th[k].todo :
       /\ tx_mtx[l] = NULL
       /\ Send(l, [type |-> "DEL", dev |-> th[k].id])
       /\ th' = [th EXCEPT ![k].todo = @ \ {l}]
  /\ UNCHANGED <<dd, peers, peers_mtx, tx_mtx, svars, s2m, flips>>

RemovalEnd(k) ==
  /\ At(k, "dels") /\ th[k].todo = {}
  /\ peers_mtx' = NULL /\ Goto(k, "free")
  /\ UNCHANGED <<dd, peers, tx_mtx, svars, m2s, s2m, flips>>

Free(k) ==
  /\ At(k, "free") /\ Goto(k, "dead") /\ s2m' = [s2m EXCEPT ![k] = <<>>]
  /\ UNCHANGED <<dd, peers, peers_mtx, tx_mtx, svars, m2s, flips>>

-----------------------------------------------------------------------------
(* app_loop of the master: an application comes or goes. *)
MasterFlip ==
  /\ MayFlip /\ At(AppThr, "idle")
  /\ dd' = Toggle(dd, Master) /\ flips' = flips + 1
  /\ th' = [th EXCEPT ![AppThr].pc = "copy", ![AppThr].add = FALSE]
  /\ UNCHANGED <<peers, peers_mtx, tx_mtx, svars, m2s, s2m>>

-----------------------------------------------------------------------------
(* mast_acc, start_new_peer: a connection is accepted and gets its thread. *)
StartNewPeer(k) == Goto(k, "rx")

(* send_slave_hello_message. *)
SendSlaveHello(k) == s2m' = [s2m EXCEPT ![k] = <<[type |-> "HELLO"]>>]

(* A slave's daemon starts with its own port in an empty directory, connects *)
(* and says hello.                                                           *)
SlaveStart(s) ==
  /\ MayJoin(s) /\ ~up[s]
  /\ LET k == <<s, ses[s] + 1>> IN StartNewPeer(k) /\ SendSlaveHello(k)
  /\ ses' = [ses EXCEPT ![s] = @ + 1] /\ up' = [up EXCEPT ![s] = TRUE]
  /\ sdd' = [sdd EXCEPT ![s] = <<Dev(s, 0)>>]
  /\ UNCHANGED <<dd, peers, peers_mtx, tx_mtx, upd, m2s, flips>>

Ses(s) == <<s, ses[s]>>

(* The daemon ends: its connection is gone, with what was under way to it; what    *)
(* it sent may still arrive.                                                  *)
SlaveEnd(s) ==
  /\ up' = [up EXCEPT ![s] = FALSE]
  /\ upd' = [upd EXCEPT ![s] = [a \in {"rx", "app"} |-> NoUpdate]]
  /\ m2s' = [m2s EXCEPT ![Ses(s)] = <<>>]
  /\ UNCHANGED <<mvars, ses, sdd, s2m, flips>>

SlaveStop(s) == MayLeave /\ up[s] /\ SlaveEnd(s)

SlaveFlip(s) ==
  /\ MayFlip /\ up[s] /\ upd[s].app.pc = "idle"
  /\ sdd' = [sdd EXCEPT ![s] = Toggle(@, s)] /\ flips' = flips + 1
  /\ upd' = [upd EXCEPT ![s].app.pc = "read"]
  /\ UNCHANGED <<mvars, ses, up, m2s, s2m>>

(* update_master_flags_from_peer: the first entry is read under the          *)
(* directory's semaphore and sent later, under tx_mtx.                       *)
SlaveRead(s, a) ==
  /\ upd[s][a].pc = "read"
  /\ upd' = [upd EXCEPT ![s][a] =
               IF sdd[s] = <<>> THEN NoUpdate
               ELSE [pc |-> "send", dev |-> sdd[s][1].dev, flag |-> sdd[s][1].flag]]
  /\ UNCHANGED <<mvars, ses, up, sdd, m2s, s2m, flips>>

SlaveSend(s, a) ==
  /\ upd[s][a].pc = "send"
  /\ s2m' = [s2m EXCEPT ![Ses(s)] =
               Append(@, [type |-> "FSET", dev |-> upd[s][a].dev, flag |-> upd[s][a].flag])]
  /\ upd' = [upd EXCEPT ![s][a] = NoUpdate]
  /\ UNCHANGED <<mvars, ses, up, sdd, m2s, flips>>

(* mgmt_slave: the messages of the master. *)
SlaveReceive(s, type) ==
  LET k == Ses(s) IN
  /\ up[s] /\ upd[s].rx.pc = "idle" /\ m2s[k] # <<>> /\ Head(m2s[k]).type = type
  /\ m2s' = [m2s EXCEPT ![k] = Tail(@)]
  /\ UNCHANGED <<mvars, ses, up, s2m, flips>>

SlaveHello(s) ==
  /\ SlaveReceive(s, "RESP_HELLO")
  /\ upd' = [upd EXCEPT ![s].rx.pc = "read"] /\ UNCHANGED sdd

SlaveDenied(s) ==
  /\ up[s] /\ m2s[Ses(s)] # <<>> /\ Head(m2s[Ses(s)]).type = "DENIED"
  /\ SlaveEnd(s)

SlaveMod(s) ==
  LET msg == Head(m2s[Ses(s)]) IN
  /\ \/ SlaveReceive(s, "ADD") /\ sdd' = [sdd EXCEPT ![s] = AddDevice(@, msg.dev, msg.flag)]
     \/ SlaveReceive(s, "DEL") /\ sdd' = [sdd EXCEPT ![s] = DelDevice(@, msg.dev)]
  /\ UNCHANGED upd

SlaveFset(s) ==
  LET msg == Head(m2s[Ses(s)]) IN
  /\ SlaveReceive(s, "FSET")
  /\ sdd' = [sdd EXCEPT ![s] = SetFlag(@, msg.dev, msg.flag)] /\ UNCHANGED upd

-----------------------------------------------------------------------------
PeerRx(k) == RxHello(k) \/ HelloList(k) \/ HelloDd(k) \/ RxFset(k) \/ RxFails(k)
UpdateAll(t) == Copy(t) \/ Find(t) \/ SendTx(t) \/ LockTx(t) \/ LookupSend(t)
Cleanup(k) ==
  CleanList(k) \/ CleanDd(k) \/ RemovalLock(k) \/ RemovalSend(k) \/ RemovalEnd(k) \/ Free(k)
SlaveRx(s) == SlaveHello(s) \/ SlaveDenied(s) \/ SlaveMod(s) \/ SlaveFset(s)
SlaveUpdate(s, a) == SlaveRead(s, a) \/ SlaveSend(s, a)

Daemons ==
  /\ \/ \E k \in Sessions : PeerRx(k) \/ Cleanup(k)
     \/ \E t \in Threads : UpdateAll(t)
     \/ \E s \in Slaves : SlaveRx(s) \/ SlaveUpdate(s, "rx") \/ SlaveUpdate(s, "app")
  /\ UNCHANGED calm

Environment ==
  /\ \/ MasterFlip
     \/ \E s \in Slaves : SlaveStart(s) \/ SlaveStop(s) \/ SlaveFlip(s)
  /\ UNCHANGED calm

Next == Daemons \/ Environment

Spec == Init /\ [][Next]_vars

(* While some thread of some daemon can run, one of them does; no thread is  *)
(* favoured and the environment need not act.  Nothing is claimed, and so    *)
(* nothing assumed, of a restless environment.                               *)
FairSpec == Spec /\ WF_vars(calm /\ Daemons)

-----------------------------------------------------------------------------
FlagOf(q, d) == q[IndexOf(q, d)].flag
Own(d) == IF d = Master THEN FlagOf(dd, d) ELSE FlagOf(sdd[d], d)

Entry == [dev : Devs \cup {NULL}, flag : 0..1]

(* Type correctness of the directories, the threads and the mutexes. *)
TypeOK ==
  /\ dd \in Seq(Entry) /\ Len(dd) <= FMD_MAX_DEVS /\ peers \subseteq Sessions
  /\ peers_mtx \in Sessions \cup {NULL} /\ tx_mtx \in [Sessions -> Threads \cup {NULL}]
  /\ \A t \in Threads : th[t].tgt \in Sessions \cup {NULL} /\ th[t].todo \subseteq Sessions
  /\ up \in [Slaves -> BOOLEAN] /\ ses \in [Slaves -> 0..MaxSes]
  /\ \A s \in Slaves : sdd[s] \in Seq(Entry) /\ Len(sdd[s]) <= FMD_MAX_DEVS

(* The master lists no device twice, and only itself and slaves that said    *)
(* hello (master_process_hello_peer adds to the list of peers first,         *)
(* cleanup_peer takes from it first).                                        *)
DirectoryIsPeers ==
  /\ \A i, j \in DOMAIN dd : dd[i].dev = dd[j].dev => i = j
  /\ \A d \in DevSet(dd) \ {Master} :
       \E k \in Sessions : k[1] = d /\ (k \in peers \/ th[k].pc = "del")




-----------------------------------------------------------------------------
(* A bound for the model checker: of the slaves that come and go at any time  *)
(* a fixed one is the first that gets into the master's directory.  The        *)
(* daemons only compare the names of slaves, so that every other order is this *)
(* one with the names exchanged.                                               *)
AddedInOrder ==
  calm \/ LET first == CHOOSE s \in Restless : TRUE
              added(s) == th[<<s, 1>>].id # NULL /\ th[<<s, 1>>].pc \notin {"list", "dd"}
          IN  added(first) \/ DevSet(dd) = {Master}

-----------------------------------------------------------------------------
(* What the documentation says and the code does not do. *)

(* libfmdd.h:130: "all connected applications will be notified that the      *)
(* flagged application is no longer available": no two threads wait for      *)
(* each other's mutex forever.                                               *)
NoLockCycle ==
  ~\E t \in Threads, k \in Sessions :
     th[t].pc = "lookup" /\ peers_mtx = k /\ th[t].tgt \in th[k].todo

(* fmd_master.c:546: "Tell the peer that it is responsible for freeing the   *)
(* peer data structure": nobody else uses the structure once it is freed.    *)
NoUseAfterFree ==
  \A t \in Threads : th[t].pc \in {"lock", "lookup"} => th[th[t].tgt].pc # "dead"
=============================================================================
