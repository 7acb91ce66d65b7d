------------------------------ MODULE FxServer ------------------------------
(***************************************************************************)
(* The threads of the file transfer server (utils/file_transfer/server.c): *)
(* conn_loop accepts connections and hands each one to an idle window or   *)
(* queues it; one xfer_loop per window runs rx_file on the connection it   *)
(* was given and then takes the next one from the queue; the pause command *)
(* of the console holds requests back until enough of them are queued;     *)
(* fxfr_server_shutdown ends the process.                                  *)
(*                                                                         *)
(* A connection is a member of Requests.  rx_file is one step that begins  *)
(* and one that ends; what happens between is module FxTransfer.  Code     *)
(* under conn_reqs_mutex is one step where every other access is under it  *)
(* too, and is split where the code also works without it.                 *)
(***************************************************************************)
EXTENDS Naturals, Sequences, FiniteSets

CONSTANTS Requests,   \* the connections clients may ask for
          NULL,       \* a socket pointer that is NULL
          NWin,       \* buff_cnt
          NumReqs,    \* values the operator gives for NUMREQS
          MaxCmds,    \* bound on the number of pause commands
          MayStop     \* may accept fail, and the server be shut down?

ASSUME FxServerConstants ==
  /\ NULL \notin Requests
  /\ NWin \in Nat \ {0} /\ NumReqs \subseteq Nat /\ MaxCmds \in Nat
  /\ MayStop \in BOOLEAN

Windows == 1..NWin

VARIABLES
  all_must_die, hup, posted,     \* shutdown begun, SIGHUP sent, windows kicked
  exited,                        \* exit() called, or crashed
  pause,                         \* pause_file_xfer_conn
  max_queue,                     \* max_file_xfer_queue
  mutex,                         \* value of conn_reqs_mutex
  queue,                         \* conn_reqs; its length is num_conn_reqs
  cpc, new_socket,               \* conn_loop
  kpc, wanted, cmds,             \* pause command: step, NUMREQS, how many
  xpc, skt,                      \* xfer_loop: step, socket of the list head
  req_skt, completed, req_avail, \* struct buffer_info
  waiting, served, closed,       \* connections asked for; done; dropped
  early                          \* history: one was accepted before all windows were ready

connVars == <<cpc, new_socket>>
cmdVars == <<kpc, wanted, cmds>>
bufVars == <<req_skt, completed, req_avail>>
dieVars == <<all_must_die, hup, posted>>
stopVars == <<dieVars, exited>>
doneVars == <<served, closed>>
askVars == <<waiting, early>>
vars == <<stopVars, pause, max_queue, mutex, queue, connVars, cmdVars, xpc, skt,
          bufVars, askVars, doneVars>>

ConnSteps == {"top", "accept", "lock", "scan", "check", "drain", "unlink", "gone"}
CmdSteps == {"idle", "max", "test", "lock", "batch"}
XferSteps == {"start", "top", "check", "wait", "rx", "busy", "decide", "lock",
              "pop", "unlink", "gone"}

(* bind_server_cmds, setup_buffers and spawn_threads, once conn_loop listens *)
(* and every thread has been created.                                        *)
Init ==
  /\ all_must_die = FALSE /\ hup = FALSE /\ posted = 0 /\ exited = FALSE
  /\ pause = FALSE /\ max_queue = 0
  /\ mutex = 1 /\ queue = <<>>
  /\ cpc = "top" /\ new_socket = NULL
  /\ kpc = "idle" /\ wanted = 0 /\ cmds = 0
  /\ xpc = [i \in Windows |-> "start"] /\ skt = [i \in Windows |-> NULL]
  /\ req_skt = [i \in Windows |-> NULL]
  /\ completed = [i \in Windows |-> FALSE]
  /\ req_avail = [i \in Windows |-> 0]
  /\ waiting = Requests /\ served = {} /\ closed = {} /\ early = FALSE

-----------------------------------------------------------------------------
(* A window that is valid and completed. *)
Idle == {i \in Windows : xpc[i] # "gone" /\ completed[i]}

(* Window i takes socket s and its thread is kicked. *)
Assign(i, s) ==
  /\ req_skt' = [req_skt EXCEPT ![i] = s]
  /\ completed' = [completed EXCEPT ![i] = FALSE]
  /\ req_avail' = [req_avail EXCEPT ![i] = @ + 1]

(* batch_start_connections: the idle windows, lowest first, take the queued *)
(* requests, oldest first.                                                  *)
Rank(i) == Cardinality({j \in Idle : j <= i})
Taker(i) == i \in Idle /\ Rank(i) <= Len(queue)

BatchStartConnections ==
  /\ pause' = FALSE
  /\ req_skt' = [i \in Windows |-> IF Taker(i) THEN queue[Rank(i)] ELSE req_skt[i]]
  /\ completed' = [i \in Windows |-> completed[i] /\ ~Taker(i)]
  /\ req_avail' = [i \in Windows |-> IF Taker(i) THEN req_avail[i] + 1
                                                 ELSE req_avail[i]]
  /\ queue' = SubSeq(queue, Cardinality({i \in Windows : Taker(i)}) + 1, Len(queue))

-----------------------------------------------------------------------------
(* Where a thread of the live process is. *)
ConnAt(step) == ~exited /\ cpc = step
CmdAt(step) == ~exited /\ kpc = step

(* conn_loop *)

ConnTop ==
  /\ ConnAt("top")
  /\ cpc' = IF all_must_die THEN "drain" ELSE "accept"
  /\ UNCHANGED <<stopVars, pause, max_queue, mutex, queue, new_socket, cmdVars, xpc,
                 skt, bufVars, askVars, doneVars>>

Accept(r) ==
  /\ ConnAt("accept") /\ r \in waiting
  /\ cpc' = "lock" /\ new_socket' = r /\ waiting' = waiting \ {r}
  /\ early' = (early \/ \E i \in Windows : xpc[i] = "start")
  /\ UNCHANGED <<stopVars, pause, max_queue, mutex, queue, cmdVars, xpc, skt,
                 bufVars, doneVars>>

AcceptFails ==
  /\ ConnAt("accept") /\ MayStop
  /\ cpc' = "drain"
  /\ UNCHANGED <<stopVars, pause, max_queue, mutex, queue, new_socket, cmdVars, xpc,
                 skt, bufVars, askVars, doneVars>>

ConnLock ==
  /\ ConnAt("lock") /\ mutex > 0
  /\ IF all_must_die
     THEN /\ cpc' = "drain" /\ new_socket' = NULL
          /\ closed' = closed \cup {new_socket} /\ mutex' = mutex
     ELSE cpc' = "scan" /\ mutex' = mutex - 1 /\ UNCHANGED <<new_socket, closed>>
  /\ UNCHANGED <<stopVars, pause, max_queue, queue, cmdVars, xpc, skt, bufVars,
                 askVars, served>>

(* Faulty variant: a window that is still busy is taken too. *)
FirstWindow(i) == xpc[i] # "gone" /\ \A j \in Windows : xpc[j] # "gone" => i <= j

(* The window that the scan of conn_loop stops at. *)
FirstIdle(i) == i \in Idle /\ \A j \in Idle : i <= j

(* add_conn_req finds memory. *)
AddConnReq(s) == queue' = Append(queue, s)

(* The new connection goes to the first idle window, or to the queue. *)
ConnScan ==
  /\ ConnAt("scan") /\ cpc' = "check"
  /\ \/ /\ ~pause
        /\ \E i \in Windows : FirstIdle(i) /\ Assign(i, new_socket)
        /\ queue' = queue
     \/ /\ pause \/ \A i \in Windows : ~FirstIdle(i)
        /\ AddConnReq(new_socket)
        /\ UNCHANGED bufVars
  /\ new_socket' = NULL
  /\ UNCHANGED <<stopVars, pause, max_queue, mutex, cmdVars, xpc, skt, askVars,
                 doneVars>>

ConnCheck ==
  /\ ConnAt("check") /\ cpc' = "top"
  /\ IF pause /\ Len(queue) >= max_queue
     THEN BatchStartConnections
     ELSE UNCHANGED <<pause, queue, bufVars>>
  /\ mutex' = mutex + 1
  /\ UNCHANGED <<stopVars, max_queue, new_socket, cmdVars, xpc, skt, askVars,
                 doneVars>>

(* pop_conn_req reads the socket at the head of the list in one step and    *)
(* unlinks that head in the next.  A list that was emptied between the two    *)
(* is a NULL pointer dereference, and the end of the process.                 *)
Unlink ==
  /\ queue' = IF queue = <<>> THEN <<>> ELSE Tail(queue)
  /\ exited' = (queue = <<>>)

(* The end of conn_loop pops and closes what is queued, without the mutex. *)
ConnDrain ==
  /\ ConnAt("drain")
  /\ cpc' = IF queue = <<>> THEN "gone" ELSE "unlink"
  /\ new_socket' = IF queue = <<>> THEN NULL ELSE Head(queue)
  /\ UNCHANGED <<stopVars, pause, max_queue, mutex, queue, cmdVars, xpc, skt,
                 bufVars, askVars, doneVars>>

ConnUnlink ==
  /\ ConnAt("unlink") /\ cpc' = "drain"
  /\ Unlink
  /\ closed' = closed \cup {new_socket} /\ new_socket' = NULL
  /\ UNCHANGED <<dieVars, pause, max_queue, mutex, cmdVars, xpc, skt, bufVars,
                 askVars, served>>

ConnLoop == \/ ConnTop \/ AcceptFails \/ ConnLock \/ ConnScan \/ ConnCheck
            \/ ConnDrain \/ ConnUnlink
            \/ \E r \in Requests : Accept(r)

-----------------------------------------------------------------------------
(* xfer_loop *)

XferGoto(i, from, to) ==
  ~exited /\ xpc[i] = from /\ xpc' = [xpc EXCEPT ![i] = to]

XferStart(i) ==
  /\ XferGoto(i, "start", "top")
  /\ req_skt' = [req_skt EXCEPT ![i] = NULL]
  /\ completed' = [completed EXCEPT ![i] = TRUE]
  /\ UNCHANGED <<stopVars, pause, max_queue, mutex, queue, connVars, cmdVars, skt,
                 req_avail, askVars, doneVars>>

(* The loop's condition; prep_info_for_xfer. *)
XferTop(i) ==
  /\ XferGoto(i, "top", IF all_must_die THEN "gone" ELSE "check")
  /\ UNCHANGED <<stopVars, pause, max_queue, mutex, queue, connVars, cmdVars, skt,
                 bufVars, askVars, doneVars>>

(* The thread waits for a kick only if it has no request yet. *)
XferCheck(i) ==
  /\ XferGoto(i, "check", IF req_skt[i] = NULL THEN "wait" ELSE "rx")
  /\ UNCHANGED <<stopVars, pause, max_queue, mutex, queue, connVars, cmdVars, skt,
                 bufVars, askVars, doneVars>>

XferWait(i) ==
  /\ XferGoto(i, "wait", "rx")
  /\ req_avail[i] > 0 /\ req_avail' = [req_avail EXCEPT ![i] = @ - 1]
  /\ UNCHANGED <<stopVars, pause, max_queue, mutex, queue, connVars, cmdVars, skt,
                 req_skt, completed, askVars, doneVars>>

(* rx_file sends through *req_skt unless the server is going down. *)
XferRx(i) ==
  /\ XferGoto(i, "rx", "busy")
  /\ exited' = (~all_must_die /\ req_skt[i] = NULL)
  /\ UNCHANGED <<dieVars, pause, max_queue, mutex, queue, connVars, cmdVars,
                 skt, bufVars, askVars, doneVars>>

(* rx_file closes the connection, if there is one, and returns. *)
XferDone(i) ==
  /\ XferGoto(i, "busy", "decide")
  /\ served' = served \cup ({req_skt[i]} \ {NULL})
  /\ req_skt' = [req_skt EXCEPT ![i] = NULL]
  /\ UNCHANGED <<stopVars, pause, max_queue, mutex, queue, connVars, cmdVars, skt,
                 completed, req_avail, askVars, closed>>


(* Whether the thread asks for another request. *)
XferDecide(i) ==
  /\ XferGoto(i, "decide", IF pause THEN "top" ELSE "lock")
  /\ UNCHANGED <<stopVars, pause, max_queue, mutex, queue, connVars, cmdVars, skt,
                 bufVars, askVars, doneVars>>

XferLock(i) ==
  /\ XferGoto(i, "lock", "pop")
  /\ mutex > 0 /\ mutex' = mutex - 1
  /\ UNCHANGED <<stopVars, pause, max_queue, queue, connVars, cmdVars, skt, bufVars,
                 askVars, doneVars>>

XferPop(i) ==
  /\ XferGoto(i, "pop", "unlink")
  /\ skt' = [skt EXCEPT ![i] = IF queue = <<>> THEN NULL ELSE Head(queue)]
  /\ UNCHANGED <<stopVars, pause, max_queue, mutex, queue, connVars, cmdVars,
                 bufVars, askVars, doneVars>>

(* Faulty variant: a window is marked completed whatever it has popped. *)
XferUnlinkIdle(i) ==
  /\ XferGoto(i, "unlink", "top")
  /\ UNCHANGED <<queue, exited>>
  /\ completed' = [completed EXCEPT ![i] = TRUE]
  /\ skt' = [skt EXCEPT ![i] = NULL]
  /\ mutex' = mutex + 1
  /\ UNCHANGED <<dieVars, pause, max_queue, connVars, cmdVars, req_skt, req_avail,
                 askVars, doneVars>>

(* The popped request becomes the window's; without one it is completed. *)
XferUnlink(i) ==
  /\ XferGoto(i, "unlink", "top")
  /\ IF skt[i] = NULL THEN UNCHANGED <<queue, exited>> ELSE Unlink
  /\ req_skt' = [req_skt EXCEPT ![i] = skt[i]]
  /\ completed' = [completed EXCEPT ![i] = @ \/ skt[i] = NULL]
  /\ skt' = [skt EXCEPT ![i] = NULL]
  /\ mutex' = mutex + 1
  /\ UNCHANGED <<dieVars, pause, max_queue, connVars, cmdVars, req_avail,
                 askVars, doneVars>>

XferLoop(i) == \/ XferStart(i) \/ XferTop(i) \/ XferCheck(i) \/ XferWait(i)
               \/ XferRx(i) \/ XferDone(i) \/ XferDecide(i) \/ XferLock(i)
               \/ XferPop(i) \/ XferUnlink(i)

-----------------------------------------------------------------------------
(* FXPauseCmd: the two assignments and the test are made without the mutex. *)

PauseSet(p, n) ==
  /\ CmdAt("idle") /\ cmds < MaxCmds
  /\ kpc' = "max" /\ cmds' = cmds + 1
  /\ pause' = p /\ wanted' = n
  /\ UNCHANGED <<stopVars, max_queue, mutex, queue, connVars, xpc, skt, bufVars,
                 askVars, doneVars>>

PauseMax ==
  /\ CmdAt("max") /\ kpc' = "test"
  /\ max_queue' = wanted
  /\ UNCHANGED <<stopVars, pause, mutex, queue, connVars, wanted, cmds, xpc, skt,
                 bufVars, askVars, doneVars>>

PauseTest ==
  /\ CmdAt("test")
  /\ kpc' = IF Len(queue) >= max_queue \/ (~pause /\ queue # <<>>) THEN "lock"
                                                                   ELSE "idle"
  /\ UNCHANGED <<stopVars, pause, max_queue, mutex, queue, connVars, wanted, cmds,
                 xpc, skt, bufVars, askVars, doneVars>>

PauseLock ==
  /\ CmdAt("lock") /\ kpc' = "batch"
  /\ mutex > 0 /\ mutex' = mutex - 1
  /\ UNCHANGED <<stopVars, pause, max_queue, queue, connVars, wanted, cmds, xpc, skt,
                 bufVars, askVars, doneVars>>

PauseBatch ==
  /\ CmdAt("batch") /\ kpc' = "idle"
  /\ BatchStartConnections
  /\ mutex' = mutex + 1
  /\ UNCHANGED <<stopVars, max_queue, connVars, wanted, cmds, xpc, skt, askVars,
                 doneVars>>

PauseCmd == \/ \E p \in BOOLEAN, n \in NumReqs : PauseSet(p, n)
            \/ PauseMax \/ PauseTest \/ PauseLock \/ PauseBatch

-----------------------------------------------------------------------------
(* fxfr_server_shutdown from the console: SIGHUP to a live conn_loop, the     *)
(* flag, then for each window one post of the mutex and one of its req_avail. *)

Shutdown ==
  /\ ~exited /\ MayStop /\ ~all_must_die
  /\ all_must_die' = TRUE /\ hup' = (cpc # "gone")
  /\ UNCHANGED <<posted, exited, pause, max_queue, mutex, queue, connVars, cmdVars,
                 xpc, skt, bufVars, askVars, doneVars>>

(* Faulty variant: the windows are not kicked. *)
ShutdownNoKick ==
  /\ ~exited /\ all_must_die /\ posted < NWin
  /\ posted' = posted + 1 /\ mutex' = mutex + 1
  /\ UNCHANGED <<all_must_die, hup, exited, pause, max_queue, queue, connVars,
                 cmdVars, xpc, skt, bufVars, askVars, doneVars>>

ShutdownPost ==
  /\ ~exited /\ all_must_die /\ posted < NWin
  /\ posted' = posted + 1 /\ mutex' = mutex + 1
  /\ req_avail' = [req_avail EXCEPT ![posted + 1] =
                     IF xpc[posted + 1] = "gone" THEN @ ELSE @ + 1]
  /\ UNCHANGED <<all_must_die, hup, exited, pause, max_queue, queue, connVars,
                 cmdVars, xpc, skt, req_skt, completed, askVars, doneVars>>

(* sig_handler in the thread of conn_loop ends the process. *)
ConnHup ==
  /\ ~exited /\ hup /\ cpc # "gone"
  /\ exited' = TRUE
  /\ UNCHANGED <<dieVars, pause, max_queue, mutex, queue, connVars, cmdVars, xpc, skt,
                 bufVars, askVars, doneVars>>

Next ==
  \/ ConnLoop \/ PauseCmd \/ Shutdown \/ ShutdownPost \/ ConnHup
  \/ \E i \in Windows : XferLoop(i)

Spec == Init /\ [][Next]_vars

(* A thread that can run does run; rx_file returns (FxTransfer, Termination); *)
(* an accept ends once the flag it polls is set; a signal is delivered.       *)
Fairness ==
  /\ \A i \in Windows : WF_vars(XferLoop(i))
  /\ WF_vars(ConnLoop /\ (cpc # "accept" \/ all_must_die))
  /\ WF_vars(PauseCmd /\ kpc # "idle")
  /\ WF_vars(ShutdownPost) /\ WF_vars(ConnHup)

FairSpec == Spec /\ Fairness

-----------------------------------------------------------------------------
(* Type correctness of the server's globals, windows and threads. *)
TypeOK ==
  /\ all_must_die \in BOOLEAN /\ hup \in BOOLEAN /\ exited \in BOOLEAN
  /\ posted \in 0..NWin
  /\ pause \in BOOLEAN /\ max_queue \in Nat /\ mutex \in Nat
  /\ queue \in Seq(Requests)
  /\ cpc \in ConnSteps /\ new_socket \in Requests \cup {NULL}
  /\ kpc \in CmdSteps /\ wanted \in Nat /\ cmds \in Nat
  /\ xpc \in [Windows -> XferSteps]
  /\ skt \in [Windows -> Requests \cup {NULL}]
  /\ req_skt \in [Windows -> Requests \cup {NULL}]
  /\ completed \in [Windows -> BOOLEAN] /\ req_avail \in [Windows -> Nat]
  /\ waiting \subseteq Requests /\ served \subseteq Requests
  /\ closed \subseteq Requests /\ early \in BOOLEAN

(* The server runs: no shutdown, and conn_loop has not given up. *)
Running == ~all_must_die /\ cpc \notin {"drain", "unlink", "gone"}

(* Where connection r is: not yet accepted, in conn_loop's hand, in the queue, *)
(* at a window, or done.                                                       *)
Places(r) ==
  {<<"waiting", 0>> : x \in {r} \cap waiting}
  \cup {<<"hand", 0>> : x \in {r} \cap {new_socket}}
  \cup {<<"served", 0>> : x \in {r} \cap served}
  \cup {<<"queue", k>> : k \in {j \in DOMAIN queue : queue[j] = r}}
  \cup {<<"window", i>> : i \in {j \in Windows : req_skt[j] = r}}

(* While the server runs, every connection is in exactly one place: conn_loop, *)
(* the pause command and the windows' threads never lose a connection, never   *)
(* give it to two windows, and never overwrite the req_skt of a window that    *)
(* is still to be served.                                                      *)
OneOwner == Running => \A r \in Requests : \E p \in Places(r) : Places(r) = {p}

(* Nothing held requests back: no client was accepted before all windows     *)
(* were ready, and no pause command was given.                               *)
Undisturbed == Running /\ ~early /\ cmds = 0

(* A request is queued only while every window is busy: the unlocked steps   *)
(* of conn_loop and xfer_loop leave no idle window beside a waiting request. *)
QueuedOnlyIfBusy ==
  (Undisturbed /\ mutex = 1 /\ queue # <<>>) => Idle = {}


(* After fxfr_server_shutdown the process ends: conn_loop is interrupted, or  *)
(* has ended already and every xfer_loop finds its way out of both waits.     *)
ShutdownCompletes ==
  all_must_die ~> (exited \/ (cpc = "gone" /\ \A i \in Windows : xpc[i] = "gone"))

-----------------------------------------------------------------------------
(* What the documentation says and the code does not do. *)

(* libfxfr_private.h:76: "server kicks this when new request comes in for     *)
(* this thread to process": a thread that passes req_avail has a request.     *)
KickedHasRequest ==
  \A i \in Windows : (xpc[i] = "rx" /\ ~all_must_die) => req_skt[i] # NULL

(* libfxfr_private.h:81: "0 - currently processing request. 1 - processing    *)
(* complete, waiting on request_avail": a window whose thread waits with      *)
(* nothing to do is marked complete, so that it can be given a request.       *)
WaitingIsCompleted ==
  \A i \in Windows : (xpc[i] = "wait" /\ req_avail[i] = 0) => completed[i]

(* server.c:743: "the request must be queued for later processing": a queued  *)
(* request is taken from the queue some day.                                  *)
QueuedIsProcessed ==
  \A r \in Requests :
    (\E k \in DOMAIN queue : queue[k] = r)
      ~> (exited \/ \A k \in DOMAIN queue : queue[k] # r)

(* server.c:514: "maximum number of requests pending before PAUSE is set back *)
(* to 0": conn_loop ends a pause only when that many requests are queued.     *)
PauseUntilFull ==
  [][(ConnCheck /\ pause /\ ~pause') => Len(queue) >= wanted]_vars
=============================================================================
