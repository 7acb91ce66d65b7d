--------------------------- MODULE FxServer_proofs --------------------------
(***************************************************************************)
(* Theorems about module FxServer, for any set of connections, any number  *)
(* of windows and of pause commands, with and without a shutdown.          *)
(*                                                                         *)
(* While the server runs conn_reqs_mutex is a mutex, so the head of the    *)
(* queue that a window has read is the head that it unlinks; and a window  *)
(* that may be given a connection has none, because its thread takes one   *)
(* from the queue only while the window is not marked completed.           *)
(***************************************************************************)
EXTENDS FxServer, Integers, TLAPS

(* Who is between sem_wait and sem_post of conn_reqs_mutex. *)
ConnHolds == cpc \in {"scan", "check"}
CmdHolds == kpc = "batch"
XferHolds(i) == xpc[i] \in {"pop", "unlink"}

(* Nobody, or one thread, and the semaphore tells which. *)
LockInv ==
  /\ mutex \in {0, 1}
  /\ ConnHolds => mutex = 0 /\ ~CmdHolds /\ \A i \in Windows : ~XferHolds(i)
  /\ CmdHolds => mutex = 0 /\ \A i \in Windows : ~XferHolds(i)
  /\ \A i \in Windows : XferHolds(i) => mutex = 0
  /\ \A i, j \in Windows : XferHolds(i) /\ XferHolds(j) => i = j

(* The steps of conn_loop that have a connection in hand, and the others. *)
HandInv ==
  /\ cpc \in {"lock", "scan", "unlink"} => new_socket \in Requests
  /\ cpc \in {"top", "accept", "check"} => new_socket = NULL
  /\ hup => all_must_die

(* What each window's thread relies on. *)
WinInv ==
  \A i \in Windows :
    /\ xpc[i] # "gone"
    /\ completed[i] => req_skt[i] = NULL
    /\ xpc[i] \in {"start", "decide", "lock", "pop", "unlink"}
         => ~completed[i] /\ req_skt[i] = NULL
    /\ xpc[i] = "busy" => req_skt[i] # NULL
    /\ xpc[i] = "unlink" => skt[i] = IF queue = <<>> THEN NULL ELSE Head(queue)

(* Every connection has a place, and no two places have the same one. *)
Placed(r) ==
  \/ r \in waiting \/ r = new_socket \/ r \in served
  \/ \E k \in DOMAIN queue : queue[k] = r
  \/ \E i \in Windows : req_skt[i] = r
Away == waiting \cup served \cup ({new_socket} \ {NULL})

OwnInv ==
  /\ \A r \in Requests : Placed(r)
  /\ waiting \cap served = {} /\ new_socket \notin waiting \cup served
  /\ \A k \in DOMAIN queue : queue[k] \notin Away
  /\ \A i \in Windows : req_skt[i] \notin Away
  /\ \A k \in DOMAIN queue, i \in Windows : queue[k] # req_skt[i]
  /\ \A k, l \in DOMAIN queue : queue[k] = queue[l] => k = l
  /\ \A i, j \in Windows : req_skt[i] = req_skt[j] /\ req_skt[i] # NULL => i = j

(* Without a pause, and once all windows are ready, a request is queued only *)
(* while none is idle.                                                       *)
BusyInv ==
  /\ cmds = 0 => kpc = "idle" /\ ~pause
  /\ (Undisturbed /\ (new_socket # NULL \/ queue # <<>>)) => \A i \in Windows : xpc[i] # "start"
  /\ (Undisturbed /\ queue # <<>>) => \A i \in Windows : ~completed[i]

RunInv == LockInv /\ OwnInv /\ (~exited => WinInv)
IndInv == TypeOK /\ HandInv /\ BusyInv /\ (Running => RunInv)
-----------------------------------------------------------------------------
(* The first n requests of the queue go to n windows that were completed. *)
Handed(n) ==
  /\ queue' \in Seq(Requests) /\ Len(queue') = Len(queue) - n
  /\ \A k \in 1..(Len(queue) - n) : queue'[k] = queue[k + n]
  /\ req_skt' \in [Windows -> Requests \cup {NULL}]
  /\ completed' \in [Windows -> BOOLEAN] /\ req_avail' \in [Windows -> Nat]
  /\ \A i \in Windows :
       \/ req_skt'[i] = req_skt[i] /\ completed'[i] = completed[i]
       \/ completed[i] /\ ~completed'[i] /\ \E k \in 1..n : req_skt'[i] = queue[k]
  /\ \A k \in 1..n : \E i \in Windows : completed[i] /\ req_skt'[i] = queue[k]
  /\ \A i, j \in Windows :
       (i # j /\ completed[i] /\ ~completed'[i] /\ completed[j] /\ ~completed'[j])
         => \E l, m \in 1..n : l # m /\ req_skt'[i] = queue[l] /\ req_skt'[j] = queue[m]
-----------------------------------------------------------------------------
(* A server that has stopped stays so, and only a live process steps. *)
LEMMA RunBack ==
  ASSUME HandInv, Next, Running'
  PROVE  Running /\ ~exited
<1> USE DEF stopVars, dieVars, connVars, Running
<1>1. CASE ConnLoop
  BY <1>1 DEF ConnLoop, ConnAt, ConnTop, AcceptFails, ConnLock, ConnScan, ConnCheck, ConnDrain,
              ConnUnlink, Accept
<1>2. CASE PauseCmd
  BY <1>2 DEF PauseCmd, CmdAt, PauseSet, PauseMax, PauseTest, PauseLock, PauseBatch
<1>3. CASE Shutdown \/ ShutdownPost \/ ConnHup
  BY <1>3 DEF Shutdown, ShutdownPost, ConnHup, HandInv
<1>4. ASSUME NEW i \in Windows, XferLoop(i) PROVE Running /\ ~exited
  BY SMTT(60), <1>4 DEF XferLoop, XferStart, XferTop, XferCheck, XferWait, XferRx, XferDone,
              XferDecide, XferLock, XferPop, XferUnlink, XferGoto
<1> QED
  BY <1>1, <1>2, <1>3, <1>4 DEF Next

(* A step that moves no connection and is no window's. *)
LEMMA SameOwners ==
  ASSUME OwnInv, UNCHANGED <<waiting, served, new_socket, queue, req_skt>>
  PROVE  OwnInv'
  BY DEF OwnInv, Placed, Away

LEMMA SameWindows ==
  ASSUME WinInv, UNCHANGED <<xpc, completed, req_skt, skt, queue>>
  PROVE  WinInv'
  BY DEF WinInv

(* The locks by the two threads that are not a window's. *)
LEMMA SameLocks ==
  ASSUME LockInv, UNCHANGED <<mutex, xpc>>, ConnHolds' <=> ConnHolds, CmdHolds' <=> CmdHolds
  PROVE  LockInv'
  BY DEF LockInv, XferHolds

(* Nothing that BusyInv speaks of is changed. *)
LEMMA SameBusy ==
  ASSUME BusyInv, UNCHANGED <<cmds, kpc, pause, new_socket, queue, xpc, completed>>,
         early => early', Running' => Running
  PROVE  BusyInv'
  BY DEF BusyInv, Undisturbed
-----------------------------------------------------------------------------
(* xfer_loop. *)
LEMMA XferPc ==
  ASSUME IndInv, NEW i \in Windows, NEW from, NEW to, XferGoto(i, from, to)
  PROVE  xpc[i] = from /\ xpc'[i] = to /\ \A j \in Windows \ {i} : xpc'[j] = xpc[j]
  BY DEF XferGoto, IndInv, TypeOK

(* A window's step outside the mutex. *)
LEMMA XferUnlocked ==
  ASSUME RunInv, NEW i \in Windows, \A j \in Windows \ {i} : xpc'[j] = xpc[j],
         ~XferHolds(i), ~XferHolds(i)', UNCHANGED <<mutex, cpc, kpc>>
  PROVE  LockInv'
<1>1. \A j \in Windows : XferHolds(j)' => XferHolds(j)
  BY DEF XferHolds
<1> QED
  BY <1>1 DEF RunInv, LockInv, ConnHolds, CmdHolds

LEMMA XferStartRun ==
  ASSUME IndInv, RunInv, Running, ~exited, Running', NEW i \in Windows, XferStart(i)
  PROVE  RunInv' /\ BusyInv'
<1> USE DEF stopVars, dieVars, connVars, cmdVars, bufVars, askVars, doneVars
<1>1. /\ req_skt' = [req_skt EXCEPT ![i] = NULL] /\ completed' = [completed EXCEPT ![i] = TRUE]
      /\ UNCHANGED <<mutex, cpc, kpc, skt, waiting, served, new_socket, queue, cmds, pause,
                     early, exited>>
  BY DEF XferStart
<1>2. xpc[i] = "start" /\ xpc'[i] = "top" /\ \A j \in Windows \ {i} : xpc'[j] = xpc[j]
  BY XferPc DEF XferStart
<1>3. req_skt[i] = NULL
  BY <1>2 DEF RunInv, WinInv
<1>4. UNCHANGED req_skt /\ completed'[i] /\ \A j \in Windows \ {i} : completed'[j] = completed[j]
  BY <1>1, <1>3 DEF IndInv, TypeOK
<1>5. LockInv'
  BY <1>1, <1>2, XferUnlocked DEF XferHolds
<1>6. OwnInv'
  BY <1>1, <1>4, SameOwners DEF RunInv
<1>7. WinInv'
  BY <1>1, <1>2, <1>3, <1>4 DEF RunInv, WinInv
<1>8. BusyInv'
  BY <1>1, <1>2, <1>4 DEF IndInv, BusyInv, Undisturbed
<1> QED
  BY <1>5, <1>6, <1>7, <1>8 DEF RunInv

(* The steps that only move the thread. *)
LEMMA XferMoveRun ==
  ASSUME IndInv, RunInv, Running, ~exited, Running', NEW i \in Windows,
         XferTop(i) \/ XferCheck(i) \/ XferWait(i) \/ XferDecide(i) \/ XferRx(i)
  PROVE  RunInv' /\ BusyInv'
<1> USE DEF stopVars, dieVars, connVars, cmdVars, bufVars, askVars, doneVars
<1>1. UNCHANGED <<mutex, cpc, kpc, skt, waiting, served, new_socket, queue, cmds, pause,
                  early, req_skt, completed>>
  BY DEF XferTop, XferCheck, XferWait, XferDecide, XferRx
<1>2. PICK from, to : /\ XferGoto(i, from, to)
                      /\ \/ from \in {"top", "check", "wait"} /\ to \in {"check", "wait", "rx"}
                         \/ from = "decide" /\ to \in {"top", "lock"}
                         \/ from = "rx" /\ to = "busy"
  BY DEF XferTop, XferCheck, XferWait, XferDecide, XferRx, Running
<1>3. xpc[i] = from /\ xpc'[i] = to /\ \A j \in Windows \ {i} : xpc'[j] = xpc[j]
  BY <1>2, XferPc
<1>4. LockInv'
  BY <1>1, <1>2, <1>3, XferUnlocked DEF XferHolds
<1>5. OwnInv'
  BY <1>1, SameOwners DEF RunInv
<1>6. ~exited' => WinInv'
  <2>1. to = "busy" /\ ~exited' => req_skt[i] # NULL
    BY Zenon, <1>2, <1>3 DEF XferTop, XferCheck, XferWait, XferDecide, XferRx, XferGoto, Running
  <2> QED
    BY <1>1, <1>2, <1>3, <2>1 DEF RunInv, WinInv
<1>7. BusyInv'
  BY <1>1, <1>2, <1>3 DEF IndInv, BusyInv, Undisturbed
<1> QED
  BY <1>4, <1>5, <1>6, <1>7 DEF RunInv

(* The connection of the window is served. *)
LEMMA XferDoneRun ==
  ASSUME IndInv, RunInv, Running, ~exited, Running', NEW i \in Windows, XferDone(i)
  PROVE  RunInv' /\ BusyInv'
<1> USE DEF stopVars, dieVars, connVars, cmdVars, bufVars, askVars, doneVars
<1> DEFINE s == req_skt[i]
<1>1. /\ served' = served \cup ({s} \ {NULL}) /\ req_skt' = [req_skt EXCEPT ![i] = NULL]
      /\ UNCHANGED <<mutex, cpc, kpc, skt, waiting, new_socket, queue, cmds, pause, early,
                     exited, completed>>
  BY DEF XferDone
<1>2. xpc[i] = "busy" /\ xpc'[i] = "decide" /\ \A j \in Windows \ {i} : xpc'[j] = xpc[j]
  BY XferPc DEF XferDone
<1>3. s # NULL /\ ~completed[i] /\ s \in Requests
  BY <1>2 DEF RunInv, WinInv, IndInv, TypeOK
<1>4. /\ served' = served \cup {s} /\ req_skt'[i] = NULL
      /\ \A j \in Windows \ {i} : req_skt'[j] = req_skt[j]
  BY <1>1, <1>3 DEF IndInv, TypeOK
<1>5. LockInv'
  BY <1>1, <1>2, XferUnlocked DEF XferHolds
<1>6. WinInv'
  BY <1>1, <1>2, <1>3, <1>4 DEF RunInv, WinInv
<1>7. OwnInv'
  <2>1. Away' = Away \cup {s} /\ s \notin Away
    BY <1>1, <1>4 DEF Away, RunInv, OwnInv
  <2>2. ASSUME NEW x \in Requests PROVE Placed(x)'
    <3>1. Placed(x) /\ x # NULL
      BY FxServerConstants DEF RunInv, OwnInv
    <3>2. CASE x = s
      BY <1>4, <3>2 DEF Placed
    <3>3. CASE x # s
      <4>1. \A j \in Windows : req_skt[j] = x => j # i
        BY <3>3
      <4> QED
        BY <1>1, <1>4, <3>1, <4>1 DEF Placed
    <3> QED
      BY <3>2, <3>3
  <2>3. s \notin waiting /\ s # new_socket
    BY <1>3, <2>1 DEF Away
  <2>4. waiting' \cap served' = {} /\ new_socket' \notin waiting' \cup served'
    BY <1>1, <1>4, <2>3 DEF RunInv, OwnInv
  <2>5. \A k \in DOMAIN queue' : queue'[k] \notin Away'
    BY <1>1, <2>1 DEF RunInv, OwnInv
  <2>6. NULL \notin Away'
    BY <1>3, <2>1, FxServerConstants DEF Away, IndInv, TypeOK
  <2>7. ASSUME NEW j \in Windows PROVE req_skt'[j] \notin Away'
    <3>1. CASE j = i
      BY <1>4, <2>6, <3>1
    <3>2. CASE j # i
      <4>1. req_skt[j] \notin Away /\ req_skt[j] # s
        BY <1>3, <3>2 DEF RunInv, OwnInv
      <4> QED
        BY <1>4, <2>1, <3>2, <4>1
    <3> QED
      BY <3>1, <3>2
  <2>8. \A k \in DOMAIN queue', j \in Windows : queue'[k] # req_skt'[j]
    <3>1. \A k \in DOMAIN queue : queue[k] # NULL
      BY SMTT(60), FxServerConstants DEF IndInv, TypeOK
    <3> QED
      BY SMTT(60), <1>1, <1>4, <3>1 DEF RunInv, OwnInv
  <2>9. \A k, l \in DOMAIN queue' : queue'[k] = queue'[l] => k = l
    BY <1>1 DEF RunInv, OwnInv
  <2>10. \A j, l \in Windows : req_skt'[j] = req_skt'[l] /\ req_skt'[j] # NULL => j = l
    BY <1>4 DEF RunInv, OwnInv
  <2> QED
    BY <2>2, <2>4, <2>5, <2>7, <2>8, <2>9, <2>10 DEF OwnInv
<1>8. BusyInv'
  BY <1>1, <1>2 DEF IndInv, BusyInv, Undisturbed
<1> QED
  BY <1>5, <1>6, <1>7, <1>8 DEF RunInv

(* Taking the mutex, and reading the head of the queue under it. *)
LEMMA XferLockRun ==
  ASSUME IndInv, RunInv, Running, ~exited, Running', NEW i \in Windows, XferLock(i)
  PROVE  RunInv' /\ BusyInv'
<1> USE DEF stopVars, dieVars, connVars, cmdVars, bufVars, askVars, doneVars
<1>1. /\ mutex > 0 /\ mutex' = mutex - 1
      /\ UNCHANGED <<cpc, kpc, skt, waiting, served, new_socket, queue, cmds, pause, early,
                     exited, req_skt, completed>>
  BY DEF XferLock
<1>2. xpc[i] = "lock" /\ xpc'[i] = "pop" /\ \A j \in Windows \ {i} : xpc'[j] = xpc[j]
  BY XferPc DEF XferLock
<1>3. LockInv'
  <2>1. mutex = 1 /\ ~ConnHolds /\ ~CmdHolds /\ \A j \in Windows : ~XferHolds(j)
    BY <1>1 DEF RunInv, LockInv
  <2>2. mutex' = 0 /\ \A j \in Windows : XferHolds(j)' => j = i
    BY SMTT(60), <1>1, <1>2, <2>1 DEF XferHolds
  <2> QED
    BY <1>1, <2>1, <2>2 DEF LockInv, ConnHolds, CmdHolds
<1>4. OwnInv'
  BY <1>1, SameOwners DEF RunInv
<1>5. WinInv'
  BY <1>1, <1>2 DEF RunInv, WinInv
<1>6. BusyInv'
  BY <1>1, <1>2 DEF IndInv, BusyInv, Undisturbed
<1> QED
  BY <1>3, <1>4, <1>5, <1>6 DEF RunInv

LEMMA XferPopRun ==
  ASSUME IndInv, RunInv, Running, ~exited, Running', NEW i \in Windows, XferPop(i)
  PROVE  RunInv' /\ BusyInv'
<1> USE DEF stopVars, dieVars, connVars, cmdVars, bufVars, askVars, doneVars
<1>1. /\ skt' = [skt EXCEPT ![i] = IF queue = <<>> THEN NULL ELSE Head(queue)]
      /\ UNCHANGED <<mutex, cpc, kpc, waiting, served, new_socket, queue, cmds, pause, early,
                     exited, req_skt, completed>>
  BY DEF XferPop
<1>2. xpc[i] = "pop" /\ xpc'[i] = "unlink" /\ \A j \in Windows \ {i} : xpc'[j] = xpc[j]
  BY XferPc DEF XferPop
<1>3. LockInv'
  <2>1. \A j \in Windows : XferHolds(j)' <=> XferHolds(j)
    BY <1>2 DEF XferHolds
  <2> QED
    BY <1>1, <2>1 DEF RunInv, LockInv, ConnHolds, CmdHolds
<1>4. OwnInv'
  BY <1>1, SameOwners DEF RunInv
<1>5. WinInv'
  <2>1. /\ skt'[i] = IF queue = <<>> THEN NULL ELSE Head(queue)
        /\ \A j \in Windows \ {i} : skt'[j] = skt[j]
    BY <1>1 DEF IndInv, TypeOK
  <2> QED
    BY <1>1, <1>2, <2>1 DEF RunInv, WinInv
<1>6. BusyInv'
  BY <1>1, <1>2 DEF IndInv, BusyInv, Undisturbed
<1> QED
  BY <1>3, <1>4, <1>5, <1>6 DEF RunInv

(* The head that was read is the head that is unlinked. *)
LEMMA XferUnlinkRun ==
  ASSUME IndInv, RunInv, Running, ~exited, Running', NEW i \in Windows, XferUnlink(i)
  PROVE  RunInv' /\ BusyInv'
<1> USE DEF stopVars, dieVars, connVars, cmdVars, bufVars, askVars, doneVars
<1> DEFINE s == skt[i]
<1>1. /\ req_skt' = [req_skt EXCEPT ![i] = s] /\ mutex' = mutex + 1
      /\ completed' = [completed EXCEPT ![i] = @ \/ s = NULL]
      /\ skt' = [skt EXCEPT ![i] = NULL]
      /\ UNCHANGED <<cpc, kpc, waiting, served, new_socket, cmds, pause, early>>
  BY DEF XferUnlink
<1>2. xpc[i] = "unlink" /\ xpc'[i] = "top" /\ \A j \in Windows \ {i} : xpc'[j] = xpc[j]
  BY XferPc DEF XferUnlink
<1>3. /\ ~completed[i] /\ req_skt[i] = NULL /\ s = IF queue = <<>> THEN NULL ELSE Head(queue)
      /\ \A j \in Windows \ {i} : xpc[j] \notin {"pop", "unlink"}
  <2>1. \A j \in Windows : XferHolds(j) => j = i
    BY <1>2 DEF RunInv, LockInv, XferHolds
  <2> QED
    BY <1>2, <2>1 DEF RunInv, WinInv, XferHolds
<1>4. /\ req_skt'[i] = s /\ \A j \in Windows \ {i} : /\ req_skt'[j] = req_skt[j]
                                                     /\ completed'[j] = completed[j]
      /\ completed'[i] <=> s = NULL
  <2>1. req_skt'[i] = s /\ \A j \in Windows \ {i} : /\ req_skt'[j] = req_skt[j]
                                                    /\ completed'[j] = completed[j]
    BY <1>1 DEF IndInv, TypeOK
  <2>2. completed'[i] = (completed[i] \/ s = NULL)
    BY <1>1 DEF IndInv, TypeOK
  <2> QED
    BY Zenon, <1>3, <2>1, <2>2
<1>5. LockInv'
  <2>1. mutex = 0 /\ ~ConnHolds /\ ~CmdHolds
    BY <1>2 DEF RunInv, LockInv, XferHolds
  <2>2. \A j \in Windows : ~XferHolds(j)'
    BY <1>2, <1>3 DEF XferHolds
  <2> QED
    BY <1>1, <2>1, <2>2 DEF LockInv, ConnHolds, CmdHolds
<1>6. WinInv'
  BY SMTT(60), <1>2, <1>3, <1>4 DEF RunInv, WinInv
<1>7. CASE queue = <<>>
  <2>1. s = NULL /\ UNCHANGED <<queue, exited>>
    BY <1>3, <1>7 DEF XferUnlink
  <2>2. UNCHANGED req_skt
    BY <1>1, <1>3, <2>1 DEF IndInv, TypeOK
  <2>3. OwnInv'
    BY <1>1, <2>1, <2>2, SameOwners DEF RunInv
  <2>4. BusyInv'
    BY <1>1, <1>2, <1>7, <2>1 DEF IndInv, BusyInv, Undisturbed
  <2> QED
    BY <1>5, <1>6, <2>3, <2>4 DEF RunInv
<1>8. CASE queue # <<>>
  <2> DEFINE m == Len(queue)
  <2>1. queue \in Seq(Requests)
    BY DEF IndInv, TypeOK
  <2>2. m \in Nat /\ m >= 1 /\ DOMAIN queue = 1..m /\ s = queue[1] /\ s \in Requests
    <3>1. m \in Nat /\ m >= 1 /\ DOMAIN queue = 1..m /\ Head(queue) = queue[1]
      BY <1>8, <2>1
    <3>2. s = Head(queue)
      BY <1>3, <1>8
    <3>3. queue[1] \in Requests
      BY <2>1, <3>1
    <3> QED
      BY <3>1, <3>2, <3>3
  <2>3. s # NULL
    BY <2>2, FxServerConstants
  <2>4. queue' = Tail(queue)
    BY <1>8, <2>3 DEF XferUnlink, Unlink
  <2>5. DOMAIN queue' = 1..(m - 1) /\ \A k \in 1..(m - 1) : queue'[k] = queue[k + 1]
    BY <1>8, <2>1, <2>4
  <2> HIDE DEF m
  <2>6. \A k \in 1..(m - 1) : k + 1 \in 1..m /\ k + 1 # 1
    BY <2>2
  <2>7. OwnInv'
    <3>1. Away' = Away
      BY <1>1 DEF Away
    <3>2. ASSUME NEW x \in Requests PROVE Placed(x)'
      <4>1. Placed(x) /\ x # NULL
        BY FxServerConstants DEF RunInv, OwnInv
      <4>2. CASE x = s
        BY <1>4, <4>2 DEF Placed
      <4>3. ASSUME NEW k \in 1..m, queue[k] = x, x # s PROVE Placed(x)'
        <5>1. k # 1
          BY <2>2, <4>3
        <5>2. k - 1 \in 1..(m - 1) /\ (k - 1) + 1 = k
          BY <2>2, <5>1
        <5> QED
          BY <2>5, <4>3, <5>2 DEF Placed
      <4>4. ASSUME NEW j \in Windows, req_skt[j] = x PROVE Placed(x)'
        <5>1. j # i
          BY <1>3, <4>1, <4>4
        <5> QED
          BY <1>4, <4>4, <5>1 DEF Placed
      <4> QED
        BY <1>1, <2>2, <4>1, <4>2, <4>3, <4>4 DEF Placed
    <3>3. waiting' \cap served' = {} /\ new_socket' \notin waiting' \cup served'
      BY <1>1 DEF RunInv, OwnInv
    <3>4. \A k \in DOMAIN queue' : queue'[k] \notin Away'
      BY <2>2, <2>5, <2>6, <3>1 DEF RunInv, OwnInv
    <3>5. \A j \in Windows : req_skt'[j] \notin Away'
      BY SMTT(60), <1>4, <2>2, <3>1 DEF RunInv, OwnInv
    <3>6. \A k \in DOMAIN queue', j \in Windows : queue'[k] # req_skt'[j]
      BY SMTT(60), <1>4, <2>2, <2>5, <2>6 DEF RunInv, OwnInv
    <3>7. ASSUME NEW k \in DOMAIN queue', NEW l \in DOMAIN queue', queue'[k] = queue'[l]
          PROVE  k = l
      <4>1. k \in Int /\ l \in Int /\ k + 1 \in DOMAIN queue /\ l + 1 \in DOMAIN queue
        BY <2>2, <2>5, <2>6, <3>7
      <4>2. queue[k + 1] = queue[l + 1]
        BY <2>5, <3>7
      <4>3. k + 1 = l + 1
        BY <4>1, <4>2 DEF RunInv, OwnInv
      <4> QED
        BY <4>1, <4>3
    <3>8. \A j, l \in Windows : req_skt'[j] = req_skt'[l] /\ req_skt'[j] # NULL => j = l
      <4>1. ASSUME NEW j \in Windows PROVE req_skt[j] # s
        <5>1. 1 \in DOMAIN queue
          BY <2>2
        <5> QED
          BY <2>2, <5>1 DEF RunInv, OwnInv
      <4> QED
        BY SMTT(60), <1>4, <4>1 DEF RunInv, OwnInv
    <3> QED
      BY <3>2, <3>3, <3>4, <3>5, <3>6, <3>7, <3>8 DEF OwnInv
  <2>8. BusyInv'
    <3>1. \A j \in Windows : completed'[j] => completed[j]
      BY <1>4, <2>3
    <3> QED
      BY <1>1, <1>2, <1>8, <3>1 DEF IndInv, BusyInv, Undisturbed
  <2> QED
    BY <1>5, <1>6, <2>7, <2>8 DEF RunInv
<1> QED
  BY <1>7, <1>8
-----------------------------------------------------------------------------
(* batch_start_connections moves connections from the queue to windows that  *)
(* have none, each of them once.                                             *)
LEMMA BatchRun ==
  ASSUME IndInv, OwnInv, WinInv, NEW n \in 0..Len(queue), Handed(n),
         UNCHANGED <<waiting, served, new_socket, xpc, skt>>,
         \A i \in Windows : xpc[i] \notin {"pop", "unlink"}
  PROVE  OwnInv' /\ WinInv'
<1> DEFINE m == Len(queue)
           Got(i) == completed[i] /\ ~completed'[i] /\ \E k \in 1..n : req_skt'[i] = queue[k]
<1>1. /\ m \in Nat /\ n \in Nat /\ n <= m /\ m - n \in Nat /\ DOMAIN queue = 1..m
      /\ DOMAIN queue' = 1..(m - n)
      /\ \A k \in 1..(m - n) : queue'[k] = queue[k + n] /\ k + n \in 1..m /\ k + n \notin 1..n
  BY SMTT(60) DEF Handed, IndInv, TypeOK
<1>2. \A k \in 1..m : queue[k] \in Requests /\ queue[k] # NULL
  BY SMTT(60), <1>1, FxServerConstants DEF IndInv, TypeOK
<1>3. \A k \in 1..n : k \in 1..m
  BY <1>1
<1>4. \A i \in Windows : \/ req_skt'[i] = req_skt[i] /\ completed'[i] = completed[i]
                         \/ Got(i)
  BY Zenon DEF Handed
<1>5. \A i \in Windows : completed[i] => req_skt[i] = NULL
  BY DEF WinInv
<1>6. Away' = Away
  BY DEF Away
<1> HIDE DEF m
<1>7. WinInv'
  <2> SUFFICES ASSUME NEW i \in Windows
               PROVE  /\ xpc'[i] # "gone"
                      /\ completed'[i] => req_skt'[i] = NULL
                      /\ xpc'[i] \in {"start", "decide", "lock", "pop", "unlink"}
                           => ~completed'[i] /\ req_skt'[i] = NULL
                      /\ xpc'[i] = "busy" => req_skt'[i] # NULL
                      /\ xpc'[i] # "unlink"
    BY DEF WinInv
  <2>1. CASE req_skt'[i] = req_skt[i] /\ completed'[i] = completed[i]
    BY <2>1 DEF WinInv
  <2>2. CASE Got(i)
    BY <1>2, <1>3, <2>2 DEF WinInv
  <2> QED
    BY <1>4, <2>1, <2>2
<1>8. ASSUME NEW x \in Requests PROVE Placed(x)'
  <2>1. Placed(x) /\ x # NULL
    BY FxServerConstants DEF OwnInv
  <2>2. ASSUME NEW k \in 1..m, queue[k] = x PROVE Placed(x)'
    <3>1. CASE k \in 1..n
      BY Zenon, <2>2, <3>1 DEF Handed, Placed
    <3>2. CASE k \notin 1..n
      <4>1. k - n \in 1..(m - n) /\ (k - n) + n = k
        BY <1>1, <3>2
      <4> QED
        BY <1>1, <2>2, <4>1 DEF Placed
    <3> QED
      BY <3>1, <3>2
  <2>3. ASSUME NEW i \in Windows, req_skt[i] = x PROVE Placed(x)'
    BY <1>4, <1>5, <2>1, <2>3 DEF Placed
  <2> QED
    BY <1>1, <2>1, <2>2, <2>3 DEF Placed
<1>9. \A k \in DOMAIN queue' : queue'[k] \notin Away'
  BY <1>1, <1>6 DEF OwnInv
<1>10. \A i \in Windows : req_skt'[i] \notin Away'
  BY <1>1, <1>3, <1>4, <1>6 DEF OwnInv
<1>11. ASSUME NEW k \in DOMAIN queue', NEW i \in Windows PROVE queue'[k] # req_skt'[i]
  <2>1. k + n \in 1..m /\ k + n \notin 1..n /\ queue'[k] = queue[k + n]
    BY <1>1
  <2>2. CASE Got(i)
    BY Zenon, <1>1, <1>3, <2>1, <2>2 DEF OwnInv
  <2>3. CASE req_skt'[i] = req_skt[i]
    BY <1>1, <2>1, <2>3 DEF OwnInv
  <2> QED
    BY <1>4, <2>2, <2>3
<1>12. ASSUME NEW k \in DOMAIN queue', NEW l \in DOMAIN queue', queue'[k] = queue'[l] PROVE k = l
  <2>1. k \in Int /\ l \in Int /\ k + n = l + n
    BY <1>1, <1>12 DEF OwnInv
  <2> QED
    BY SMTT(60), <1>1, <2>1
<1>13. ASSUME NEW i \in Windows, NEW j \in Windows, req_skt'[i] = req_skt'[j],
              req_skt'[i] # NULL, i # j
       PROVE  FALSE
  <2>1. CASE Got(i) /\ Got(j)
    <3>1. \E k, l \in 1..n : k # l /\ req_skt'[i] = queue[k] /\ req_skt'[j] = queue[l]
      BY Zenon, <1>13, <2>1 DEF Handed
    <3> QED
      BY Zenon, <1>1, <1>3, <1>13, <3>1 DEF OwnInv
  <2>2. CASE Got(i) /\ req_skt'[j] = req_skt[j]
    <3>1. PICK k \in 1..n : req_skt'[i] = queue[k]
      BY <2>2
    <3>2. k \in DOMAIN queue /\ queue[k] = req_skt[j]
      BY Zenon, <1>1, <1>3, <1>13, <2>2, <3>1
    <3> QED
      BY <3>2 DEF OwnInv
  <2>3. CASE Got(j) /\ req_skt'[i] = req_skt[i]
    BY SMTT(60), <1>1, <1>3, <1>13, <2>3 DEF OwnInv
  <2>4. CASE req_skt'[i] = req_skt[i] /\ req_skt'[j] = req_skt[j]
    BY Zenon, <1>13, <2>4 DEF OwnInv
  <2>5. (Got(i) \/ req_skt'[i] = req_skt[i]) /\ (Got(j) \/ req_skt'[j] = req_skt[j])
    BY <1>4
  <2> HIDE DEF Got
  <2> QED
    BY <2>1, <2>2, <2>3, <2>4, <2>5
<1>14. waiting' \cap served' = {} /\ new_socket' \notin waiting' \cup served'
  BY DEF OwnInv
<1>15. OwnInv'
  BY <1>8, <1>9, <1>10, <1>11, <1>12, <1>13, <1>14 DEF OwnInv
<1> QED
  BY <1>7, <1>15
-----------------------------------------------------------------------------
(* conn_loop. *)
LEMMA ConnTopRun ==
  ASSUME IndInv, RunInv, Running, ~exited, Running', ConnTop
  PROVE  RunInv' /\ BusyInv'
<1> USE DEF ConnAt, stopVars, dieVars, cmdVars, bufVars, askVars, doneVars
<1>1. /\ cpc = "top" /\ cpc' \in {"accept", "drain"}
      /\ UNCHANGED <<mutex, xpc, skt, kpc, waiting, served, new_socket, queue, req_skt,
                     completed, cmds, pause, early, exited>>
  BY DEF ConnTop
<1>2. LockInv'
  <2>1. ~ConnHolds /\ ~ConnHolds' /\ (CmdHolds' <=> CmdHolds)
    BY <1>1 DEF ConnHolds, CmdHolds
  <2> QED
    BY <1>1, <2>1, SameLocks DEF RunInv
<1>3. OwnInv' /\ WinInv'
  BY <1>1, SameOwners, SameWindows DEF RunInv
<1>4. BusyInv'
  BY <1>1, SameBusy DEF IndInv
<1> QED
  BY <1>2, <1>3, <1>4 DEF RunInv

LEMMA AcceptRun ==
  ASSUME IndInv, RunInv, Running, ~exited, Running', NEW r \in Requests, Accept(r)
  PROVE  RunInv' /\ BusyInv'
<1> USE DEF ConnAt, stopVars, dieVars, cmdVars, bufVars, askVars, doneVars
<1>1. /\ cpc = "accept" /\ cpc' = "lock" /\ r \in waiting /\ new_socket = NULL
      /\ new_socket' = r /\ waiting' = waiting \ {r}
      /\ UNCHANGED <<mutex, xpc, skt, kpc, served, queue, req_skt, completed, cmds, pause, exited>>
  BY DEF Accept, IndInv, HandInv
<1>2. LockInv'
  <2>1. ~ConnHolds /\ ~ConnHolds' /\ (CmdHolds' <=> CmdHolds)
    BY <1>1 DEF ConnHolds, CmdHolds
  <2> QED
    BY <1>1, <2>1, SameLocks DEF RunInv
<1>3. WinInv'
  BY <1>1, SameWindows DEF RunInv
<1>4. OwnInv'
  <2>1. r # NULL
    BY FxServerConstants
  <2>2. Away' = Away
    BY <1>1, <2>1 DEF Away
  <2>3. ASSUME NEW x \in Requests PROVE Placed(x)'
    <3>1. x # NULL /\ Placed(x)
      BY FxServerConstants DEF RunInv, OwnInv
    <3> QED
      BY <1>1, <3>1 DEF Placed
  <2>4. waiting' \cap served' = {} /\ new_socket' \notin waiting' \cup served'
    BY <1>1 DEF RunInv, OwnInv
  <2> QED
    BY <1>1, <2>2, <2>3, <2>4 DEF RunInv, OwnInv
<1>5. BusyInv'
  <2>1. early' = (early \/ \E i \in Windows : xpc[i] = "start")
    BY DEF Accept
  <2>2. ~early' => ~early /\ \A i \in Windows : xpc[i] # "start"
    BY Zenon, <2>1
  <2> QED
    BY <1>1, <2>2 DEF IndInv, BusyInv, Undisturbed
<1> QED
  BY <1>2, <1>3, <1>4, <1>5 DEF RunInv

LEMMA ConnLockRun ==
  ASSUME IndInv, RunInv, Running, ~exited, Running', ConnLock
  PROVE  RunInv' /\ BusyInv'
<1> USE DEF ConnAt, stopVars, dieVars, cmdVars, bufVars, askVars, doneVars
<1>1. /\ cpc = "lock" /\ cpc' = "scan" /\ mutex > 0 /\ mutex' = mutex - 1
      /\ UNCHANGED <<xpc, skt, kpc, waiting, served, new_socket, queue, req_skt,
                     completed, cmds, pause, early, exited>>
  BY DEF ConnLock, Running
<1>2. LockInv'
  BY <1>1 DEF RunInv, LockInv, ConnHolds, CmdHolds, XferHolds
<1>3. OwnInv' /\ WinInv'
  BY <1>1, SameOwners, SameWindows DEF RunInv
<1>4. BusyInv'
  BY <1>1, SameBusy DEF IndInv
<1> QED
  BY <1>2, <1>3, <1>4 DEF RunInv
-----------------------------------------------------------------------------
LEMMA InitInd == Init => IndInv
<1> SUFFICES ASSUME Init PROVE IndInv
  OBVIOUS
<1>1. TypeOK
  <2>1. xpc \in [Windows -> XferSteps] /\ cpc \in ConnSteps /\ kpc \in CmdSteps
    BY DEF Init, XferSteps, ConnSteps, CmdSteps
  <2>2. queue \in Seq(Requests) /\ posted \in 0..NWin
    BY FxServerConstants DEF Init
  <2> QED
    BY Zenon, <2>1, <2>2 DEF Init, TypeOK
<1>2. HandInv /\ BusyInv
  BY DEF Init, HandInv, BusyInv
<1>3. \A i \in Windows : xpc[i] = "start" /\ req_skt[i] = NULL /\ completed[i] = FALSE
  BY DEF Init
<1>4. LockInv
  BY <1>3 DEF Init, LockInv, ConnHolds, CmdHolds, XferHolds
<1>5. WinInv
  BY <1>3 DEF WinInv
<1>6. OwnInv
  BY SMTT(60), <1>3, FxServerConstants DEF Init, OwnInv, Placed, Away
<1> QED
  BY <1>1, <1>2, <1>4, <1>5, <1>6 DEF IndInv, RunInv

(* Once a shutdown has begun only the console's bookkeeping matters. *)
LEMMA CmdsBusy ==
  ASSUME IndInv, Next
  PROVE  cmds' = 0 => kpc' = "idle" /\ ~pause'
<1> USE DEF stopVars, dieVars, connVars, cmdVars, bufVars, askVars, doneVars
<1>1. cmds = 0 => kpc = "idle" /\ ~pause
  BY DEF IndInv, BusyInv
<1>2. CASE ConnLoop
  BY <1>1, <1>2 DEF ConnLoop, ConnTop, AcceptFails, ConnLock, ConnScan, ConnCheck, ConnDrain,
                    ConnUnlink, Accept, BatchStartConnections
<1>3. CASE PauseCmd
  BY SMTT(60), <1>1, <1>3 DEF PauseCmd, CmdAt, PauseSet, PauseMax, PauseTest, PauseLock, PauseBatch,
                    IndInv, TypeOK
<1>4. CASE Shutdown \/ ShutdownPost \/ ConnHup
  BY <1>1, <1>4 DEF Shutdown, ShutdownPost, ConnHup
<1>5. ASSUME NEW i \in Windows, XferLoop(i) PROVE cmds' = 0 => kpc' = "idle" /\ ~pause'
  BY <1>1, <1>5 DEF XferLoop, XferStart, XferTop, XferCheck, XferWait, XferRx, XferDone,
                    XferDecide, XferLock, XferPop, XferUnlink
<1> QED
  BY <1>2, <1>3, <1>4, <1>5 DEF Next
-----------------------------------------------------------------------------
LEMMA XferTypes ==
  ASSUME TypeOK, HandInv, NEW i \in Windows, XferLoop(i)
  PROVE  TypeOK' /\ HandInv'
<1> USE DEF stopVars, dieVars, connVars, cmdVars, bufVars, askVars, doneVars
<1>1. xpc' \in [Windows -> XferSteps]
  <2>1. PICK to \in XferSteps : xpc' = [xpc EXCEPT ![i] = to]
    BY DEF XferLoop, XferStart, XferTop, XferCheck, XferWait, XferRx, XferDone, XferDecide,
           XferLock, XferPop, XferUnlink, XferGoto, XferSteps
  <2> QED
    BY <2>1 DEF TypeOK
<1>2. CASE XferStart(i)
  BY <1>1, <1>2 DEF XferStart, TypeOK, HandInv
<1>3. CASE XferTop(i) \/ XferCheck(i) \/ XferDecide(i)
  BY <1>1, <1>3 DEF XferTop, XferCheck, XferDecide, TypeOK, HandInv
<1>4. CASE XferWait(i)
  BY <1>1, <1>4 DEF XferWait, TypeOK, HandInv
<1>5. CASE XferRx(i)
  <2>1. exited' \in BOOLEAN
    BY <1>5 DEF XferRx, TypeOK
  <2> QED
    BY <1>1, <1>5, <2>1 DEF XferRx, TypeOK, HandInv
<1>6. CASE XferDone(i)
  BY <1>1, <1>6 DEF XferDone, TypeOK, HandInv
<1>7. CASE XferLock(i)
  BY <1>1, <1>7 DEF XferLock, TypeOK, HandInv
<1>8. CASE XferPop(i)
  BY <1>1, <1>8 DEF XferPop, TypeOK, HandInv
<1>9. CASE XferUnlink(i)
  <2>1. queue' \in Seq(Requests) /\ exited' \in BOOLEAN
    <3>1. CASE UNCHANGED <<queue, exited>>
      BY <3>1 DEF TypeOK
    <3>2. CASE Unlink
      BY <3>2 DEF Unlink, TypeOK
    <3> QED
      BY <1>9, <3>1, <3>2 DEF XferUnlink
  <2>2. req_skt' \in [Windows -> Requests \cup {NULL}] /\ skt' \in [Windows -> Requests \cup {NULL}]
    BY <1>9 DEF XferUnlink, TypeOK
  <2>3. completed' \in [Windows -> BOOLEAN]
    BY <1>9 DEF XferUnlink, TypeOK
  <2> QED
    BY <1>1, <1>9, <2>1, <2>2, <2>3 DEF XferUnlink, TypeOK, HandInv
<1> QED
  BY <1>2, <1>3, <1>4, <1>5, <1>6, <1>7, <1>8, <1>9 DEF XferLoop

LEMMA StopTypes ==
  ASSUME TypeOK, HandInv, Shutdown \/ ShutdownPost \/ ConnHup
  PROVE  TypeOK' /\ HandInv'
<1> USE DEF stopVars, dieVars, connVars, cmdVars, bufVars, askVars, doneVars
<1>1. CASE Shutdown
  <2>1. hup' \in BOOLEAN
    BY <1>1 DEF Shutdown
  <2> QED
    BY <1>1, <2>1 DEF Shutdown, TypeOK, HandInv
<1>2. CASE ShutdownPost
  <2>1. posted' \in 0..NWin /\ posted + 1 \in Windows
    BY <1>2, FxServerConstants DEF ShutdownPost, TypeOK, Windows
  <2>2. req_avail' \in [Windows -> Nat]
    BY <1>2, <2>1 DEF ShutdownPost, TypeOK
  <2> QED
    BY <1>2, <2>1, <2>2 DEF ShutdownPost, TypeOK, HandInv
<1>3. CASE ConnHup
  BY <1>3 DEF ConnHup, TypeOK, HandInv
<1> QED
  BY <1>1, <1>2, <1>3
-----------------------------------------------------------------------------
(* The places of a connection in a state of the inductive invariant. *)
LEMMA OwnersApart == IndInv => OneOwner
<1> SUFFICES ASSUME IndInv, Running, NEW r \in Requests
             PROVE  \E p \in Places(r) : Places(r) = {p}
  BY DEF OneOwner
<1>1. OwnInv /\ r # NULL
  BY FxServerConstants DEF IndInv, RunInv
<1>2. CASE r \in waiting
  <2>1. r # new_socket /\ r \notin served
    BY <1>1, <1>2 DEF OwnInv
  <2>2. \A k \in DOMAIN queue : queue[k] # r
    BY <1>1, <1>2 DEF OwnInv, Away
  <2>3. \A i \in Windows : req_skt[i] # r
    BY <1>1, <1>2 DEF OwnInv, Away
  <2>4. Places(r) = {<<"waiting", 0>>}
    BY <1>2, <2>1, <2>2, <2>3 DEF Places
  <2> QED
    BY <2>4
<1>3. CASE r = new_socket
  <2>1. r \notin waiting /\ r \notin served
    BY <1>1, <1>3 DEF OwnInv
  <2>2. \A k \in DOMAIN queue : queue[k] # r
    BY <1>1, <1>3 DEF OwnInv, Away
  <2>3. \A i \in Windows : req_skt[i] # r
    BY <1>1, <1>3 DEF OwnInv, Away
  <2>4. Places(r) = {<<"hand", 0>>}
    BY <1>3, <2>1, <2>2, <2>3 DEF Places
  <2> QED
    BY <2>4
<1>4. CASE r \in served
  <2>1. r \notin waiting /\ r # new_socket
    BY <1>1, <1>4 DEF OwnInv
  <2>2. \A k \in DOMAIN queue : queue[k] # r
    BY SMTT(60), <1>1, <1>4 DEF OwnInv, Away
  <2>3. \A i \in Windows : req_skt[i] # r
    BY SMTT(60), <1>1, <1>4 DEF OwnInv, Away
  <2>4. Places(r) = {<<"served", 0>>}
    BY <1>4, <2>1, <2>2, <2>3 DEF Places
  <2> QED
    BY <2>4
<1>5. ASSUME NEW k \in DOMAIN queue, queue[k] = r PROVE \E p \in Places(r) : Places(r) = {p}
  <2>1. r \notin waiting /\ r # new_socket /\ r \notin served
    BY <1>1, <1>5 DEF OwnInv, Away
  <2>2. \A l \in DOMAIN queue : queue[l] = r <=> l = k
    BY <1>1, <1>5 DEF OwnInv
  <2>3. \A i \in Windows : req_skt[i] # r
    BY <1>1, <1>5 DEF OwnInv
  <2>4. Places(r) = {<<"queue", k>>}
    BY <2>1, <2>2, <2>3 DEF Places
  <2> QED
    BY <2>4
<1>6. ASSUME NEW i \in Windows, req_skt[i] = r PROVE \E p \in Places(r) : Places(r) = {p}
  <2>1. r \notin waiting /\ r # new_socket /\ r \notin served
    BY <1>1, <1>6 DEF OwnInv, Away
  <2>2. \A l \in DOMAIN queue : queue[l] # r
    BY <1>1, <1>6 DEF OwnInv
  <2>3. \A j \in Windows : req_skt[j] = r <=> j = i
    BY <1>1, <1>6 DEF OwnInv
  <2>4. Places(r) = {<<"window", i>>}
    BY <2>1, <2>2, <2>3 DEF Places
  <2> QED
    BY <2>4
<1> QED
  BY <1>1, <1>2, <1>3, <1>4, <1>5, <1>6 DEF OwnInv, Placed
-----------------------------------------------------------------------------
INSTANCE WellFoundedInduction

(* A scan for an idle window stops at the lowest one. *)
LEMMA LeastWindow ==
  ASSUME NEW S \in SUBSET Windows, S # {}
  PROVE  \E i \in S : \A j \in S : i <= j
<1>1. S \subseteq Nat
  BY DEF Windows
<1>2. PICK i \in S : \A j \in S : ~(<<j, i>> \in OpToRel(<, Nat))
  BY Zenon, <1>1, NatLessThanWellFounded, WFMin
<1>3. ASSUME NEW j \in S PROVE i <= j
  <2>1. ~(j < i)
    BY Zenon, <1>1, <1>2, <1>3 DEF OpToRel
  <2> QED
    BY <1>1, <2>1
<1> QED
  BY <1>3

(* The connection in hand goes to a window that has none, or to the queue's  *)
(* end if no window is idle.                                                 *)
LEMMA ConnScanRun ==
  ASSUME IndInv, RunInv, Running, ~exited, Running', ConnScan
  PROVE  RunInv' /\ BusyInv'
<1> USE DEF ConnAt, stopVars, dieVars, cmdVars, bufVars, askVars, doneVars
<1> DEFINE s == new_socket
<1>1. /\ cpc = "scan" /\ cpc' = "check" /\ s \in Requests /\ s # NULL /\ new_socket' = NULL
      /\ UNCHANGED <<mutex, xpc, skt, kpc, waiting, served, cmds, pause, early, exited>>
  BY FxServerConstants DEF ConnScan, IndInv, HandInv
<1>2. LockInv'
  <2>1. ConnHolds /\ ConnHolds' /\ (CmdHolds' <=> CmdHolds)
    BY <1>1 DEF ConnHolds, CmdHolds
  <2> QED
    BY <1>1, <2>1, SameLocks DEF RunInv
<1>3. \A i \in Windows : xpc[i] \notin {"pop", "unlink"}
  BY <1>1 DEF RunInv, LockInv, ConnHolds, XferHolds
<1>4. Away = waiting \cup served \cup {s} /\ Away' = waiting \cup served /\ s \notin Away'
  BY <1>1 DEF Away, RunInv, OwnInv
<1>5. /\ \A k \in DOMAIN queue : queue[k] # s /\ queue[k] \notin Away'
      /\ \A i \in Windows : req_skt[i] # s /\ req_skt[i] \notin Away'
  BY <1>4 DEF RunInv, OwnInv
<1>6. ASSUME NEW i \in Windows, FirstIdle(i), Assign(i, s), queue' = queue
      PROVE  RunInv' /\ BusyInv'
  <2>1. /\ completed[i] /\ req_skt'[i] = s /\ completed'[i] = FALSE
        /\ \A j \in Windows \ {i} : req_skt'[j] = req_skt[j] /\ completed'[j] = completed[j]
    BY <1>6 DEF FirstIdle, Idle, Assign, IndInv, TypeOK
  <2>2. req_skt[i] = NULL /\ xpc[i] \notin {"start", "decide", "lock", "pop", "unlink", "gone"}
    BY <2>1 DEF RunInv, WinInv
  <2>3. WinInv'
    BY <1>1, <1>3, <1>6, <2>1, <2>2 DEF RunInv, WinInv
  <2>4. OwnInv'
    <3>1. ASSUME NEW x \in Requests PROVE Placed(x)'
      <4>1. x # NULL
        BY FxServerConstants
      <4>2. CASE x = s
        BY <2>1, <4>2 DEF Placed
      <4>3. CASE \E j \in Windows : req_skt[j] = x
        BY <2>1, <2>2, <4>1, <4>3 DEF Placed
      <4> QED
        BY Zenon, <1>1, <1>6, <4>2, <4>3 DEF Placed, RunInv, OwnInv
    <3>2. waiting' \cap served' = {} /\ new_socket' \notin waiting' \cup served'
      BY <1>1, FxServerConstants DEF RunInv, OwnInv, IndInv, TypeOK
    <3>3. \A k \in DOMAIN queue' : queue'[k] \notin Away'
      BY <1>5, <1>6
    <3>4. \A j \in Windows : req_skt'[j] \notin Away'
      BY <1>4, <1>5, <2>1
    <3>5. \A k \in DOMAIN queue', j \in Windows : queue'[k] # req_skt'[j]
      BY SMTT(60), <1>5, <1>6, <2>1 DEF RunInv, OwnInv
    <3>6. \A k, l \in DOMAIN queue' : queue'[k] = queue'[l] => k = l
      BY <1>6 DEF RunInv, OwnInv
    <3>7. \A j, l \in Windows : req_skt'[j] = req_skt'[l] /\ req_skt'[j] # NULL => j = l
      BY <1>5, <2>1 DEF RunInv, OwnInv
    <3> QED
      BY <3>1, <3>2, <3>3, <3>4, <3>5, <3>6, <3>7 DEF OwnInv
  <2>5. BusyInv'
    BY <1>1, <1>6, <2>1 DEF IndInv, BusyInv, Undisturbed
  <2> QED
    BY <1>2, <2>3, <2>4, <2>5 DEF RunInv
<1>7. ASSUME pause \/ \A i \in Windows : ~FirstIdle(i), AddConnReq(s), UNCHANGED bufVars
      PROVE  RunInv' /\ BusyInv'
  <2> DEFINE n == Len(queue)
  <2>1. /\ n \in Nat /\ DOMAIN queue = 1..n /\ DOMAIN queue' = 1..(n + 1)
        /\ queue'[n + 1] = s /\ \A k \in 1..n : queue'[k] = queue[k]
    <3>1. queue \in Seq(Requests) /\ queue' = Append(queue, s)
      BY <1>7 DEF AddConnReq, IndInv, TypeOK
    <3> QED
      BY <3>1
  <2> HIDE DEF n
  <2>2. \A k \in 1..(n + 1) : k \in 1..n \/ k = n + 1
    BY <2>1
  <2>3. WinInv'
    BY <1>1, <1>3, <1>7 DEF RunInv, WinInv
  <2>4. OwnInv'
    <3>1. ASSUME NEW x \in Requests PROVE Placed(x)'
      <4>1. CASE x = s
        BY <2>1, <4>1 DEF Placed
      <4>2. CASE \E k \in 1..n : queue[k] = x
        BY <2>1, <4>2 DEF Placed
      <4> QED
        BY <1>1, <1>7, <2>1, <4>1, <4>2 DEF Placed, RunInv, OwnInv
    <3>2. waiting' \cap served' = {} /\ new_socket' \notin waiting' \cup served'
      BY Zenon, <1>1, FxServerConstants DEF RunInv, OwnInv, IndInv, TypeOK
    <3>3. \A k \in DOMAIN queue' : queue'[k] \notin Away'
      BY <1>4, <1>5, <2>1, <2>2
    <3>4. \A j \in Windows : req_skt'[j] \notin Away'
      BY Zenon, <1>5, <1>7
    <3>5. \A k \in DOMAIN queue', j \in Windows : queue'[k] # req_skt'[j]
      BY <1>5, <1>7, <2>1, <2>2 DEF RunInv, OwnInv
    <3>6. \A k, l \in DOMAIN queue' : queue'[k] = queue'[l] => k = l
      BY <1>5, <2>1, <2>2 DEF RunInv, OwnInv
    <3>7. \A j, l \in Windows : req_skt'[j] = req_skt'[l] /\ req_skt'[j] # NULL => j = l
      BY <1>7 DEF RunInv, OwnInv
    <3> QED
      BY <3>1, <3>2, <3>3, <3>4, <3>5, <3>6, <3>7 DEF OwnInv
  <2>5. BusyInv'
    <3>1. ~pause => \A i \in Windows : ~completed[i]
      <4> SUFFICES ASSUME ~pause, \E i \in Windows : completed[i] PROVE FALSE
        OBVIOUS
      <4>1. Idle # {} /\ Idle \subseteq Windows
        BY DEF Idle, RunInv, WinInv
      <4>2. PICK i \in Idle : \A j \in Idle : i <= j
        BY <4>1, LeastWindow
      <4> QED
        BY <1>7, <4>1, <4>2 DEF FirstIdle
    <3> QED
      BY Zenon, <1>1, <1>7, <3>1 DEF IndInv, BusyInv, Undisturbed
  <2> QED
    BY <1>2, <2>3, <2>4, <2>5 DEF RunInv
<1> QED
  BY <1>6, <1>7 DEF ConnScan
-----------------------------------------------------------------------------
(* The windows' ranks among the idle ones: batch_start_connections gives the *)
(* k-th idle window the k-th queued request.                                 *)
Takers == {i \in Windows : Taker(i)}
INSTANCE FiniteSetTheorems

LEMMA WindowsFinite ==
  ASSUME NEW S \in SUBSET Windows
  PROVE  IsFiniteSet(S) /\ Cardinality(S) \in Nat
<1>1. IsFiniteSet(Windows)
  BY FxServerConstants, FS_Interval DEF Windows
<1> QED
  BY <1>1, FS_Subset, FS_CardinalityType

LEMMA RankType ==
  ASSUME NEW i \in Idle
  PROVE  Rank(i) \in Nat /\ Rank(i) >= 1
<1> DEFINE S == {j \in Idle : j <= i}
<1>1. S \in SUBSET Windows /\ i \in S
  BY DEF Idle, Windows
<1>2. IsFiniteSet(S) /\ Cardinality(S) \in Nat
  BY <1>1, WindowsFinite
<1>3. Cardinality(S) # 0
  BY <1>1, <1>2, FS_EmptySet
<1> QED
  BY <1>2, <1>3 DEF Rank

LEMMA RankGrows ==
  ASSUME NEW i \in Idle, NEW j \in Idle, j < i
  PROVE  Rank(j) < Rank(i)
<1> DEFINE S == {x \in Idle : x <= i}
           T == {x \in Idle : x <= j}
<1>1. i \in Windows /\ j \in Windows /\ S \in SUBSET Windows /\ T \in SUBSET Windows
  BY DEF Idle
<1>2. T \in SUBSET S /\ i \in S /\ i \notin T
  BY <1>1 DEF Windows
<1>3. IsFiniteSet(S) /\ Cardinality(S) \in Nat /\ Cardinality(T) \in Nat
  BY <1>1, WindowsFinite
<1>4. Cardinality(T) <= Cardinality(S) /\ (Cardinality(S) = Cardinality(T) => S = T)
  BY <1>2, <1>3, FS_Subset
<1> QED
  BY <1>2, <1>3, <1>4 DEF Rank

(* The takers' ranks are 1, 2, ... up to their number. *)
LEMMA TakersRank ==
  ASSUME queue \in Seq(Requests)
  PROVE  LET n == Cardinality(Takers) IN
         /\ n \in Nat /\ n <= Len(queue)
         /\ \A i \in Takers : Rank(i) \in 1..n
         /\ \A i, j \in Takers : Rank(i) = Rank(j) => i = j
         /\ \A k \in 1..n : \E i \in Takers : Rank(i) = k
<1> DEFINE n == Cardinality(Takers)
<1>1. Takers \in SUBSET Windows /\ Takers \in SUBSET Idle
  BY DEF Takers, Taker
<1>2. IsFiniteSet(Takers) /\ n \in Nat /\ Len(queue) \in Nat
  BY <1>1, WindowsFinite
<1>3. \A i \in Takers : i \in Idle /\ Rank(i) \in Nat /\ Rank(i) >= 1 /\ Rank(i) <= Len(queue)
  BY <1>1, RankType DEF Takers, Taker
<1>4. ASSUME NEW i \in Takers PROVE Rank(i) <= n
  <2> DEFINE S == {j \in Idle : j <= i}
  <2>1. ASSUME NEW j \in S PROVE j \in Takers
    <3>1. j \in Idle /\ j \in Windows /\ i \in Windows /\ i \in Idle /\ (j < i \/ j = i)
      BY <1>1 DEF Idle, Windows
    <3>2. j < i => Rank(j) < Rank(i)
      BY <3>1, RankGrows
    <3>3. Rank(j) \in Nat
      BY <3>1, RankType
    <3> QED
      BY <1>2, <1>3, <3>1, <3>2, <3>3 DEF Takers, Taker
  <2>2. Cardinality(S) <= n
    BY <1>2, <2>1, FS_Subset
  <2> QED
    BY <2>2 DEF Rank
<1>5. \A i \in Takers : Rank(i) \in 1..n
  BY <1>2, <1>3, <1>4
<1>6. ASSUME NEW i \in Takers, NEW j \in Takers, Rank(i) = Rank(j) PROVE i = j
  <2>1. i \in Idle /\ j \in Idle /\ i \in Nat /\ j \in Nat
    BY <1>1 DEF Windows
  <2>2. Rank(i) \in Nat /\ Rank(j) \in Nat
    BY <1>3
  <2>3. ~(i < j) /\ ~(j < i)
    BY <1>6, <2>1, <2>2, RankGrows
  <2> QED
    BY <2>1, <2>3
<1> DEFINE f == [i \in Takers |-> Rank(i)]
<1>7. f \in Injection(Takers, 1..n)
  BY <1>5, <1>6 DEF Injection, IsInjective
<1>8. IsFiniteSet(1..n) /\ Cardinality(1..n) = n
  <2> HIDE DEF n
  <2>1. IsFiniteSet(1..n) /\ Cardinality(1..n) = IF 1 > n THEN 0 ELSE n - 1 + 1
    BY <1>2, FS_Interval
  <2> QED
    BY <1>2, <2>1
<1>9. f \in Surjection(Takers, 1..n)
  BY <1>7, <1>8, FS_Injection
<1>10. \A k \in 1..n : \E i \in Takers : Rank(i) = k
  BY Zenon, <1>9 DEF Surjection
<1>11. n <= Len(queue)
  <2>1. CASE n = 0
    BY <1>2, <2>1
  <2>2. CASE n # 0
    <3>1. PICK i \in Takers : Rank(i) = n
      BY <1>2, <1>10, <2>2
    <3> QED
      BY <1>3, <3>1
  <2> QED
    BY <2>1, <2>2
<1> QED
  BY <1>2, <1>5, <1>6, <1>10, <1>11

(* batch_start_connections. *)
LEMMA Batch ==
  ASSUME TypeOK, BatchStartConnections
  PROVE  \E n \in 0..Len(queue) : Handed(n)
<1> DEFINE n == Cardinality(Takers)
<1>1. /\ n \in Nat /\ n <= Len(queue) /\ Len(queue) \in Nat
      /\ \A i \in Takers : Rank(i) \in 1..n
      /\ \A i, j \in Takers : Rank(i) = Rank(j) => i = j
      /\ \A k \in 1..n : \E i \in Takers : Rank(i) = k
  BY TakersRank DEF TypeOK
<1>2. queue' = SubSeq(queue, n + 1, Len(queue))
  BY DEF BatchStartConnections, Takers
<1>3. /\ req_skt' = [i \in Windows |-> IF i \in Takers THEN queue[Rank(i)] ELSE req_skt[i]]
      /\ completed' = [i \in Windows |-> completed[i] /\ i \notin Takers]
      /\ req_avail' = [i \in Windows |-> IF i \in Takers THEN req_avail[i] + 1 ELSE req_avail[i]]
  BY DEF BatchStartConnections, Takers
<1>4. \A i \in Takers : i \in Windows /\ xpc[i] # "gone" /\ completed[i]
  BY DEF Takers, Taker, Idle
<1> HIDE DEF n
<1>5. n \in 0..Len(queue)
  BY <1>1
<1>6. /\ queue' \in Seq(Requests) /\ Len(queue') = Len(queue) - n
      /\ \A k \in 1..(Len(queue) - n) : queue'[k] = queue[k + n]
  <2>1. queue \in Seq(Requests)
    BY DEF TypeOK
  <2>2. n + 1 \in 1..(Len(queue) + 1)
    BY <1>1
  <2>3. queue' \in Seq(Requests)
    BY <1>1, <1>2, <2>1, <2>2
  <2>4. Len(queue') = Len(queue) - n
    BY <1>1, <1>2, <2>1, <2>2
  <2>5. ASSUME NEW k \in 1..(Len(queue) - n) PROVE queue'[k] = queue[k + n]
    <3>1. k \in 1..(Len(queue) - (n + 1) + 1) /\ (n + 1) + k - 1 = k + n
      BY <1>1
    <3> QED
      BY <1>1, <1>2, <2>1, <2>2, <3>1
  <2> QED
    BY <2>3, <2>4, <2>5
<1>7. \A k \in 1..n : queue[k] \in Requests
  BY <1>1 DEF TypeOK
<1>8. /\ req_skt' \in [Windows -> Requests \cup {NULL}]
      /\ completed' \in [Windows -> BOOLEAN] /\ req_avail' \in [Windows -> Nat]
  <2>1. /\ req_skt \in [Windows -> Requests \cup {NULL}]
        /\ req_avail \in [Windows -> Nat]
    BY Zenon DEF TypeOK
  <2>2. req_skt' \in [Windows -> Requests \cup {NULL}]
    BY <1>1, <1>3, <1>7, <2>1
  <2>3. completed' \in [Windows -> BOOLEAN]
    BY <1>3
  <2>4. req_avail' \in [Windows -> Nat]
    BY <1>3, <2>1
  <2> QED
    BY <2>2, <2>3, <2>4
<1>9. ASSUME NEW i \in Windows
      PROVE  \/ req_skt'[i] = req_skt[i] /\ completed'[i] = completed[i]
             \/ completed[i] /\ ~completed'[i] /\ \E k \in 1..n : req_skt'[i] = queue[k]
  <2>1. CASE i \in Takers
    BY Zenon, <1>1, <1>3, <1>4, <2>1
  <2>2. CASE i \notin Takers
    <3>1. completed[i] \in BOOLEAN
      BY DEF TypeOK
    <3>2. completed'[i] = (completed[i] /\ i \notin Takers)
      BY <1>3
    <3> QED
      BY <1>3, <2>2, <3>1, <3>2
  <2> QED
    BY <2>1, <2>2
<1>10. \A k \in 1..n : \E i \in Windows : completed[i] /\ req_skt'[i] = queue[k]
  BY <1>1, <1>3, <1>4
<1>11. ASSUME NEW i \in Windows, NEW j \in Windows, i # j,
              completed[i], ~completed'[i], completed[j], ~completed'[j]
       PROVE  \E l, m \in 1..n : l # m /\ req_skt'[i] = queue[l] /\ req_skt'[j] = queue[m]
  <2>1. i \in Takers /\ j \in Takers
    BY Zenon, <1>3, <1>11
  <2>2. Rank(i) \in 1..n /\ Rank(j) \in 1..n /\ Rank(i) # Rank(j)
    BY <1>1, <1>11, <2>1
  <2>3. req_skt'[i] = queue[Rank(i)] /\ req_skt'[j] = queue[Rank(j)]
    BY <1>3, <2>1
  <2> QED
    BY <2>2, <2>3
<1>12. Handed(n)
  BY <1>6, <1>8, <1>9, <1>10, <1>11 DEF Handed
<1> QED
  BY <1>5, <1>12
-----------------------------------------------------------------------------
(* The types, and what conn_loop has in hand. *)
LEMMA ConnTypes ==
  ASSUME TypeOK, HandInv, ConnLoop
  PROVE  TypeOK' /\ HandInv'
<1> USE DEF ConnAt, stopVars, dieVars, connVars, cmdVars, bufVars, askVars, doneVars
<1>1. CASE ConnTop
  BY <1>1 DEF ConnTop, TypeOK, HandInv, ConnSteps
<1>2. CASE AcceptFails
  BY <1>2 DEF AcceptFails, TypeOK, HandInv, ConnSteps
<1>3. CASE ConnLock
  BY <1>3 DEF ConnLock, TypeOK, HandInv, ConnSteps
<1>4. CASE ConnScan
  <2>1. new_socket \in Requests
    BY <1>4 DEF ConnScan, HandInv
  <2>2. \/ queue' = queue /\ \E i \in Windows : Assign(i, new_socket)
        \/ queue' = Append(queue, new_socket) /\ UNCHANGED bufVars
    BY <1>4 DEF ConnScan, AddConnReq
  <2>3. queue' \in Seq(Requests)
    <3>1. queue \in Seq(Requests)
      BY DEF TypeOK
    <3>2. Append(queue, new_socket) \in Seq(Requests)
      BY <2>1, <3>1
    <3> QED
      BY <2>2, <3>1, <3>2
  <2>4. /\ req_skt' \in [Windows -> Requests \cup {NULL}]
        /\ completed' \in [Windows -> BOOLEAN] /\ req_avail' \in [Windows -> Nat]
    <3>1. ASSUME NEW i \in Windows, Assign(i, new_socket)
          PROVE  /\ req_skt' \in [Windows -> Requests \cup {NULL}]
                 /\ completed' \in [Windows -> BOOLEAN] /\ req_avail' \in [Windows -> Nat]
      BY <2>1, <3>1 DEF Assign, TypeOK
    <3>2. CASE UNCHANGED bufVars
      BY <3>2 DEF TypeOK
    <3> QED
      BY <2>2, <3>1, <3>2
  <2> QED
    BY <1>4, <2>3, <2>4 DEF ConnScan, TypeOK, HandInv, ConnSteps
<1>5. CASE ConnCheck
  <2>1. /\ queue' \in Seq(Requests) /\ pause' \in BOOLEAN
        /\ req_skt' \in [Windows -> Requests \cup {NULL}]
        /\ completed' \in [Windows -> BOOLEAN] /\ req_avail' \in [Windows -> Nat]
    <3>1. CASE BatchStartConnections
      BY Zenon, <3>1, Batch DEF Handed, BatchStartConnections
    <3>2. CASE UNCHANGED <<pause, queue, bufVars>>
      BY <3>2 DEF TypeOK
    <3> QED
      BY <1>5, <3>1, <3>2 DEF ConnCheck
  <2> QED
    BY <1>5, <2>1 DEF ConnCheck, TypeOK, HandInv, ConnSteps
<1>6. CASE ConnDrain
  BY <1>6 DEF ConnDrain, TypeOK, HandInv, ConnSteps
<1>7. CASE ConnUnlink
  <2>1. queue' \in Seq(Requests) /\ exited' \in BOOLEAN
    BY <1>7 DEF ConnUnlink, Unlink, TypeOK
  <2> QED
    BY <1>7, <2>1 DEF ConnUnlink, TypeOK, HandInv, ConnSteps
<1>8. ASSUME NEW r \in Requests, Accept(r) PROVE TypeOK' /\ HandInv'
  <2>1. early' \in BOOLEAN
    BY <1>8 DEF Accept, TypeOK
  <2> QED
    BY <1>8, <2>1 DEF Accept, TypeOK, HandInv, ConnSteps
<1> QED
  BY <1>1, <1>2, <1>3, <1>4, <1>5, <1>6, <1>7, <1>8 DEF ConnLoop

LEMMA CmdTypes ==
  ASSUME TypeOK, HandInv, PauseCmd
  PROVE  TypeOK' /\ HandInv'
<1> USE DEF CmdAt, stopVars, dieVars, connVars, cmdVars, bufVars, askVars, doneVars
<1>1. ASSUME NEW p \in BOOLEAN, NEW n \in NumReqs, PauseSet(p, n) PROVE TypeOK' /\ HandInv'
  BY <1>1, FxServerConstants DEF PauseSet, TypeOK, HandInv, CmdSteps
<1>2. CASE PauseMax \/ PauseTest \/ PauseLock
  BY <1>2 DEF PauseMax, PauseTest, PauseLock, TypeOK, HandInv, CmdSteps
<1>3. CASE PauseBatch
  <2>1. /\ queue' \in Seq(Requests) /\ pause' \in BOOLEAN
        /\ req_skt' \in [Windows -> Requests \cup {NULL}]
        /\ completed' \in [Windows -> BOOLEAN] /\ req_avail' \in [Windows -> Nat]
    BY Zenon, <1>3, Batch DEF PauseBatch, Handed, BatchStartConnections
  <2> QED
    BY <1>3, <2>1 DEF PauseBatch, TypeOK, HandInv, CmdSteps
<1> QED
  BY <1>1, <1>2, <1>3 DEF PauseCmd
-----------------------------------------------------------------------------
LEMMA ConnCheckRun ==
  ASSUME IndInv, RunInv, Running, ~exited, Running', ConnCheck
  PROVE  RunInv' /\ BusyInv'
<1> USE DEF ConnAt, stopVars, dieVars, cmdVars, bufVars, askVars, doneVars
<1>1. /\ cpc = "check" /\ cpc' = "top" /\ mutex' = mutex + 1
      /\ UNCHANGED <<xpc, skt, kpc, waiting, served, new_socket, cmds, early, exited>>
  BY DEF ConnCheck
<1>2. LockInv' /\ \A i \in Windows : xpc[i] \notin {"pop", "unlink"}
  BY <1>1 DEF RunInv, LockInv, ConnHolds, CmdHolds, XferHolds
<1>3. CASE pause /\ BatchStartConnections
  <2>1. PICK n \in 0..Len(queue) : Handed(n)
    BY <1>3, Batch DEF IndInv
  <2>2. OwnInv' /\ WinInv'
    BY <1>1, <1>2, <2>1, BatchRun DEF RunInv
  <2>3. BusyInv'
    BY <1>1, <1>3 DEF IndInv, BusyInv, Undisturbed
  <2> QED
    BY <1>2, <2>2, <2>3 DEF RunInv
<1>4. CASE UNCHANGED <<pause, queue, bufVars>>
  <2>1. OwnInv' /\ WinInv'
    BY <1>1, <1>4, SameOwners, SameWindows DEF RunInv
  <2>2. BusyInv'
    BY <1>1, <1>4, SameBusy DEF IndInv
  <2> QED
    BY <1>2, <2>1, <2>2 DEF RunInv
<1> QED
  BY <1>3, <1>4 DEF ConnCheck

(* The pause command. *)
LEMMA PauseRun ==
  ASSUME IndInv, RunInv, Running, ~exited, Running', PauseCmd
  PROVE  RunInv' /\ BusyInv'
<1> USE DEF CmdAt, stopVars, dieVars, connVars, cmdVars, bufVars, askVars, doneVars
<1>1. CASE PauseMax \/ PauseTest \/ \E p \in BOOLEAN, n \in NumReqs : PauseSet(p, n)
  <2>1. /\ kpc # "batch" /\ kpc' # "batch" /\ cmds' # 0
        /\ UNCHANGED <<mutex, xpc, skt, cpc, waiting, served, new_socket, queue, req_skt,
                       completed, exited>>
    BY SMTT(60), <1>1 DEF PauseMax, PauseTest, PauseSet, IndInv, BusyInv, TypeOK
  <2>2. LockInv'
    BY <2>1, SameLocks DEF RunInv, ConnHolds, CmdHolds
  <2>3. OwnInv' /\ WinInv'
    BY <2>1, SameOwners, SameWindows DEF RunInv
  <2>4. BusyInv'
    BY <2>1 DEF BusyInv, Undisturbed
  <2> QED
    BY <2>2, <2>3, <2>4 DEF RunInv
<1>2. CASE PauseLock
  <2>1. /\ kpc = "lock" /\ kpc' = "batch" /\ cmds' # 0 /\ mutex > 0 /\ mutex' = mutex - 1
        /\ UNCHANGED <<xpc, skt, cpc, waiting, served, new_socket, queue, req_skt,
                       completed, exited>>
    BY <1>2 DEF PauseLock, IndInv, BusyInv
  <2>2. LockInv'
    BY <2>1 DEF RunInv, LockInv, ConnHolds, CmdHolds, XferHolds
  <2>3. OwnInv' /\ WinInv'
    BY <2>1, SameOwners, SameWindows DEF RunInv
  <2>4. BusyInv'
    BY <2>1 DEF BusyInv, Undisturbed
  <2> QED
    BY <2>2, <2>3, <2>4 DEF RunInv
<1>3. CASE PauseBatch
  <2>1. /\ kpc = "batch" /\ kpc' = "idle" /\ cmds' # 0 /\ mutex' = mutex + 1
        /\ UNCHANGED <<xpc, skt, cpc, waiting, served, new_socket, exited>>
    BY <1>3 DEF PauseBatch, IndInv, BusyInv
  <2>2. LockInv' /\ \A i \in Windows : xpc[i] \notin {"pop", "unlink"}
    BY <2>1 DEF RunInv, LockInv, ConnHolds, CmdHolds, XferHolds
  <2>3. PICK n \in 0..Len(queue) : Handed(n)
    BY <1>3, Batch DEF IndInv, PauseBatch
  <2>4. OwnInv' /\ WinInv'
    BY <2>1, <2>2, <2>3, BatchRun DEF RunInv
  <2>5. BusyInv'
    BY <2>1 DEF BusyInv, Undisturbed
  <2> QED
    BY <2>2, <2>4, <2>5 DEF RunInv
<1> QED
  BY <1>1, <1>2, <1>3 DEF PauseCmd
-----------------------------------------------------------------------------
LEMMA NextInd == IndInv /\ [Next]_vars => IndInv'
<1> SUFFICES ASSUME IndInv, [Next]_vars PROVE IndInv'
  OBVIOUS
<1>1. CASE Next
  <2>1. TypeOK' /\ HandInv'
    BY <1>1, ConnTypes, XferTypes, CmdTypes, StopTypes DEF IndInv, Next
  <2>2. CASE ~Running'
    BY <1>1, <2>1, <2>2, CmdsBusy DEF IndInv, BusyInv, Undisturbed
  <2>3. CASE Running'
    <3>1. Running /\ ~exited /\ RunInv
      BY <1>1, <2>3, RunBack DEF IndInv
    <3>2. CASE ConnLoop
      <4>1. ~(AcceptFails \/ ConnDrain \/ ConnUnlink)
        BY <2>3, <3>1 DEF AcceptFails, ConnDrain, ConnUnlink, ConnAt, Running
      <4> QED
        BY <2>1, <2>3, <3>1, <3>2, <4>1, ConnTopRun, AcceptRun, ConnLockRun, ConnScanRun,
           ConnCheckRun DEF ConnLoop, IndInv
    <3>3. CASE PauseCmd
      BY <2>1, <2>3, <3>1, <3>3, PauseRun DEF IndInv
    <3>4. ~(Shutdown \/ ShutdownPost \/ ConnHup)
      BY <2>3, <3>1 DEF Shutdown, ShutdownPost, ConnHup, Running, IndInv, HandInv
    <3>5. ASSUME NEW i \in Windows, XferLoop(i) PROVE IndInv'
      BY <2>1, <2>3, <3>1, <3>5, XferStartRun, XferMoveRun, XferDoneRun, XferLockRun, XferPopRun,
         XferUnlinkRun DEF XferLoop, IndInv
    <3> QED
      BY <1>1, <3>2, <3>3, <3>4, <3>5 DEF Next
  <2> QED
    BY <2>2, <2>3
<1>2. CASE UNCHANGED vars
  <2> USE DEF stopVars, dieVars, connVars, cmdVars, bufVars, askVars, doneVars
  <2>1. TypeOK' /\ HandInv' /\ BusyInv'
    BY <1>2 DEF vars, IndInv, TypeOK, HandInv, BusyInv, Undisturbed, Running
  <2>2. Running' => RunInv'
    <3>1. LockInv => LockInv'
      BY <1>2 DEF vars, LockInv, ConnHolds, CmdHolds, XferHolds
    <3>2. (OwnInv => OwnInv') /\ (WinInv => WinInv')
      BY <1>2, SameOwners, SameWindows DEF vars
    <3> QED
      BY <1>2, <3>1, <3>2 DEF vars, IndInv, Running, RunInv
  <2> QED
    BY Zenon, <2>1, <2>2 DEF IndInv
<1> QED
  BY <1>1, <1>2

(* The globals, the windows and the threads of the server stay of their      *)
(* types, also while it goes down.                                           *)
THEOREM ServerTypes == Spec => []TypeOK
<1>1. IndInv => TypeOK
  BY DEF IndInv
<1> QED
  BY <1>1, InitInd, NextInd, PTL DEF Spec

(* While the server runs every connection is in exactly one place: not yet   *)
(* accepted, in conn_loop's hand, in the queue, at one window, or served,    *)
(* although req_skt and completed are written with and without               *)
(* conn_reqs_mutex.                                                          *)
THEOREM ConnectionsOwned == Spec => []OneOwner
  BY OwnersApart, InitInd, NextInd, PTL DEF Spec

(* Without a pause command, and once all windows are ready, no request waits *)
(* in the queue beside an idle window.                                       *)
THEOREM NoIdleBesideQueue == Spec => []QueuedOnlyIfBusy
<1>1. IndInv => QueuedOnlyIfBusy
  BY DEF IndInv, BusyInv, QueuedOnlyIfBusy, Idle
<1> QED
  BY <1>1, InitInd, NextInd, PTL DEF Spec
=============================================================================
