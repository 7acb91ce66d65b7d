------------------------------- MODULE Worker -------------------------------
(***************************************************************************)
(* A worker of goodput (utils/goodput/src/worker.c): a thread that runs    *)
(* one measurement at a time, and the command thread (goodput_cli.c) that  *)
(* starts, commands, halts, moves and kills it.  The two share             *)
(* struct worker without a lock; they meet in stat, stop_req and the       *)
(* semaphores started and run.                                             *)
(*                                                                         *)
(* w is struct worker: stat, stop (stop_req), act (action), the parameters *)
(* of the action (wr, kbuf for use_kbuf, sz, obsz and ibsz for sizes that  *)
(* are not 0) and what the worker owns: the outbound window ob, the        *)
(* inbound window ib, the DMA buffer rp (rdma_ptr), the mailbox mb, the    *)
(* sockets acc and con, the master port handle mine.                       *)
(* w.held is what the kernel holds for the worker and was asked to keep:   *)
(* windows, mailbox, listening socket and master port handle.              *)
(***************************************************************************)
EXTENDS Integers, FiniteSets

CONSTANTS Threads,                      \* identities of threads
          Menus,                        \* the actions a user chooses from, one set for a session
          MaxRun                        \* bound on the semaphore run

VARIABLES w, run, started,              \* the struct, its two semaphores
          th,                           \* the threads: program counter, function, own handle
          cli,                          \* the command thread: program counter, command
          thr,                          \* wkr_thr.thr, the thread a kill joins
          menu                          \* the actions of this session

vars == <<w, run, started, th, cli, thr, menu>>

NoThread == [pc |-> "none", fn |-> "no_action", own |-> FALSE]
Idle == [pc |-> "idle"]
InLoop == {"direct_io", "direct_io_tx_lat", "direct_io_rx_lat", "dma_tx", "dma_tx_lat", "dma_tx_num",
           "dma_rx_lat", "dma_rx_gp", "message_tx", "message_rx", "reg_scrub"}
Actions == InLoop \cup {"no_action", "message_tx_oh", "alloc_ibwin", "free_ibwin", "shutdown_worker"}

(* What a command may ask a worker to do. *)
Commanded == Actions \ {"no_action", "shutdown_worker"}

ASSUME WorkerConstants ==
  Threads # {} /\ Menus \subseteq SUBSET Commanded /\ MaxRun \in Nat

(* init_worker_info: everything is forgotten, the semaphores are kept. *)
InitWorkerInfo(s) ==
  [stat |-> 0, stop |-> 0, act |-> "no_action", wr |-> FALSE, kbuf |-> FALSE, sz |-> FALSE,
   obsz |-> FALSE, ibsz |-> FALSE, ob |-> FALSE, ib |-> "none", rp |-> "null",
   mb |-> FALSE, acc |-> FALSE, con |-> 0, mine |-> FALSE, held |-> s.held]

-----------------------------------------------------------------------------
(* What the functions of the worker do to the struct.  A function with     *)
(* several outcomes is the set of them.                                    *)

(* direct_io_obwin_map, direct_io_obwin_unmap *)
ObwinMap(s) == [s EXCEPT !.ob = TRUE, !.held = @ \cup {"ob"}]
ObwinUnmap(s) == [s EXCEPT !.ob = FALSE, !.obsz = FALSE, !.held = IF s.ob THEN @ \ {"ob"} ELSE @]

(* alloc_dma_tx_buffer: a kernel buffer is not allocated, or not mapped; *)
(* there is no memory; or the call succeeds.  dealloc_dma_tx_buffer.     *)
AllocDmaFails(s) == {[s EXCEPT !.rp = "null"]} \cup (IF s.kbuf THEN {s} ELSE {})
AllocDma(s) == [s EXCEPT !.rp = IF s.kbuf THEN "map" ELSE "heap"]
DeallocDma(s) == [s EXCEPT !.rp = "null"]

(* msg_cleanup_con_skt, which forgets a socket that is not connected;       *)
(* msg_cleanup_acc_skt, msg_cleanup_mb.  A mutant keeps the mailbox without *)
(* a listening socket.                                                      *)
CleanupConSkt(s) == [s EXCEPT !.con = 0]
CleanupAccSkt(s) == [s EXCEPT !.acc = FALSE, !.held = IF s.acc THEN @ \ {"acc"} ELSE @]
CleanupMbAcc(s) == [s EXCEPT !.mb = FALSE, !.held = IF s.acc THEN @ \ {"mb"} ELSE @]
CleanupMb(s) == [s EXCEPT !.mb = FALSE, !.held = IF s.mb THEN @ \ {"mb"} ELSE @]
MsgCleanup(s) == CleanupMb(CleanupAccSkt(CleanupConSkt(s)))

(* dma_free_ibwin: the memory is unmapped; if the kernel then refuses to *)
(* free the window it stays valid, without a pointer.                    *)
FreeIbwin(s) ==
  IF s.ib = "none" THEN {s}
  ELSE {[s EXCEPT !.ib = "none", !.ibsz = FALSE, !.held = @ \ {"ib"}],
        [s EXCEPT !.ib = "unmapped", !.held = @ \ {"ib"}]}

(* dma_alloc_ibwin: nothing is kept when a call fails. *)
AllocIbwin(s) ==
  IF ~s.ibsz \/ s.ib # "none" THEN {s} ELSE {s, [s EXCEPT !.ib = "mapped", !.held = @ \cup {"ib"}]}

(* shutdown_worker_thread, after the join *)
Release(s) ==
  {InitWorkerInfo([MsgCleanup(DeallocDma(ObwinUnmap(f)))
                     EXCEPT !.held = IF f.mine THEN @ \ {"mp"} ELSE @]) : f \in FreeIbwin(s)}

(* How a function starts: it returns at once, <<s, FALSE>>, or is in its *)
(* loop, <<s, TRUE>>.                                                    *)
Returns(S) == S \X {FALSE}

(* direct_io_goodput, direct_io_tx_latency, direct_io_rx_latency *)
DirectIo(s) ==
  LET noWindow == s.ib = "none" /\ (s.act = "direct_io_rx_lat" \/ (s.act = "direct_io_tx_lat" /\ s.wr))
  IN  IF ~s.sz \/ ~s.obsz \/ noWindow THEN Returns({s})
      ELSE Returns({ObwinUnmap(s)}) \cup {<<ObwinMap(s), TRUE>>}

(* A DMA buffer for the action, or not. *)
WithBuffer(s) == Returns({DeallocDma(f) : f \in AllocDmaFails(s)}) \cup {<<AllocDma(s), TRUE>>}

(* dma_goodput; dma_tx_num_cmd, which keeps the buffer after a failed *)
(* transfer; dma_rx_latency                                           *)
DmaGoodput(s) ==
  IF ~s.sz \/ (s.act = "dma_tx_lat" /\ s.wr /\ s.ib # "mapped") THEN Returns({s}) ELSE WithBuffer(s)
DmaTxNum(s) == IF ~s.sz THEN Returns({s}) ELSE WithBuffer(s) \cup Returns({AllocDma(s)})
DmaRxLatency(s) == IF ~s.sz \/ s.ib # "mapped" THEN Returns({s}) ELSE WithBuffer(s)

(* dma_rx_goodput *)
DmaRxGoodput(s) == {<<s, s.sz /\ s.ib = "mapped">>}

(* do_reg_scrub *)
DoRegScrub(s) == {<<s, TRUE>>}

InUse(s) == s.mb \/ s.acc \/ s.con # 0
Mailbox(s) == [s EXCEPT !.mb = TRUE, !.held = @ \cup {"mb"}]
AccSocket(s) == [s EXCEPT !.acc = TRUE, !.held = @ \cup {"acc"}]
ConSocket(s) == [s EXCEPT !.con = 1]
Connected(s) == [s EXCEPT !.con = 2]

(* msg_tx_goodput: a failure leaves behind what there is so far. *)
MsgTx(s) ==
  IF InUse(s) THEN Returns({s})
  ELSE Returns({s, Mailbox(s), ConSocket(Mailbox(s))}) \cup {<<Connected(ConSocket(Mailbox(s))), TRUE>>}

(* msg_tx_overhead ends after the first message. *)
MsgTxOverhead(s) ==
  IF InUse(s) THEN Returns({s})
  ELSE Returns({s} \cup IF s.stop # 0 THEN {MsgCleanup(Mailbox(s))}
                        ELSE {Mailbox(s), ConSocket(Mailbox(s)),
                              MsgCleanup(Connected(ConSocket(Mailbox(s))))})

(* msg_rx_goodput, up to its loop *)
MsgRx(s) ==
  IF InUse(s) THEN Returns({s})
  ELSE Returns({s, Mailbox(s), AccSocket(Mailbox(s))}) \cup {<<AccSocket(Mailbox(s)), TRUE>>}

(* worker_thread: the switch *)
Enter(s) ==
  CASE s.act \in {"direct_io", "direct_io_tx_lat", "direct_io_rx_lat"} -> DirectIo(s)
    [] s.act \in {"dma_tx", "dma_tx_lat"} -> DmaGoodput(s)
    [] s.act = "dma_tx_num" -> DmaTxNum(s)
    [] s.act = "dma_rx_lat" -> DmaRxLatency(s)
    [] s.act = "dma_rx_gp" -> DmaRxGoodput(s)
    [] s.act = "message_tx" -> MsgTx(s)
    [] s.act = "message_rx" -> MsgRx(s)
    [] s.act = "message_tx_oh" -> MsgTxOverhead(s)
    [] s.act = "alloc_ibwin" -> Returns(AllocIbwin(s))
    [] s.act = "free_ibwin" -> Returns(FreeIbwin(s))
    [] s.act = "reg_scrub" -> DoRegScrub(s)
    [] OTHER -> Returns({s})

(* What a function does after its loop. *)
Leave(s, fn) ==
  CASE fn \in {"direct_io", "direct_io_tx_lat", "direct_io_rx_lat"} -> ObwinUnmap(s)
    [] fn \in {"dma_tx", "dma_tx_lat", "dma_tx_num", "dma_rx_lat"} -> DeallocDma(s)
    [] fn \in {"message_tx", "message_rx"} -> MsgCleanup(s)
    [] OTHER -> s

-----------------------------------------------------------------------------
(* The thread *)

At(t, pc) == th[t].pc = pc
Goto(t, pc) == th' = [th EXCEPT ![t].pc = pc]

(* worker_thread, to the loop: sem_post(started), then stat = 1 *)
ThreadStarted(t) ==
  /\ At(t, "start")
  /\ started' = started + 1
  /\ Goto(t, "posted")
  /\ UNCHANGED <<w, run, cli, thr, menu>>

ThreadAlive(t) ==
  /\ At(t, "posted")
  /\ w' = [w EXCEPT !.stat = 1]
  /\ Goto(t, "top")
  /\ UNCHANGED <<run, started, cli, thr, menu>>

(* One round of the loop: the action is read and its function called, *)
(* which uses the struct as it is now.                                *)
ThreadSwitch(t) ==
  /\ At(t, "top")
  /\ w.stat # 0 /\ w.act # "shutdown_worker"
  /\ \E e \in Enter(w) :
       /\ w' = e[1]
       /\ th' = [th EXCEPT ![t].pc = IF e[2] THEN "loop" ELSE "park", ![t].fn = w.act]
  /\ UNCHANGED <<run, started, cli, thr, menu>>

ThreadShutdown(t) ==
  /\ At(t, "top")
  /\ w.stat = 0 \/ w.act = "shutdown_worker"
  /\ w' = [w EXCEPT !.stat = 0]
  /\ Goto(t, "exit")
  /\ UNCHANGED <<run, started, cli, thr, menu>>

(* A loop ends when it sees stop_req. *)
ThreadStop(t) ==
  /\ At(t, "loop")
  /\ w.stop # 0
  /\ w' = Leave(w, th[t].fn)
  /\ Goto(t, "park")
  /\ UNCHANGED <<run, started, cli, thr, menu>>

(* One more transfer; nothing that is modelled changes. *)
ThreadTransfer(t) ==
  /\ At(t, "loop")
  /\ w.stop = 0
  /\ UNCHANGED vars

(* A transfer fails; msg_rx_goodput gets no socket or no connection. *)
ThreadError(t) ==
  /\ At(t, "loop")
  /\ \/ /\ th[t].fn \in {"dma_tx", "dma_tx_lat", "dma_rx_lat", "message_tx"}
        /\ w' = Leave(w, th[t].fn)
     \/ /\ th[t].fn = "message_rx" /\ w.con = 0
        /\ w' \in {MsgCleanup(w), MsgCleanup(ConSocket(w))}
  /\ Goto(t, "park")
  /\ UNCHANGED <<run, started, cli, thr, menu>>

(* msg_rx_goodput: a connection is accepted; it ends. *)
ThreadAccept(t) ==
  /\ At(t, "loop") /\ th[t].fn = "message_rx"
  /\ w.con = 0 /\ w.stop = 0
  /\ w' = Connected(ConSocket(w))
  /\ UNCHANGED <<run, started, th, cli, thr, menu>>

ThreadDisconnect(t) ==
  /\ At(t, "loop") /\ th[t].fn = "message_rx"
  /\ w.con = 2
  /\ w' = CleanupConSkt(w)
  /\ UNCHANGED <<run, started, th, cli, thr, menu>>

(* stat = 2, sem_wait(run), stat = 1 *)
ThreadPark(t) ==
  /\ At(t, "park")
  /\ IF w.stat = 0 THEN Goto(t, "exit") /\ UNCHANGED w
     ELSE Goto(t, "sleep") /\ w' = [w EXCEPT !.stat = 2]
  /\ UNCHANGED <<run, started, cli, thr, menu>>

ThreadWake(t) ==
  /\ At(t, "sleep")
  /\ run > 0
  /\ run' = run - 1
  /\ Goto(t, "woken")
  /\ UNCHANGED <<w, started, cli, thr, menu>>

ThreadRun(t) ==
  /\ At(t, "woken")
  /\ w' = [w EXCEPT !.stat = 1]
  /\ Goto(t, "top")
  /\ UNCHANGED <<run, started, cli, thr, menu>>

(* worker_thread, after the loop: shutdown_worker_thread, where stat is 0 *)
ThreadExit(t) ==
  /\ At(t, "exit")
  /\ w' \in Release(w)
  /\ Goto(t, "gone")
  /\ UNCHANGED <<run, started, cli, thr, menu>>

-----------------------------------------------------------------------------
(* The commands.  Each is given when the one before it has returned, and   *)
(* none between a thread's sem_post(started) and its stat = 1: the user    *)
(* waits for a new thread to show up (the command wait).                   *)

Ready ==
  /\ cli = Idle
  /\ \A t \in Threads : ~At(t, "posted")

(* ThreadCmd and start_worker_thread: the handle is not created, or the *)
(* thread is not, or the command waits for started.  Mutants: there is  *)
(* no test of stat; the wait does not take the semaphore.               *)
StartWorker ==
  \E new \in BOOLEAN :
    LET t == CHOOSE x \in Threads : th[x].pc = "none"
        s == InitWorkerInfo(w)
        h == IF new THEN [s EXCEPT !.mine = TRUE, !.held = @ \cup {"mp"}] ELSE s
    IN  \/ w' = s /\ new /\ UNCHANGED <<th, cli, thr>>
        \/ w' = h /\ UNCHANGED <<th, cli, thr>>
        \/ /\ w' = h
           /\ th' = [th EXCEPT ![t] = [NoThread EXCEPT !.pc = "start", !.own = new]]
           /\ thr' = t
           /\ cli' = [pc |-> "started"]
ThreadCmd == Ready /\ w.stat = 0 /\ StartWorker /\ UNCHANGED <<run, started, menu>>

ThreadCmdReturn ==
  /\ cli.pc = "started"
  /\ started > 0
  /\ started' = started - 1
  /\ cli' = Idle
  /\ UNCHANGED <<w, run, th, thr, menu>>

(* KillCmd and shutdown_worker_thread: action, stop_req, run, the join. *)
KillCmd ==
  /\ Ready /\ run < MaxRun
  /\ cli' = [pc |-> IF w.stat = 0 THEN "release" ELSE "kill"]
  /\ UNCHANGED <<w, run, started, th, thr, menu>>

KillAction ==
  /\ cli.pc = "kill"
  /\ w' = [w EXCEPT !.act = "shutdown_worker"]
  /\ cli' = [pc |-> "stop"]
  /\ UNCHANGED <<run, started, th, thr, menu>>

(* A mutant: the loop of the action is not asked to stop. *)
KillStopOmitted ==
  /\ cli.pc = "stop"
  /\ cli' = [pc |-> "run"]
  /\ UNCHANGED <<w, run, started, th, thr, menu>>

KillStop ==
  /\ cli.pc = "stop"
  /\ w' = [w EXCEPT !.stop = 2]
  /\ cli' = [pc |-> "run"]
  /\ UNCHANGED <<run, started, th, thr, menu>>

KillRun ==
  /\ cli.pc = "run"
  /\ run' = run + 1
  /\ cli' = [pc |-> "join"]
  /\ UNCHANGED <<w, started, th, thr, menu>>

(* A mutant: the thread is not waited for. *)
KillJoinLoose ==
  /\ cli.pc = "join"
  /\ cli' = [pc |-> "release"]
  /\ UNCHANGED <<w, run, started, th, thr, menu>>

KillJoin ==
  /\ cli.pc = "join"
  /\ At(thr, "gone")
  /\ th' = [th EXCEPT ![thr] = NoThread]
  /\ cli' = [pc |-> "release"]
  /\ UNCHANGED <<w, run, started, thr, menu>>

KillRelease ==
  /\ cli.pc = "release"
  /\ w' \in Release(w)
  /\ cli' = Idle
  /\ UNCHANGED <<run, started, th, thr, menu>>

HaltCmd ==
  /\ Ready
  /\ w' = [w EXCEPT !.stop = 2]
  /\ UNCHANGED <<run, started, th, cli, thr, menu>>

(* MoveCmd clears stop_req and posts run, whatever the worker does. *)
MoveCmd ==
  /\ Ready /\ run < MaxRun
  /\ w.stat # 0
  /\ w' = [w EXCEPT !.stop = 0]
  /\ cli' = [pc |-> "post"]
  /\ UNCHANGED <<run, started, th, thr, menu>>

(* The commands for a halted worker: the parameters they write.  Some test *)
(* for the inbound window; regscrub can ask for 2^32 bytes, which is 0.    *)
ObdioCmd(act) ==
  CASE act = "direct_io" -> [wr : BOOLEAN, sz : BOOLEAN, obsz : BOOLEAN]
    [] act = "direct_io_tx_lat" -> {p \in [wr : BOOLEAN, sz : {TRUE}, obsz : {TRUE}] : w.ib = "mapped"}
    [] act = "direct_io_rx_lat" -> [wr : {TRUE}, sz : {TRUE}, obsz : {TRUE}]
DmaCmd == [wr : BOOLEAN, kbuf : BOOLEAN, sz : BOOLEAN]
DmaNumCmd == [wr : BOOLEAN, kbuf : BOOLEAN, sz : BOOLEAN]
DmaTxLatCmd == {p \in [wr : BOOLEAN, kbuf : BOOLEAN, sz : BOOLEAN] : p.wr => w.ib = "mapped"}
DmaRxLatCmd == [wr : {TRUE}, kbuf : {TRUE}, sz : {TRUE}]
DmaRxGoodputCmd == [sz : {TRUE}]
MsgTxCmd == {<<>>}
MsgRxCmd == {<<>>}
IBAllocCmd == [ibsz : {TRUE}]
IBDeallocCmd == {<<>>}
RegScrubCmd == [sz : BOOLEAN]
Parameters(act) ==
  CASE act \in {"direct_io", "direct_io_tx_lat", "direct_io_rx_lat"} -> ObdioCmd(act)
    [] act = "dma_tx" -> DmaCmd
    [] act = "dma_tx_num" -> DmaNumCmd
    [] act = "dma_tx_lat" -> DmaTxLatCmd
    [] act = "dma_rx_lat" -> DmaRxLatCmd
    [] act = "dma_rx_gp" -> DmaRxGoodputCmd
    [] act \in {"message_tx", "message_tx_oh"} -> MsgTxCmd
    [] act = "message_rx" -> MsgRxCmd
    [] act = "alloc_ibwin" -> IBAllocCmd
    [] act = "free_ibwin" -> IBDeallocCmd
    [] act = "reg_scrub" -> RegScrubCmd

(* gp_parse_worker_index_check_thread: stat is tested before anything is *)
(* written.                                                              *)
Command ==
  \E act \in menu : \E p \in Parameters(act) :
    /\ Ready /\ run < MaxRun
    /\ w.stat = 2
    /\ cli' = [pc |-> "action", act |-> act, p |-> p]
    /\ UNCHANGED <<w, run, started, th, thr, menu>>

CommandAction ==
  /\ cli.pc = "action"
  /\ w' = [w EXCEPT !.act = cli.act]
  /\ cli' = [cli EXCEPT !.pc = "write"]
  /\ UNCHANGED <<run, started, th, thr, menu>>

(* obdio_cmd ends here if the byte count is no multiple of the access size *)
(* or too large for a window.                                              *)
CommandWrite ==
  /\ cli.pc = "write"
  /\ w' = [f \in DOMAIN w |-> IF f \in DOMAIN cli.p THEN cli.p[f] ELSE w[f]]
  /\ \/ cli' = [pc |-> "clear"]
     \/ cli.act = "direct_io" /\ cli' = Idle
  /\ UNCHANGED <<run, started, th, thr, menu>>

CommandClear ==
  /\ cli.pc = "clear"
  /\ w' = [w EXCEPT !.stop = 0]
  /\ cli' = [pc |-> "post"]
  /\ UNCHANGED <<run, started, th, thr, menu>>

Post ==
  /\ cli.pc = "post"
  /\ run' = run + 1
  /\ cli' = Idle
  /\ UNCHANGED <<w, started, th, thr, menu>>

-----------------------------------------------------------------------------
Init ==
  /\ w = InitWorkerInfo([held |-> {}])
  /\ run = 0 /\ started = 0
  /\ th = [t \in Threads |-> NoThread]
  /\ cli = Idle
  /\ thr = CHOOSE t \in Threads : TRUE
  /\ menu \in Menus

(* The steps the scheduler owes to a thread and to a command. *)
ThreadStep(t) ==
  \/ ThreadStarted(t) \/ ThreadAlive(t) \/ ThreadSwitch(t) \/ ThreadShutdown(t) \/ ThreadStop(t)
  \/ ThreadPark(t) \/ ThreadWake(t) \/ ThreadRun(t) \/ ThreadExit(t)
CommandStep ==
  \/ ThreadCmdReturn
  \/ KillAction \/ KillStop \/ KillRun \/ KillJoin \/ KillRelease
  \/ CommandAction \/ CommandWrite \/ CommandClear \/ Post

Next ==
  \/ \E t \in Threads : ThreadStep(t) \/ ThreadTransfer(t) \/ ThreadError(t) \/ ThreadAccept(t) \/ ThreadDisconnect(t)
  \/ CommandStep
  \/ ThreadCmd \/ KillCmd \/ HaltCmd \/ MoveCmd \/ Command

Spec == Init /\ [][Next]_vars /\ \A t \in Threads : WF_vars(ThreadStep(t)) /\ WF_vars(CommandStep)

-----------------------------------------------------------------------------
Resources == {"ob", "ib", "mb", "acc", "mp"}
Alive == {t \in Threads : th[t].pc \notin {"none", "gone"}}

(* The fields that the two threads write without a lock keep their types. *)
TypeOK ==
  /\ w.stat \in 0..2 /\ w.stop \in {0, 2} /\ w.act \in Actions
  /\ w.ib \in {"none", "mapped", "unmapped"} /\ w.rp \in {"null", "map", "heap"}
  /\ w.con \in 0..2 /\ w.held \subseteq Resources
  /\ run \in 0..(MaxRun + 1) /\ started \in 0..1
  /\ thr \in Threads

(* start_worker_thread: no two threads run on one struct worker, and to a  *)
(* user who may give a command stat tells whether there is one.            *)
OneThread == Cardinality(Alive) <= 1 /\ (Ready => (w.stat = 0 <=> Alive = {}))

(* What the loop of an action works with. *)
Needs(fn) == CASE fn \in {"direct_io", "direct_io_tx_lat", "direct_io_rx_lat"} -> {"ob"}
               [] fn = "dma_rx_gp" -> {"ib"}
               [] fn = "message_tx" -> {"mb"}
               [] fn = "message_rx" -> {"mb", "acc"}
               [] OTHER -> {}

(* shutdown_worker_thread waits for the thread: what the loop of an action *)
(* works with is not released before the loop ends, nor the master port    *)
(* handle of a thread before the thread ends, by whichever of the two      *)
(* threads.                                                                *)
StillHeld ==
  \A t \in Threads :
    /\ At(t, "loop") => Needs(th[t].fn) \subseteq w.held
    /\ At(t, "loop") /\ th[t].fn \in {"dma_tx", "dma_tx_lat", "dma_tx_num", "dma_rx_lat"} => w.rp # "null"
    /\ At(t, "loop") /\ th[t].fn = "message_tx" => w.con = 2
    /\ t \in Alive /\ th[t].pc # "exit" /\ th[t].own => "mp" \in w.held

(* shutdown_worker_thread leaves no window, mailbox or listening socket    *)
(* behind, whatever the actions before it left when they failed, unless    *)
(* the kernel refused to free a window.                                    *)
KillReleases == Alive = {} /\ cli = Idle => w.held \cap {"ob", "ib", "mb", "acc"} = {}

(* HaltCmd: a running worker that is to stop does, unless it is moved,     *)
(* whatever the thread is doing when the request comes.  KillCmd returns:  *)
(* shutdown_worker_thread finds its thread out of every loop and wait, and *)
(* then no thread is left.                                                 *)
CommandsEnd ==
  /\ (w.stat = 1 /\ w.stop = 2) ~> (w.stat # 1 \/ w.stop = 0)
  /\ (cli.pc = "kill") ~> (cli = Idle /\ Alive = {})
=============================================================================
