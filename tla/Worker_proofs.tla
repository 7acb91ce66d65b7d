---------------------------- MODULE Worker_proofs ----------------------------
(***************************************************************************)
(* Proofs about Worker, for any number of threads and any menus.           *)
(*                                                                         *)
(* The thread that wkr_thr.thr names is the only one there is, and its     *)
(* step, stat, started and the step of the command determine each other    *)
(* (Phase): this is the handshake by which the two threads share the       *)
(* struct.  From it follows who may write which field when, and so that    *)
(* what the kernel holds is what the struct says (Owned).                  *)
(***************************************************************************)
EXTENDS Worker, TLAPS

Fields == {"stat", "stop", "act", "wr", "kbuf", "sz", "obsz", "ibsz", "ob", "ib", "rp",
           "mb", "acc", "con", "mine", "held"}
Params == {"wr", "kbuf", "sz", "obsz", "ibsz"}
Four == {"ob", "ib", "mb", "acc"}

(* What the kernel holds is known to the struct. *)
Owned(s) ==
  /\ "ob" \in s.held => s.ob = TRUE
  /\ "ib" \in s.held => s.ib # "none"
  /\ s.ib = "mapped" => "ib" \in s.held
  /\ "mb" \in s.held => s.mb = TRUE
  /\ "acc" \in s.held => s.acc = TRUE

Struct(s) == DOMAIN s = Fields /\ Owned(s)

(* What a function of the worker leaves alone. *)
Keeps(s, r) == /\ Struct(r)
               /\ r.stat = s.stat /\ r.act = s.act
               /\ "mp" \in s.held => "mp" \in r.held

(* What the loop of function fn needs. *)
InHand(s, fn) ==
  /\ Needs(fn) \subseteq s.held
  /\ fn \in {"dma_tx", "dma_tx_lat", "dma_tx_num", "dma_rx_lat"} => s.rp # "null"
  /\ fn = "message_tx" => s.con = 2

-----------------------------------------------------------------------------
(* The functions of the worker, one by one. *)

LEMMA ObwinLemma ==
  ASSUME NEW s, Struct(s)
  PROVE  /\ Keeps(s, ObwinMap(s)) /\ "ob" \in ObwinMap(s).held
         /\ Keeps(s, ObwinUnmap(s)) /\ "ob" \notin ObwinUnmap(s).held
<1>1. Keeps(s, ObwinMap(s)) /\ "ob" \in ObwinMap(s).held
  BY DEF Keeps, Struct, Owned, Fields, ObwinMap
<1>2. Keeps(s, ObwinUnmap(s)) /\ "ob" \notin ObwinUnmap(s).held
  BY DEF Keeps, Struct, Owned, Fields, ObwinUnmap
<1> QED BY <1>1, <1>2

LEMMA DmaBufferLemma ==
  ASSUME NEW s, Struct(s)
  PROVE  /\ Keeps(s, AllocDma(s)) /\ AllocDma(s).rp # "null"
         /\ Keeps(s, DeallocDma(s))
         /\ \A f \in AllocDmaFails(s) : Keeps(s, f)
<1>1. Keeps(s, AllocDma(s)) /\ AllocDma(s).rp # "null"
  BY DEF Keeps, Struct, Owned, Fields, AllocDma
<1>2. Keeps(s, DeallocDma(s))
  BY DEF Keeps, Struct, Owned, Fields, DeallocDma
<1>3. \A f \in AllocDmaFails(s) : f = s \/ f = [s EXCEPT !.rp = "null"]
  BY DEF AllocDmaFails
<1>4. Keeps(s, s)
  BY DEF Keeps
<1> QED BY <1>1, <1>2, <1>3, <1>4 DEF DeallocDma

LEMMA CleanupLemma ==
  ASSUME NEW s, Struct(s)
  PROVE  /\ Keeps(s, CleanupConSkt(s)) /\ CleanupConSkt(s).held = s.held
         /\ Keeps(s, CleanupAccSkt(s)) /\ CleanupAccSkt(s).held = s.held \ {"acc"}
         /\ Keeps(s, CleanupMb(s)) /\ CleanupMb(s).held = s.held \ {"mb"}
<1>1. Keeps(s, CleanupConSkt(s)) /\ CleanupConSkt(s).held = s.held
  BY DEF Keeps, Struct, Owned, Fields, CleanupConSkt
<1>2. Keeps(s, CleanupAccSkt(s)) /\ CleanupAccSkt(s).held = s.held \ {"acc"}
  BY DEF Keeps, Struct, Owned, Fields, CleanupAccSkt
<1>3. Keeps(s, CleanupMb(s)) /\ CleanupMb(s).held = s.held \ {"mb"}
  BY DEF Keeps, Struct, Owned, Fields, CleanupMb
<1> QED BY <1>1, <1>2, <1>3

LEMMA SelfLemma == ASSUME NEW s, Struct(s) PROVE Keeps(s, s)
BY DEF Keeps

LEMMA ChainLemma ==
  ASSUME NEW s, NEW r, NEW q, Keeps(s, r), Keeps(r, q) PROVE Keeps(s, q)
BY DEF Keeps

LEMMA MsgCleanupLemma ==
  ASSUME NEW s, Struct(s)
  PROVE  Keeps(s, MsgCleanup(s)) /\ MsgCleanup(s).held = s.held \ {"acc", "mb"}
<1> DEFINE a == CleanupConSkt(s)
           b == CleanupAccSkt(a)
           c == CleanupMb(b)
<1>1. Keeps(s, a) /\ a.held = s.held
  BY CleanupLemma
<1>2. Keeps(a, b) /\ b.held = a.held \ {"acc"}
  BY <1>1, CleanupLemma DEF Keeps
<1>3. Keeps(b, c) /\ c.held = b.held \ {"mb"}
  BY <1>2, CleanupLemma DEF Keeps
<1>4. Keeps(s, c)
  BY <1>1, <1>2, <1>3, ChainLemma
<1>5. c.held = s.held \ {"acc", "mb"}
  BY <1>1, <1>2, <1>3
<1> QED BY <1>4, <1>5 DEF MsgCleanup

LEMMA IbwinLemma ==
  ASSUME NEW s, Struct(s)
  PROVE  /\ \A f \in FreeIbwin(s) : Keeps(s, f) /\ "ib" \notin f.held
         /\ \A f \in AllocIbwin(s) : Keeps(s, f)
<1>1. ASSUME NEW f \in FreeIbwin(s) PROVE Keeps(s, f) /\ "ib" \notin f.held
  <2>1. CASE s.ib = "none"
    BY Zenon, <1>1, <2>1, SelfLemma DEF FreeIbwin, Struct, Owned
  <2>2. CASE s.ib # "none" /\ f = [s EXCEPT !.ib = "none", !.ibsz = FALSE, !.held = @ \ {"ib"}]
    BY <2>2 DEF Keeps, Struct, Owned, Fields
  <2>3. CASE s.ib # "none" /\ f = [s EXCEPT !.ib = "unmapped", !.held = @ \ {"ib"}]
    BY <2>3 DEF Keeps, Struct, Owned, Fields
  <2> QED BY <1>1, <2>1, <2>2, <2>3 DEF FreeIbwin
<1>2. ASSUME NEW f \in AllocIbwin(s) PROVE Keeps(s, f)
  <2>1. CASE f = s
    BY <2>1, SelfLemma
  <2>2. CASE f = [s EXCEPT !.ib = "mapped", !.held = @ \cup {"ib"}]
    BY <2>2 DEF Keeps, Struct, Owned, Fields
  <2> QED BY <1>2, <2>1, <2>2 DEF AllocIbwin
<1> QED BY <1>1, <1>2

(* shutdown_worker_thread leaves nothing behind: what the kernel holds is *)
(* known to the struct, so it is all released.                            *)
LEMMA ReleaseLemma ==
  ASSUME NEW s, Struct(s), NEW r \in Release(s)
  PROVE  Struct(r) /\ r.stat = 0 /\ r.act = "no_action" /\ r.held \cap Four = {}
<1>1. PICK f \in FreeIbwin(s) :
        r = InitWorkerInfo([MsgCleanup(DeallocDma(ObwinUnmap(f)))
                              EXCEPT !.held = IF f.mine THEN @ \ {"mp"} ELSE @])
  BY Zenon DEF Release
<1> DEFINE a == ObwinUnmap(f)
           b == DeallocDma(a)
           c == MsgCleanup(b)
<1>2. Struct(f) /\ "ib" \notin f.held
  BY IbwinLemma DEF Keeps
<1>3. Struct(a) /\ "ob" \notin a.held
  BY <1>2, ObwinLemma DEF Keeps
<1>4. "ib" \notin a.held
  BY <1>2 DEF ObwinUnmap, Struct, Fields
<1>5. Struct(b) /\ b.held = a.held
  BY <1>3, DmaBufferLemma DEF Keeps, DeallocDma, Struct, Fields
<1>6. Struct(c) /\ c.held = b.held \ {"acc", "mb"}
  BY <1>5, MsgCleanupLemma DEF Keeps
<1>7. c.held \cap Four = {}
  BY <1>3, <1>4, <1>5, <1>6 DEF Four
<1> DEFINE d == [c EXCEPT !.held = IF f.mine THEN @ \ {"mp"} ELSE @]
<1>8. d.held \cap Four = {}
  BY <1>6, <1>7 DEF Struct, Fields
<1>9. r = InitWorkerInfo(d)
  BY <1>1
<1> HIDE DEF d
<1>10. r.held = d.held /\ DOMAIN r = Fields /\ r.stat = 0 /\ r.act = "no_action" /\ r.ib = "none"
  BY <1>9 DEF InitWorkerInfo, Fields
<1> QED BY <1>8, <1>10 DEF Struct, Owned, Four

-----------------------------------------------------------------------------
(* What a function returns with: the struct is kept, and has what the loop *)
(* of the function needs if it is in its loop.                             *)
Entered(s, fn, e) == Keeps(s, e[1]) /\ (e[2] => InHand(e[1], fn))

LEMMA ReturnsLemma ==
  ASSUME NEW s, NEW fn, NEW S, \A f \in S : Keeps(s, f)
  PROVE  \A e \in Returns(S) : Entered(s, fn, e)
BY Zenon DEF Returns, Entered

LEMMA DirectIoLemma ==
  ASSUME NEW s, Struct(s), NEW fn \in {"direct_io", "direct_io_tx_lat", "direct_io_rx_lat"},
         NEW e \in DirectIo(s)
  PROVE  Entered(s, fn, e)
<1>1. e \in Returns({s}) \/ e \in Returns({ObwinUnmap(s)}) \/ e = <<ObwinMap(s), TRUE>>
  BY Zenon DEF DirectIo
<1>2. Keeps(s, s) /\ Keeps(s, ObwinUnmap(s)) /\ Keeps(s, ObwinMap(s))
  BY SelfLemma, ObwinLemma
<1>3. CASE e \in Returns({s})
  BY <1>2, <1>3, ReturnsLemma
<1>4. CASE e \in Returns({ObwinUnmap(s)})
  BY <1>2, <1>4, ReturnsLemma
<1>5. CASE e = <<ObwinMap(s), TRUE>>
  BY <1>2, <1>5, ObwinLemma DEF Entered, InHand, Needs
<1> QED BY Zenon, <1>1, <1>3, <1>4, <1>5

LEMMA WithBufferLemma ==
  ASSUME NEW s, Struct(s), NEW fn \in {"dma_tx", "dma_tx_lat", "dma_tx_num", "dma_rx_lat"},
         NEW e \in WithBuffer(s) \cup Returns({s, AllocDma(s)})
  PROVE  Entered(s, fn, e)
<1> DEFINE D == {DeallocDma(f) : f \in AllocDmaFails(s)}
<1>1. \A f \in D : Keeps(s, f)
  <2>1. ASSUME NEW f \in AllocDmaFails(s) PROVE Keeps(s, DeallocDma(f))
    <3>1. Keeps(s, f)
      BY DmaBufferLemma
    <3>2. Keeps(f, DeallocDma(f))
      BY <3>1, DmaBufferLemma DEF Keeps
    <3> QED BY <3>1, <3>2, ChainLemma
  <2> QED BY <2>1
<1>2. \A f \in {s, AllocDma(s)} : Keeps(s, f)
  BY SelfLemma, DmaBufferLemma
<1>3. e \in Returns(D) \/ e \in Returns({s, AllocDma(s)}) \/ e = <<AllocDma(s), TRUE>>
  BY Zenon DEF WithBuffer
<1> HIDE DEF D
<1>4. CASE e \in Returns(D)
  BY <1>1, <1>4, ReturnsLemma
<1>5. CASE e \in Returns({s, AllocDma(s)})
  BY <1>2, <1>5, ReturnsLemma
<1>6. CASE e = <<AllocDma(s), TRUE>>
  BY <1>6, DmaBufferLemma DEF Entered, InHand, Needs
<1> QED BY Zenon, <1>3, <1>4, <1>5, <1>6

LEMMA MailboxLemma ==
  ASSUME NEW s, Struct(s)
  PROVE  /\ Keeps(s, Mailbox(s)) /\ "mb" \in Mailbox(s).held
         /\ Keeps(s, AccSocket(s)) /\ AccSocket(s).held = s.held \cup {"acc"}
         /\ Keeps(s, ConSocket(s)) /\ ConSocket(s).held = s.held
         /\ Keeps(s, Connected(s)) /\ Connected(s).held = s.held /\ Connected(s).con = 2
<1>1. Keeps(s, Mailbox(s)) /\ "mb" \in Mailbox(s).held
  BY DEF Keeps, Struct, Owned, Fields, Mailbox
<1>2. Keeps(s, AccSocket(s)) /\ AccSocket(s).held = s.held \cup {"acc"}
  BY DEF Keeps, Struct, Owned, Fields, AccSocket
<1>3. Keeps(s, ConSocket(s)) /\ ConSocket(s).held = s.held
  BY DEF Keeps, Struct, Owned, Fields, ConSocket
<1>4. Keeps(s, Connected(s)) /\ Connected(s).held = s.held /\ Connected(s).con = 2
  BY DEF Keeps, Struct, Owned, Fields, Connected
<1> QED BY <1>1, <1>2, <1>3, <1>4

LEMMA MessageLemma ==
  ASSUME NEW s, Struct(s)
  PROVE  /\ \A e \in MsgTx(s) : Entered(s, "message_tx", e)
         /\ \A e \in MsgTxOverhead(s) : Entered(s, "message_tx_oh", e)
         /\ \A e \in MsgRx(s) : Entered(s, "message_rx", e)
<1> DEFINE m == Mailbox(s)
           c == ConSocket(m)
           k == Connected(c)
           a == AccSocket(m)
<1>1. Keeps(s, m) /\ "mb" \in m.held
  BY MailboxLemma
<1>2. Keeps(m, c) /\ c.held = m.held /\ Keeps(m, a) /\ a.held = m.held \cup {"acc"}
  BY <1>1, MailboxLemma DEF Keeps
<1>3. Keeps(c, k) /\ k.held = c.held /\ k.con = 2
  BY <1>2, MailboxLemma DEF Keeps
<1>4. Keeps(s, s) /\ Keeps(s, c) /\ Keeps(s, a)
  BY <1>1, <1>2, SelfLemma, ChainLemma
<1>5. Keeps(s, k)
  BY <1>3, <1>4, ChainLemma
<1>6. Keeps(s, MsgCleanup(m)) /\ Keeps(s, MsgCleanup(k))
  <2>1. Keeps(m, MsgCleanup(m)) /\ Keeps(k, MsgCleanup(k))
    BY <1>1, <1>3, MsgCleanupLemma DEF Keeps
  <2> QED BY <1>1, <1>5, <2>1, ChainLemma
<1>7. \A S : S \subseteq {s, m, c, a, MsgCleanup(m), MsgCleanup(k)}
               => \A fn : \A e \in Returns(S) : Entered(s, fn, e)
  BY <1>1, <1>4, <1>6, ReturnsLemma
<1>8. Entered(s, "message_tx", <<k, TRUE>>)
  BY <1>1, <1>2, <1>3, <1>5 DEF Entered, InHand, Needs
<1>9. Entered(s, "message_rx", <<a, TRUE>>)
  BY <1>1, <1>2, <1>4 DEF Entered, InHand, Needs
<1>10. ASSUME NEW e \in MsgTx(s) PROVE Entered(s, "message_tx", e)
  <2>1. e \in Returns({s}) \/ e \in Returns({s, m, c}) \/ e = <<k, TRUE>>
    BY Zenon DEF MsgTx
  <2> QED BY Zenon, <1>7, <1>8, <2>1
<1>11. ASSUME NEW e \in MsgTxOverhead(s) PROVE Entered(s, "message_tx_oh", e)
  <2>1. \/ e \in Returns({s}) \/ e \in Returns({s} \cup {MsgCleanup(m)})
        \/ e \in Returns({s} \cup {m, c, MsgCleanup(k)})
    BY DEF MsgTxOverhead
  <2> QED BY <1>7, <2>1
<1>12. ASSUME NEW e \in MsgRx(s) PROVE Entered(s, "message_rx", e)
  <2>1. e \in Returns({s}) \/ e \in Returns({s, m, a}) \/ e = <<a, TRUE>>
    BY Zenon DEF MsgRx
  <2> QED BY Zenon, <1>7, <1>9, <2>1
<1> QED BY <1>10, <1>11, <1>12

LEMMA EnterLemma ==
  ASSUME NEW s, Struct(s), NEW e \in Enter(s)
  PROVE  Entered(s, s.act, e)
<1>1. Keeps(s, s)
  BY SelfLemma
<1>2. CASE s.act \in {"direct_io", "direct_io_tx_lat", "direct_io_rx_lat"}
  BY <1>2, DirectIoLemma DEF Enter
<1>3. CASE s.act \in {"dma_tx", "dma_tx_lat", "dma_tx_num", "dma_rx_lat"}
  <2>1. e \in DmaGoodput(s) \/ e \in DmaTxNum(s) \/ e \in DmaRxLatency(s)
    BY <1>3 DEF Enter
  <2>2. e \in WithBuffer(s) \cup Returns({s, AllocDma(s)})
    BY Zenon, <2>1 DEF DmaGoodput, DmaTxNum, DmaRxLatency, Returns
  <2> QED BY Zenon, <1>3, <2>2, WithBufferLemma
<1>4. CASE s.act = "dma_rx_gp"
  <2>1. e = <<s, s.sz /\ s.ib = "mapped">>
    BY <1>4 DEF Enter, DmaRxGoodput
  <2>2. e[1] = s /\ (e[2] => s.ib = "mapped")
    BY Zenon, <2>1
  <2>3. s.ib = "mapped" => "ib" \in s.held
    BY DEF Struct, Owned
  <2>4. Needs("dma_rx_gp") = {"ib"}
    BY DEF Needs
  <2> QED BY <1>1, <1>4, <2>2, <2>3, <2>4 DEF Entered, InHand
<1>5. CASE s.act \in {"message_tx", "message_rx", "message_tx_oh"}
  BY <1>5, MessageLemma DEF Enter
<1>6. CASE s.act \in {"alloc_ibwin", "free_ibwin"}
  BY <1>6, IbwinLemma, ReturnsLemma DEF Enter
<1>7. CASE s.act = "reg_scrub"
  BY <1>1, <1>7 DEF Enter, DoRegScrub, Entered, InHand, Needs
<1>8. CASE s.act \notin Actions \/ s.act \in {"no_action", "shutdown_worker"}
  <2>1. e \in Returns({s})
    BY <1>8 DEF Enter, Actions, InLoop
  <2> QED BY <1>1, <2>1, ReturnsLemma
<1> QED BY <1>2, <1>3, <1>4, <1>5, <1>6, <1>7, <1>8 DEF Actions, InLoop

LEMMA LeaveLemma ==
  ASSUME NEW s, Struct(s), NEW fn
  PROVE  Keeps(s, Leave(s, fn))
BY SelfLemma, ObwinLemma, DmaBufferLemma, MsgCleanupLemma DEF Leave

-----------------------------------------------------------------------------
(* The inductive invariant. *)

Pc == th[thr].pc
Steps == {"none", "start", "posted", "top", "loop", "park", "sleep", "woken", "exit", "gone"}

(* The command has been told that the thread is there, or will be. *)
Told == \/ cli.pc = "started" /\ started = 1
        \/ cli.pc \in {"idle", "kill", "stop", "run", "join", "action", "write", "clear", "post"}
           /\ started = 0

Phase ==
  \/ Pc = "none" /\ w.stat = 0 /\ started = 0 /\ cli.pc \in {"idle", "release"}
  \/ Pc = "start" /\ w.stat = 0 /\ started = 0 /\ cli.pc = "started"
  \/ Pc = "posted" /\ w.stat = 0 /\ Told /\ cli.pc \in {"started", "idle"}
  \/ Pc \in {"top", "loop", "park"} /\ w.stat = 1 /\ Told
  \/ Pc \in {"sleep", "woken"} /\ w.stat = 2 /\ Told
  \/ Pc \in {"exit", "gone"} /\ w.stat = 0 /\ started = 0 /\ cli.pc \in {"stop", "run", "join"}

ThreadsInv ==
  /\ thr \in Threads
  /\ th \in [Threads -> [pc : Steps, fn : Actions, own : BOOLEAN]]
  /\ \A t \in Threads \ {thr} : th[t].pc = "none"

(* A thread is told to shut down only by a kill that then waits for it. *)
ActInv ==
  /\ w.act \in Actions
  /\ w.act = "shutdown_worker" => cli.pc \in {"stop", "run", "join"}
  /\ Pc = "gone" => w.act # "shutdown_worker"
  /\ menu \subseteq Commanded
  /\ cli.pc \in {"action", "write"} =>
       /\ DOMAIN cli = {"pc", "act", "p"}
       /\ cli.act \in Commanded /\ DOMAIN cli.p \subseteq Params

HeldInv ==
  /\ Struct(w)
  /\ (Pc = "gone" \/ (Pc = "none" /\ cli.pc = "idle")) => w.held \cap Four = {}
  /\ Pc = "loop" => InHand(w, th[thr].fn)
  /\ Pc \notin {"none", "exit", "gone"} /\ th[thr].own => "mp" \in w.held

IInv == ThreadsInv /\ Phase /\ ActInv /\ HeldInv

LEMMA InitLemma == Init => IInv
<1> SUFFICES ASSUME Init PROVE IInv
  OBVIOUS
<1>1. thr \in Threads
  BY WorkerConstants DEF Init
<1>2. \A t \in Threads : th[t] = NoThread
  BY DEF Init
<1>3. ThreadsInv
  BY <1>1 DEF Init, ThreadsInv, NoThread, Steps, Actions
<1>4. w.stat = 0 /\ w.act = "no_action" /\ w.ib = "none" /\ w.held = {} /\ DOMAIN w = Fields
  BY DEF Init, InitWorkerInfo, Fields
<1>5. Pc = "none" /\ cli.pc = "idle" /\ started = 0
  BY <1>1, <1>2 DEF Init, Pc, NoThread, Idle
<1>6. Phase
  BY <1>4, <1>5 DEF Phase
<1>7. ActInv
  BY <1>4, <1>5, WorkerConstants DEF ActInv, Init, Actions
<1>8. HeldInv
  BY <1>4, <1>5 DEF HeldInv, Struct, Owned, Four
<1> QED BY <1>3, <1>6, <1>7, <1>8 DEF IInv

(* A thread at any step but the first is the one that thr names. *)
LEMMA TheThread ==
  ASSUME ThreadsInv, NEW t \in Threads, th[t].pc # "none" PROVE t = thr
BY DEF ThreadsInv

LEMMA GotoLemma ==
  ASSUME ThreadsInv, NEW pc \in Steps, Goto(thr, pc), thr' = thr
  PROVE  ThreadsInv' /\ Pc' = pc /\ th'[thr].fn = th[thr].fn /\ th'[thr].own = th[thr].own
<1>1. th'[thr] = [th[thr] EXCEPT !.pc = pc]
  BY DEF ThreadsInv, Goto
<1>2. \A t \in Threads \ {thr} : th'[t] = th[t]
  BY DEF ThreadsInv, Goto
<1>3. th' \in [Threads -> [pc : Steps, fn : Actions, own : BOOLEAN]]
  BY DEF ThreadsInv, Goto
<1>4. th[thr] \in [pc : Steps, fn : Actions, own : BOOLEAN]
  BY DEF ThreadsInv
<1> QED BY <1>1, <1>2, <1>3, <1>4 DEF ThreadsInv, Pc

(* The end of a loop. *)
LEMMA KeptLemma ==
  ASSUME IInv, Pc = "loop", Goto(thr, "park"), Keeps(w, w'),
         UNCHANGED <<run, started, cli, thr, menu>>
  PROVE  IInv'
<1>1. ThreadsInv' /\ Pc' = "park" /\ th'[thr].own = th[thr].own
  BY GotoLemma DEF IInv, Steps
<1>2. w'.stat = w.stat /\ w'.act = w.act /\ Struct(w') /\ ("mp" \in w.held => "mp" \in w'.held)
  BY DEF Keeps
<1>3. Phase'
  BY <1>1, <1>2 DEF IInv, Phase, Told
<1>4. ActInv'
  BY <1>1, <1>2 DEF IInv, ActInv
<1>5. HeldInv'
  BY <1>1, <1>2 DEF IInv, HeldInv
<1> QED BY <1>1, <1>3, <1>4, <1>5 DEF IInv

(* A step of the thread by which only stat changes. *)
LEMMA StatLemma ==
  ASSUME Struct(w), NEW n, w' = [w EXCEPT !.stat = n]
  PROVE  Struct(w') /\ w'.stat = n /\ w'.act = w.act /\ w'.held = w.held
BY DEF Struct, Owned, Fields

LEMMA ThreadLemma ==
  ASSUME IInv, NEW t \in Threads,
         \/ ThreadStep(t) \/ ThreadTransfer(t) \/ ThreadError(t)
         \/ ThreadAccept(t) \/ ThreadDisconnect(t)
  PROVE  IInv'
<1> USE DEF IInv
<1>1. CASE ThreadStarted(t)
  <2>1. t = thr /\ Pc = "start"
    BY <1>1, TheThread DEF ThreadStarted, At, Pc
  <2>2. ThreadsInv' /\ Pc' = "posted" /\ th'[thr].own = th[thr].own
    BY <1>1, <2>1, GotoLemma DEF ThreadStarted, Steps
  <2>3. Phase'
    BY <1>1, <2>1, <2>2 DEF ThreadStarted, Phase, Told
  <2>4. ActInv' /\ HeldInv'
    BY <1>1, <2>1, <2>2 DEF ThreadStarted, ActInv, HeldInv
  <2> QED BY <2>2, <2>3, <2>4
<1>2. CASE ThreadAlive(t)
  <2>1. t = thr /\ Pc = "posted"
    BY <1>2, TheThread DEF ThreadAlive, At, Pc
  <2>2. ThreadsInv' /\ Pc' = "top" /\ th'[thr].own = th[thr].own
    BY <1>2, <2>1, GotoLemma DEF ThreadAlive, Steps
  <2>3. Struct(w') /\ w'.stat = 1 /\ w'.act = w.act /\ w'.held = w.held
    BY <1>2, StatLemma DEF ThreadAlive, HeldInv
  <2>4. Phase'
    BY <1>2, <2>1, <2>2, <2>3 DEF ThreadAlive, Phase, Told
  <2>5. ActInv' /\ HeldInv'
    BY <1>2, <2>1, <2>2, <2>3 DEF ThreadAlive, ActInv, HeldInv
  <2> QED BY <2>2, <2>4, <2>5
<1>3. CASE ThreadSwitch(t)
  <2>1. t = thr /\ Pc = "top"
    BY <1>3, TheThread DEF ThreadSwitch, At, Pc
  <2>2. PICK e \in Enter(w) :
          /\ w' = e[1]
          /\ th' = [th EXCEPT ![t].pc = IF e[2] THEN "loop" ELSE "park", ![t].fn = w.act]
    BY Zenon, <1>3 DEF ThreadSwitch
  <2>3. Keeps(w, w') /\ (e[2] => InHand(w', w.act))
    BY <2>2, EnterLemma DEF HeldInv, Entered
  <2>4. w'.stat = w.stat /\ w'.act = w.act /\ Struct(w') /\ ("mp" \in w.held => "mp" \in w'.held)
    BY <2>3 DEF Keeps
  <2> DEFINE pc == IF e[2] THEN "loop" ELSE "park"
  <2>5. pc \in {"loop", "park"} /\ (pc = "loop" => e[2])
    OBVIOUS
  <2>6. th' = [th EXCEPT ![thr] = [th[thr] EXCEPT !.pc = pc, !.fn = w.act]]
    BY Zenon, <2>1, <2>2 DEF ThreadsInv
  <2> HIDE DEF pc
  <2>7. thr' = thr /\ started' = started /\ cli' = cli /\ menu' = menu /\ w.act \in Actions
    BY <1>3 DEF ThreadSwitch, ActInv
  <2>8. th[thr] \in [pc : Steps, fn : Actions, own : BOOLEAN]
    BY DEF ThreadsInv
  <2>9. th'[thr].pc = pc /\ th'[thr].fn = w.act /\ th'[thr].own = th[thr].own
    BY <2>6, <2>8 DEF ThreadsInv
  <2>10. [th[thr] EXCEPT !.pc = pc, !.fn = w.act] \in [pc : Steps, fn : Actions, own : BOOLEAN]
    BY Zenon, <2>5, <2>7, <2>8 DEF Steps
  <2>11. ThreadsInv'
    BY <2>6, <2>7, <2>10 DEF ThreadsInv
  <2>12. Pc' = pc
    BY <2>7, <2>9 DEF Pc
  <2>13. Phase'
    BY <2>1, <2>4, <2>5, <2>7, <2>12 DEF Phase, Told
  <2>14. ActInv'
    BY <2>4, <2>5, <2>7, <2>12 DEF ActInv
  <2>15. HeldInv'
    BY <2>1, <2>3, <2>4, <2>5, <2>7, <2>9, <2>12 DEF HeldInv
  <2> QED BY <2>11, <2>13, <2>14, <2>15
<1>4. CASE ThreadShutdown(t)
  <2>1. t = thr /\ Pc = "top"
    BY <1>4, TheThread DEF ThreadShutdown, At, Pc
  <2>2. ThreadsInv' /\ Pc' = "exit" /\ th'[thr].own = th[thr].own
    BY <1>4, <2>1, GotoLemma DEF ThreadShutdown, Steps
  <2>3. Struct(w') /\ w'.stat = 0 /\ w'.act = w.act /\ w'.held = w.held
    BY <1>4, StatLemma DEF ThreadShutdown, HeldInv
  <2>4. cli.pc \in {"stop", "run", "join"} /\ started = 0
    BY <1>4, <2>1 DEF ThreadShutdown, Phase, Told, ActInv
  <2>5. Phase'
    BY <1>4, <2>2, <2>3, <2>4 DEF ThreadShutdown, Phase
  <2>6. ActInv' /\ HeldInv'
    BY <1>4, <2>1, <2>2, <2>3 DEF ThreadShutdown, ActInv, HeldInv
  <2> QED BY <2>2, <2>5, <2>6
<1>5. CASE ThreadStop(t)
  <2>1. t = thr /\ Pc = "loop"
    BY <1>5, TheThread DEF ThreadStop, At, Pc
  <2>2. Keeps(w, w')
    BY <1>5, LeaveLemma DEF ThreadStop, HeldInv
  <2> QED BY <1>5, <2>1, <2>2, KeptLemma DEF ThreadStop
<1>6. CASE ThreadTransfer(t)
  BY <1>6 DEF ThreadTransfer, vars, ThreadsInv, Phase, Told, Pc, ActInv, HeldInv
<1>7. CASE ThreadError(t)
  <2>1. t = thr /\ Pc = "loop"
    BY <1>7, TheThread DEF ThreadError, At, Pc
  <2>2. Keeps(w, MsgCleanup(w)) /\ Keeps(w, MsgCleanup(ConSocket(w)))
    <3>1. Keeps(w, ConSocket(w))
      BY MailboxLemma DEF HeldInv
    <3>2. Keeps(w, MsgCleanup(w)) /\ Keeps(ConSocket(w), MsgCleanup(ConSocket(w)))
      BY <3>1, MsgCleanupLemma DEF HeldInv, Keeps
    <3> QED BY <3>1, <3>2, ChainLemma
  <2>3. Keeps(w, w')
    BY <1>7, <2>2, LeaveLemma DEF ThreadError, HeldInv
  <2> QED BY <1>7, <2>1, <2>3, KeptLemma DEF ThreadError
<1>8. CASE ThreadAccept(t) \/ ThreadDisconnect(t)
  <2>1. t = thr /\ Pc = "loop" /\ th[thr].fn = "message_rx"
    BY <1>8, TheThread DEF ThreadAccept, ThreadDisconnect, At, Pc
  <2>2. UNCHANGED <<run, started, th, cli, thr, menu>>
    BY <1>8 DEF ThreadAccept, ThreadDisconnect
  <2>3. Keeps(w, ConSocket(w)) /\ ConSocket(w).held = w.held
    BY MailboxLemma DEF HeldInv
  <2>4. /\ Keeps(ConSocket(w), Connected(ConSocket(w)))
        /\ Connected(ConSocket(w)).held = ConSocket(w).held
    BY <2>3, MailboxLemma DEF Keeps
  <2>5. Keeps(w, CleanupConSkt(w)) /\ CleanupConSkt(w).held = w.held
    BY CleanupLemma DEF HeldInv
  <2>6. Keeps(w, w') /\ w'.held = w.held
    BY <1>8, <2>3, <2>4, <2>5, ChainLemma DEF ThreadAccept, ThreadDisconnect
  <2>7. InHand(w', "message_rx")
    BY <2>1, <2>6 DEF HeldInv, InHand
  <2>8. Pc' = Pc /\ th' = th /\ thr' = thr /\ ThreadsInv'
    BY <2>2 DEF Pc, ThreadsInv
  <2>9. Phase' /\ ActInv'
    BY <2>2, <2>6, <2>8 DEF Keeps, Phase, Told, ActInv
  <2>10. HeldInv'
    BY <2>1, <2>2, <2>6, <2>7, <2>8 DEF Keeps, HeldInv
  <2> QED BY <2>8, <2>9, <2>10
<1>9. CASE ThreadPark(t)
  <2>1. t = thr /\ Pc = "park" /\ w.stat = 1
    BY <1>9, TheThread DEF ThreadPark, At, Pc, Phase
  <2>2. Goto(thr, "sleep") /\ w' = [w EXCEPT !.stat = 2]
    BY <1>9, <2>1 DEF ThreadPark
  <2>3. ThreadsInv' /\ Pc' = "sleep" /\ th'[thr].own = th[thr].own
    BY <1>9, <2>2, GotoLemma DEF ThreadPark, Steps
  <2>4. Struct(w') /\ w'.stat = 2 /\ w'.act = w.act /\ w'.held = w.held
    BY <2>2, StatLemma DEF HeldInv
  <2>5. Phase'
    BY <1>9, <2>1, <2>3, <2>4 DEF ThreadPark, Phase, Told
  <2>6. ActInv' /\ HeldInv'
    BY <1>9, <2>1, <2>3, <2>4 DEF ThreadPark, ActInv, HeldInv
  <2> QED BY <2>3, <2>5, <2>6
<1>10. CASE ThreadWake(t)
  <2>1. t = thr /\ Pc = "sleep"
    BY <1>10, TheThread DEF ThreadWake, At, Pc
  <2>2. ThreadsInv' /\ Pc' = "woken" /\ th'[thr].own = th[thr].own
    BY <1>10, <2>1, GotoLemma DEF ThreadWake, Steps
  <2>3. Phase' /\ ActInv' /\ HeldInv'
    BY <1>10, <2>1, <2>2 DEF ThreadWake, Phase, Told, ActInv, HeldInv
  <2> QED BY <2>2, <2>3
<1>11. CASE ThreadRun(t)
  <2>1. t = thr /\ Pc = "woken"
    BY <1>11, TheThread DEF ThreadRun, At, Pc
  <2>2. ThreadsInv' /\ Pc' = "top" /\ th'[thr].own = th[thr].own
    BY <1>11, <2>1, GotoLemma DEF ThreadRun, Steps
  <2>3. Struct(w') /\ w'.stat = 1 /\ w'.act = w.act /\ w'.held = w.held
    BY <1>11, StatLemma DEF ThreadRun, HeldInv
  <2>4. Phase'
    BY <1>11, <2>1, <2>2, <2>3 DEF ThreadRun, Phase, Told
  <2>5. ActInv' /\ HeldInv'
    BY <1>11, <2>1, <2>2, <2>3 DEF ThreadRun, ActInv, HeldInv
  <2> QED BY <2>2, <2>4, <2>5
<1>12. CASE ThreadExit(t)
  <2>1. t = thr /\ Pc = "exit"
    BY <1>12, TheThread DEF ThreadExit, At, Pc
  <2>2. ThreadsInv' /\ Pc' = "gone" /\ th'[thr].own = th[thr].own
    BY <1>12, <2>1, GotoLemma DEF ThreadExit, Steps
  <2>3. Struct(w') /\ w'.stat = 0 /\ w'.act = "no_action" /\ w'.held \cap Four = {}
    BY <1>12, ReleaseLemma DEF ThreadExit, HeldInv
  <2>4. Phase'
    BY <1>12, <2>1, <2>2, <2>3 DEF ThreadExit, Phase
  <2>5. ActInv' /\ HeldInv'
    BY <1>12, <2>1, <2>2, <2>3 DEF ThreadExit, ActInv, HeldInv, Actions
  <2> QED BY <2>2, <2>4, <2>5
<1> QED
  BY <1>1, <1>2, <1>3, <1>4, <1>5, <1>6, <1>7, <1>8, <1>9, <1>10, <1>11, <1>12 DEF ThreadStep

-----------------------------------------------------------------------------
(* A step of a command that leaves the threads alone, and of the struct *)
(* what it owns.                                                        *)
Aside == /\ UNCHANGED <<th, thr, menu>>
         /\ Struct(w') /\ w'.held = w.held /\ w'.stat = w.stat
         /\ w'.rp = w.rp /\ w'.con = w.con

LEMMA AsideLemma ==
  ASSUME IInv, Aside
  PROVE  /\ ThreadsInv' /\ Pc' = Pc
         /\ ((Pc = "none" /\ cli'.pc = "idle") => w.held \cap Four = {}) => HeldInv'
<1>1. ThreadsInv' /\ Pc' = Pc
  BY DEF IInv, Aside, ThreadsInv, Pc
<1>2. Pc = "loop" => InHand(w', th[thr].fn)
  BY DEF IInv, Aside, HeldInv, InHand
<1>3. ((Pc = "none" /\ cli'.pc = "idle") => w.held \cap Four = {}) => HeldInv'
  BY <1>1, <1>2 DEF IInv, Aside, HeldInv
<1> QED BY <1>1, <1>3

LEMMA WriteLemma ==
  ASSUME Struct(w), NEW p, DOMAIN p \subseteq Params,
         w' = [f \in DOMAIN w |-> IF f \in DOMAIN p THEN p[f] ELSE w[f]]
  PROVE  Struct(w') /\ w'.held = w.held /\ w'.stat = w.stat /\ w'.act = w.act
         /\ w'.rp = w.rp /\ w'.con = w.con
<1>1. \A f \in Fields \ Params : w'[f] = w[f]
  BY DEF Struct
<1>2. DOMAIN w' = Fields
  BY DEF Struct
<1>3. /\ w'.held = w.held /\ w'.stat = w.stat /\ w'.act = w.act /\ w'.rp = w.rp
      /\ w'.con = w.con /\ w'.ob = w.ob /\ w'.ib = w.ib /\ w'.mb = w.mb /\ w'.acc = w.acc
  BY <1>1 DEF Fields, Params
<1> QED BY <1>2, <1>3 DEF Struct, Owned

LEMMA ParametersLemma ==
  ASSUME NEW act \in Commanded, NEW p \in Parameters(act)
  PROVE  DOMAIN p \subseteq Params
<1>1. CASE act \in {"direct_io", "direct_io_tx_lat", "direct_io_rx_lat"}
  <2>1. p \in [wr : BOOLEAN, sz : BOOLEAN, obsz : BOOLEAN]
    BY Zenon, <1>1 DEF Parameters, ObdioCmd
  <2> QED BY <2>1 DEF Params
<1>2. CASE act \in {"dma_tx", "dma_tx_num", "dma_tx_lat", "dma_rx_lat"}
  <2>1. p \in [wr : BOOLEAN, kbuf : BOOLEAN, sz : BOOLEAN]
    BY Zenon, <1>2 DEF Parameters, DmaCmd, DmaNumCmd, DmaTxLatCmd, DmaRxLatCmd
  <2> QED BY <2>1 DEF Params
<1>3. CASE act \in {"dma_rx_gp", "reg_scrub"}
  <2>1. p \in [sz : BOOLEAN]
    BY Zenon, <1>3 DEF Parameters, DmaRxGoodputCmd, RegScrubCmd
  <2> QED BY <2>1 DEF Params
<1>4. CASE act = "alloc_ibwin"
  BY <1>4 DEF Parameters, IBAllocCmd, Params
<1>5. CASE act \in {"message_tx", "message_tx_oh", "message_rx", "free_ibwin"}
  <2>1. p = <<>>
    BY <1>5 DEF Parameters, MsgTxCmd, MsgRxCmd, IBDeallocCmd
  <2> QED BY <2>1
<1> QED BY <1>1, <1>2, <1>3, <1>4, <1>5 DEF Commanded, Actions, InLoop

(* A command is given to a worker whose thread is in its loop, or that has *)
(* none.                                                                   *)
LEMMA ReadyLemma ==
  ASSUME IInv, Ready
  PROVE  /\ cli.pc = "idle" /\ started = 0 /\ w.act # "shutdown_worker"
         /\ \/ Pc = "none" /\ w.stat = 0 /\ w.held \cap Four = {}
            \/ Pc \in {"top", "loop", "park"} /\ w.stat = 1 /\ Told
            \/ Pc \in {"sleep", "woken"} /\ w.stat = 2 /\ Told
<1>1. cli.pc = "idle" /\ Pc # "posted"
  BY DEF IInv, ThreadsInv, Ready, Idle, At, Pc
<1> QED BY <1>1 DEF IInv, Phase, Told, ActInv, HeldInv

LEMMA StartLemma ==
  ASSUME IInv, ThreadCmd PROVE IInv'
<1>1. Pc = "none" /\ w.stat = 0 /\ w.held \cap Four = {} /\ started = 0 /\ cli.pc = "idle"
  BY ReadyLemma DEF ThreadCmd
<1>2. \A x \in Threads : th[x].pc = "none"
  BY <1>1 DEF IInv, ThreadsInv, Pc
<1>3. PICK new \in BOOLEAN :
        LET t == CHOOSE x \in Threads : th[x].pc = "none"
            s == InitWorkerInfo(w)
            h == IF new THEN [s EXCEPT !.mine = TRUE, !.held = @ \cup {"mp"}] ELSE s
        IN  \/ w' = s /\ new /\ UNCHANGED <<th, cli, thr>>
            \/ w' = h /\ UNCHANGED <<th, cli, thr>>
            \/ /\ w' = h
               /\ th' = [th EXCEPT ![t] = [NoThread EXCEPT !.pc = "start", !.own = new]]
               /\ thr' = t
               /\ cli' = [pc |-> "started"]
  BY Zenon DEF ThreadCmd, StartWorker
<1> DEFINE t == CHOOSE x \in Threads : th[x].pc = "none"
           s == InitWorkerInfo(w)
           h == IF new THEN [s EXCEPT !.mine = TRUE, !.held = @ \cup {"mp"}] ELSE s
           New(r) == /\ DOMAIN r = Fields /\ r.stat = 0 /\ r.act = "no_action" /\ r.ib = "none"
                     /\ r.held \cap Four = {}
<1>4. t \in Threads
  BY <1>2, WorkerConstants
<1>5. New(s)
  BY <1>1 DEF InitWorkerInfo, Fields
<1>6. New(h) /\ (new => "mp" \in h.held)
  BY <1>5 DEF Fields, Four
<1> HIDE DEF t, s, h
<1>7. New(w')
  BY Zenon, <1>3, <1>5, <1>6 DEF t, s, h
<1>8. Struct(w')
  BY <1>7 DEF Struct, Owned, Four
<1>9. started' = started /\ menu' = menu
  BY DEF ThreadCmd
<1>10. CASE UNCHANGED <<th, cli, thr>>
  <2>1. ThreadsInv' /\ Pc' = "none"
    BY <1>1, <1>10 DEF IInv, ThreadsInv, Pc
  <2> QED BY <1>1, <1>7, <1>8, <1>9, <1>10, <2>1 DEF IInv, Phase, ActInv, HeldInv, Actions
<1>11. CASE /\ w' = h /\ thr' = t /\ cli' = [pc |-> "started"]
            /\ th' = [th EXCEPT ![t] = [NoThread EXCEPT !.pc = "start", !.own = new]]
  <2>1. th'[t].pc = "start" /\ th'[t].own = new
    BY <1>4, <1>11 DEF IInv, ThreadsInv, NoThread
  <2>2. [NoThread EXCEPT !.pc = "start", !.own = new] \in [pc : Steps, fn : Actions, own : BOOLEAN]
    BY Zenon DEF NoThread, Steps, Actions
  <2>3. ThreadsInv'
    BY <1>2, <1>4, <1>11, <2>2 DEF IInv, ThreadsInv
  <2>4. Pc' = "start" /\ cli'.pc = "started"
    BY <1>11, <2>1 DEF Pc
  <2>5. Phase' /\ ActInv'
    BY <1>1, <1>7, <1>9, <2>4 DEF IInv, Phase, ActInv, Actions
  <2>6. HeldInv'
    BY <1>6, <1>8, <1>11, <2>1, <2>4 DEF HeldInv
  <2> QED BY <2>3, <2>5, <2>6 DEF IInv
<1> QED BY <1>3, <1>10, <1>11 DEF t, s, h

(* The commands kill, halt and move. *)
LEMMA KillLemma ==
  ASSUME IInv,
         \/ KillCmd \/ KillAction \/ KillStop \/ KillRun \/ KillJoin \/ KillRelease
         \/ HaltCmd \/ MoveCmd
  PROVE  IInv'
<1>1. CASE KillCmd
  <2>1. Aside /\ started' = started /\ w' = w
    BY <1>1 DEF KillCmd, Aside, IInv, HeldInv
  <2>2. cli'.pc = IF w.stat = 0 THEN "release" ELSE "kill"
    BY <1>1 DEF KillCmd
  <2>3. cli'.pc \in {"release", "kill"}
    BY <2>2
  <2>4. ThreadsInv' /\ HeldInv' /\ Pc' = Pc
    BY <2>1, <2>3, AsideLemma
  <2>5. Phase' /\ ActInv'
    BY SMTT(60), <1>1, <2>1, <2>2, <2>4, ReadyLemma DEF KillCmd, Phase, Told, IInv, ActInv, Aside
  <2> QED BY <2>4, <2>5 DEF IInv
<1>2. CASE KillAction
  <2>1. /\ cli.pc = "kill" /\ cli'.pc = "stop" /\ UNCHANGED <<run, started, th, thr, menu>>
        /\ w' = [w EXCEPT !.act = "shutdown_worker"]
    BY <1>2 DEF KillAction
  <2>2. Aside /\ w'.act = "shutdown_worker"
    BY <2>1 DEF Aside, IInv, HeldInv, Struct, Owned, Fields
  <2>3. ThreadsInv' /\ HeldInv' /\ Pc' = Pc
    BY <2>1, <2>2, AsideLemma
  <2>4. Phase' /\ ActInv'
    BY <2>1, <2>2, <2>3 DEF Aside, IInv, Phase, Told, ActInv, Actions
  <2> QED BY <2>3, <2>4 DEF IInv
<1>3. CASE KillStop
  <2>1. /\ cli.pc = "stop" /\ cli'.pc = "run" /\ UNCHANGED <<run, started, th, thr, menu>>
        /\ w' = [w EXCEPT !.stop = 2]
    BY <1>3 DEF KillStop
  <2>2. Aside /\ w'.act = w.act
    BY <2>1 DEF Aside, IInv, HeldInv, Struct, Owned, Fields
  <2>3. ThreadsInv' /\ HeldInv' /\ Pc' = Pc
    BY <2>1, <2>2, AsideLemma
  <2>4. Phase' /\ ActInv'
    BY <2>1, <2>2, <2>3 DEF Aside, IInv, Phase, Told, ActInv
  <2> QED BY <2>3, <2>4 DEF IInv
<1>4. CASE KillRun
  <2>1. /\ cli.pc = "run" /\ cli'.pc = "join" /\ UNCHANGED <<w, started, th, thr, menu>>
    BY <1>4 DEF KillRun
  <2>2. Aside
    BY <2>1 DEF Aside, IInv, HeldInv
  <2>3. ThreadsInv' /\ HeldInv' /\ Pc' = Pc
    BY <2>1, <2>2, AsideLemma
  <2>4. Phase' /\ ActInv'
    BY <2>1, <2>2, <2>3 DEF Aside, IInv, Phase, Told, ActInv
  <2> QED BY <2>3, <2>4 DEF IInv
<1>5. CASE KillJoin
  <2>1. /\ cli.pc = "join" /\ cli'.pc = "release" /\ Pc = "gone" /\ thr' = thr
        /\ th' = [th EXCEPT ![thr] = NoThread] /\ UNCHANGED <<w, run, started, menu>>
    BY <1>5 DEF KillJoin, At, Pc
  <2>2. NoThread \in [pc : Steps, fn : Actions, own : BOOLEAN] /\ NoThread.pc = "none"
    BY DEF NoThread, Steps, Actions
  <2>3. ThreadsInv' /\ Pc' = "none"
    BY <2>1, <2>2 DEF IInv, ThreadsInv, Pc
  <2>4. w.stat = 0 /\ started = 0 /\ w.held \cap Four = {}
    BY <2>1 DEF IInv, Phase, HeldInv
  <2>5. w.act # "shutdown_worker"
    BY <2>1 DEF IInv, ActInv
  <2>6. Phase' /\ ActInv'
    BY <2>1, <2>3, <2>4, <2>5 DEF IInv, Phase, ActInv
  <2>7. HeldInv'
    BY <2>1, <2>3 DEF IInv, HeldInv
  <2> QED BY <2>3, <2>6, <2>7 DEF IInv
<1>6. CASE KillRelease
  <2>1. /\ cli.pc = "release" /\ cli'.pc = "idle" /\ UNCHANGED <<run, started, th, thr, menu>>
        /\ w' \in Release(w)
    BY <1>6 DEF KillRelease, Idle
  <2>2. Pc = "none" /\ started = 0
    BY <2>1 DEF IInv, Phase, Told
  <2>3. Struct(w') /\ w'.stat = 0 /\ w'.act = "no_action" /\ w'.held \cap Four = {}
    BY <2>1, ReleaseLemma DEF IInv, HeldInv
  <2>4. ThreadsInv' /\ Pc' = "none"
    BY <2>1, <2>2 DEF IInv, ThreadsInv, Pc
  <2>5. Phase' /\ ActInv' /\ HeldInv'
    BY <2>1, <2>2, <2>3, <2>4 DEF IInv, Phase, ActInv, HeldInv, Actions
  <2> QED BY <2>4, <2>5 DEF IInv
<1>7. CASE HaltCmd
  <2>1. /\ UNCHANGED <<run, started, th, cli, thr, menu>> /\ w' = [w EXCEPT !.stop = 2]
    BY <1>7 DEF HaltCmd
  <2>2. Aside /\ w'.act = w.act
    BY <2>1 DEF Aside, IInv, HeldInv, Struct, Owned, Fields
  <2>3. (Pc = "none" /\ cli.pc = "idle") => w.held \cap Four = {}
    BY DEF IInv, HeldInv
  <2>4. ThreadsInv' /\ HeldInv' /\ Pc' = Pc
    BY <2>1, <2>2, <2>3, AsideLemma
  <2>5. Phase' /\ ActInv'
    BY <2>1, <2>2, <2>4 DEF Aside, IInv, Phase, Told, ActInv
  <2> QED BY <2>4, <2>5 DEF IInv
<1>8. CASE MoveCmd
  <2>1. /\ w.stat # 0 /\ cli'.pc = "post" /\ UNCHANGED <<run, started, th, thr, menu>>
        /\ w' = [w EXCEPT !.stop = 0]
    BY <1>8 DEF MoveCmd
  <2>2. Aside /\ w'.act = w.act
    BY <2>1 DEF Aside, IInv, HeldInv, Struct, Owned, Fields
  <2>3. ThreadsInv' /\ HeldInv' /\ Pc' = Pc
    BY <2>1, <2>2, AsideLemma
  <2>4. /\ started = 0 /\ w.act # "shutdown_worker"
        /\ \/ Pc \in {"top", "loop", "park"} /\ w.stat = 1
           \/ Pc \in {"sleep", "woken"} /\ w.stat = 2
    <3>1. Ready
      BY <1>8 DEF MoveCmd
    <3> QED BY <2>1, <3>1, ReadyLemma
  <2>5. Phase' /\ ActInv'
    BY <2>1, <2>2, <2>3, <2>4 DEF Aside, IInv, Phase, Told, ActInv
  <2> QED BY <2>3, <2>5 DEF IInv
<1> QED BY <1>1, <1>2, <1>3, <1>4, <1>5, <1>6, <1>7, <1>8

(* The commands for a halted worker. *)
LEMMA CommandLemma ==
  ASSUME IInv, Command \/ CommandAction \/ CommandWrite \/ CommandClear \/ Post PROVE IInv'
<1>1. CASE Command
  <2>1. PICK act \in menu : \E p \in Parameters(act) :
          /\ Ready /\ w.stat = 2 /\ cli' = [pc |-> "action", act |-> act, p |-> p]
          /\ UNCHANGED <<w, run, started, th, thr, menu>>
    BY <1>1 DEF Command
  <2>2. PICK p \in Parameters(act) :
          /\ Ready /\ w.stat = 2 /\ cli' = [pc |-> "action", act |-> act, p |-> p]
          /\ UNCHANGED <<w, run, started, th, thr, menu>>
    BY <2>1
  <2>3. act \in Commanded /\ DOMAIN p \subseteq Params
    BY ParametersLemma DEF IInv, ActInv
  <2>4. /\ DOMAIN cli' = {"pc", "act", "p"} /\ cli'.pc = "action"
        /\ cli'.act \in Commanded /\ DOMAIN cli'.p \subseteq Params
    BY <2>2, <2>3
  <2>5. Aside
    BY <2>2 DEF Aside, IInv, HeldInv
  <2>6. ThreadsInv' /\ HeldInv' /\ Pc' = Pc
    BY <2>4, <2>5, AsideLemma
  <2>7. started = 0 /\ Pc \in {"sleep", "woken"} /\ w.act # "shutdown_worker"
    BY <2>2, ReadyLemma
  <2>8. Phase'
    BY <2>2, <2>4, <2>6, <2>7 DEF Phase, Told
  <2>9. ActInv'
    BY <2>2, <2>4, <2>6, <2>7 DEF IInv, ActInv
  <2> QED BY <2>6, <2>8, <2>9 DEF IInv
<1>2. CASE CommandAction
  <2>1. /\ cli.pc = "action" /\ cli' = [cli EXCEPT !.pc = "write"]
        /\ w' = [w EXCEPT !.act = cli.act] /\ UNCHANGED <<run, started, th, thr, menu>>
    BY <1>2 DEF CommandAction
  <2>2. /\ DOMAIN cli = {"pc", "act", "p"} /\ cli.act \in Commanded
        /\ DOMAIN cli.p \subseteq Params
    BY <2>1 DEF IInv, ActInv
  <2>3. /\ DOMAIN cli' = {"pc", "act", "p"} /\ cli'.pc = "write"
        /\ cli'.act = cli.act /\ cli'.p = cli.p
    BY <2>1, <2>2
  <2>4. Aside /\ w'.act = cli.act
    BY <2>1 DEF Aside, IInv, HeldInv, Struct, Owned, Fields
  <2>5. ThreadsInv' /\ HeldInv' /\ Pc' = Pc
    BY <2>3, <2>4, AsideLemma
  <2>6. Phase'
    BY <2>1, <2>3, <2>4, <2>5 DEF Aside, IInv, Phase, Told
  <2>7. cli.act \in Actions /\ cli.act # "shutdown_worker"
    BY <2>2 DEF Commanded
  <2>8. ActInv'
    BY <2>1, <2>2, <2>3, <2>4, <2>7 DEF IInv, ActInv
  <2> QED BY <2>5, <2>6, <2>8 DEF IInv
<1>3. CASE CommandWrite
  <2>1. /\ cli.pc = "write" /\ cli'.pc \in {"clear", "idle"}
        /\ w' = [f \in DOMAIN w |-> IF f \in DOMAIN cli.p THEN cli.p[f] ELSE w[f]]
        /\ UNCHANGED <<run, started, th, thr, menu>>
    BY <1>3 DEF CommandWrite, Idle
  <2>2. DOMAIN cli.p \subseteq Params /\ Struct(w)
    BY <2>1 DEF IInv, ActInv, HeldInv
  <2>3. Aside /\ w'.act = w.act
    BY <2>1, <2>2, WriteLemma DEF Aside
  <2>4. Pc \in {"top", "loop", "park", "sleep", "woken"} /\ started = 0
    BY <2>1 DEF IInv, Phase, Told
  <2>5. ThreadsInv' /\ HeldInv' /\ Pc' = Pc
    BY <2>3, <2>4, AsideLemma
  <2>6. Phase' /\ ActInv'
    BY <2>1, <2>3, <2>4, <2>5 DEF Aside, IInv, Phase, Told, ActInv
  <2> QED BY <2>5, <2>6 DEF IInv
<1>4. CASE CommandClear \/ Post
  <2>1. /\ cli.pc \in {"clear", "post"} /\ cli'.pc \in {"post", "idle"}
        /\ w' = w \/ w' = [w EXCEPT !.stop = 0]
        /\ UNCHANGED <<started, th, thr, menu>>
    BY <1>4 DEF CommandClear, Post, Idle
  <2>2. Aside /\ w'.act = w.act
    BY <2>1 DEF Aside, IInv, HeldInv, Struct, Owned, Fields
  <2>3. Pc \in {"top", "loop", "park", "sleep", "woken"} /\ started = 0
    BY <2>1 DEF IInv, Phase, Told
  <2>4. ThreadsInv' /\ HeldInv' /\ Pc' = Pc
    BY <2>2, <2>3, AsideLemma
  <2>5. Phase' /\ ActInv'
    BY <2>1, <2>2, <2>3, <2>4 DEF Aside, IInv, Phase, Told, ActInv
  <2> QED BY <2>4, <2>5 DEF IInv
<1> QED BY <1>1, <1>2, <1>3, <1>4

LEMMA ReturnLemma ==
  ASSUME IInv, ThreadCmdReturn PROVE IInv'
<1>1. cli.pc = "started" /\ started > 0 /\ started' = started - 1 /\ cli'.pc = "idle"
      /\ UNCHANGED <<w, th, thr, menu>>
  BY DEF ThreadCmdReturn, Idle
<1>2. Aside
  BY <1>1 DEF Aside, IInv, HeldInv
<1>3. Pc \in {"posted", "top", "loop", "park", "sleep", "woken"} /\ started = 1
  BY <1>1 DEF IInv, Phase, Told
<1>4. ThreadsInv' /\ HeldInv' /\ Pc' = Pc
  BY <1>2, <1>3, AsideLemma
<1>5. Phase' /\ ActInv'
  BY <1>1, <1>3, <1>4 DEF IInv, Phase, Told, ActInv
<1> QED BY <1>4, <1>5 DEF IInv

-----------------------------------------------------------------------------
(* IInv is an invariant of the worker and its commands (worker_thread,       *)
(* start_worker_thread, shutdown_worker_thread and the commands of           *)
(* goodput_cli.c).                                                           *)
THEOREM Invariance == Spec => []IInv
<1>1. IInv /\ [Next]_vars => IInv'
  <2> SUFFICES ASSUME IInv, [Next]_vars PROVE IInv'
    OBVIOUS
  <2>1. CASE \E t \in Threads : \/ ThreadStep(t) \/ ThreadTransfer(t) \/ ThreadError(t)
                                \/ ThreadAccept(t) \/ ThreadDisconnect(t)
    BY <2>1, ThreadLemma
  <2>2. CASE CommandStep
    BY <2>2, ReturnLemma, KillLemma, CommandLemma DEF CommandStep
  <2>3. CASE ThreadCmd \/ KillCmd \/ HaltCmd \/ MoveCmd \/ Command
    BY <2>3, StartLemma, KillLemma, CommandLemma
  <2>4. CASE UNCHANGED vars
    BY <2>4 DEF vars, IInv, ThreadsInv, Phase, Told, Pc, ActInv, HeldInv
  <2> QED BY <2>1, <2>2, <2>3, <2>4 DEF Next
<1> QED BY <1>1, InitLemma, PTL DEF Spec

(* shutdown_worker_thread and the actions: what the loop of an action works  *)
(* with is not released before the loop ends, nor a thread's master port     *)
(* handle before the thread ends.                                            *)
THEOREM StillHeldAlways == Spec => []StillHeld
<1>1. IInv => StillHeld
  <2> SUFFICES ASSUME IInv, NEW t \in Threads
               PROVE  /\ At(t, "loop") => InHand(w, th[t].fn)
                      /\ t \in Alive /\ th[t].pc # "exit" /\ th[t].own => "mp" \in w.held
    BY DEF StillHeld, InHand
  <2>1. CASE t = thr
    BY <2>1 DEF IInv, HeldInv, At, Pc, Alive
  <2>2. CASE t # thr
    BY <2>2 DEF IInv, ThreadsInv, At, Alive
  <2> QED BY <2>1, <2>2
<1> QED BY <1>1, Invariance, PTL

(* shutdown_worker_thread: without a thread and with no command under way    *)
(* the kernel holds no window, mailbox or listening socket for the worker,   *)
(* whatever its actions left behind when they failed.                        *)
THEOREM KillReleasesAlways == Spec => []KillReleases
<1>1. IInv => KillReleases
  <2> SUFFICES ASSUME IInv, Alive = {}, cli = Idle PROVE w.held \cap Four = {}
    BY DEF KillReleases, Four
  <2>1. cli.pc = "idle"
    BY DEF Idle
  <2>2. Pc \in {"none", "gone"}
    BY DEF IInv, ThreadsInv, Alive, Pc
  <2> QED BY <2>1, <2>2 DEF IInv, HeldInv
<1> QED BY <1>1, Invariance, PTL
-----------------------------------------------------------------------------
INSTANCE FiniteSetTheorems

(* start_worker_thread: whatever the commands and however they interleave    *)
(* with the threads, no two threads run on one struct worker, and stat tells *)
(* a user who may give a command whether there is one.                       *)
THEOREM OneThreadAlways == Spec => []OneThread
<1>1. IInv => OneThread
  <2> SUFFICES ASSUME IInv PROVE OneThread
    OBVIOUS
  <2>1. Alive \subseteq {thr}
    BY DEF IInv, ThreadsInv, Alive
  <2>2. IsFiniteSet({thr}) /\ Cardinality({thr}) = 1
    BY Zenon, FS_Singleton
  <2>3. Cardinality(Alive) <= 1
    BY <2>1, <2>2, FS_Subset
  <2>4. thr \in Alive <=> Pc \notin {"none", "gone"}
    BY DEF IInv, ThreadsInv, Alive, Pc
  <2>5. Ready => (w.stat = 0 <=> Alive = {})
    BY <2>1, <2>4, ReadyLemma
  <2> QED BY <2>3, <2>5 DEF OneThread
<1> QED BY <1>1, Invariance, PTL
=============================================================================
