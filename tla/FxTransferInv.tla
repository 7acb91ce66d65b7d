---------------------------- MODULE FxTransferInv ---------------------------
(***************************************************************************)
(* The inductive invariant of FxTransfer, and that the initial state and   *)
(* every step of the client (send_file) satisfy it.                        *)
(*                                                                         *)
(* The argument.  As long as the server can still write (Live), the        *)
(* messages it has yet to process announce segments that lie one after the *)
(* other in the source, from the file's write position on, and the window  *)
(* still holds exactly those bytes.  The client overwrites a segment only  *)
(* when fewer than two segments are unacknowledged; acknowledged bytes are *)
(* on disk, so at most one announced segment is then unprocessed, and it   *)
(* is the other one.                                                       *)
(***************************************************************************)
EXTENDS FxTransfer, TLAPS

(* The server may still write to the file. *)
Live ==
  \/ spc \in {"send", "recv", "proc"}
  \/ spc = "top" /\ ~sv_fail /\ ~sv_eof

(* The messages the server has yet to process, oldest first. *)
NPend == IF spc = "proc" THEN Len(c2s) + 1 ELSE Len(c2s)
Pend(i) ==
  IF spc = "proc" THEN (IF i = 1 THEN rxed_msg ELSE c2s[i - 1]) ELSE c2s[i]

(* The n bytes of segment b are the source's, from offset off on. *)
Holds(b, off, n) ==
  /\ n <= SegSize
  /\ off + n <= src_len
  /\ \A k \in Offsets : k < n => ib_mem[b][k] = off + k

(* Bytes announced to the server so far. *)
Announced ==
  IF cpc = "msg" THEN tot_bytes_txed - bytes_txed ELSE tot_bytes_txed

(* Pending messages: at most two segments, then perhaps an abort. *)
PendingInv ==
  Live =>
    /\ NPend <= 3
    /\ \A i \in 1..NPend : Pend(i).abort => i = NPend /\ fail_abort
    /\ NPend = 3 => Pend(3).abort
    /\ NPend >= 1 /\ ~Pend(1).abort => Holds(Pend(1).idx, fpos, Pend(1).now)
    /\ NPend >= 2 /\ ~Pend(2).abort =>
         /\ ~Pend(1).eof
         /\ Pend(1).now = SegSize
         /\ Pend(2).idx # Pend(1).idx
         /\ Holds(Pend(2).idx, fpos + SegSize, Pend(2).now)

(* A client that has not failed: it reads on where the pending messages    *)
(* end, and fills the segment the last of them does not use.               *)
ClientInv ==
  Live /\ ~fail_abort =>
    /\ NPend <= 2
    /\ src_pos = tot_bytes_txed /\ src_pos <= src_len
    /\ NPend = 0 => Announced = fpos
    /\ NPend = 1 => Announced = fpos + Pend(1).now
    /\ NPend = 2 => Announced = fpos + SegSize + Pend(2).now
    /\ NPend >= 1 => Pend(NPend).idx # next_buff_idx
    /\ \A i \in 1..NPend :
         /\ Pend(i).eof => end_of_file /\ cpc # "msg"
         /\ ~Pend(i).eof => Pend(i).now = SegSize
    /\ cpc = "msg" =>
         /\ NPend <= 1
         /\ Holds(next_buff_idx, Announced, bytes_txed)
         /\ ~end_of_file => bytes_txed = SegSize
         /\ bytes_txed <= tot_bytes_txed

(* A failing client has at most one abort message left to send. *)
FailInv ==
  Live /\ fail_abort /\ cpc \in {"send", "msg"} =>
    /\ NPend <= 2
    /\ \A i \in 1..NPend : ~Pend(i).abort

(* What the server reports, and the client believes, is on disk. *)
AckInv ==
  /\ Live => bytes_rxed = fpos
  /\ spc \in {"send", "recv", "proc"} => ~sv_fail /\ ~sv_eof
  /\ spc = "proc" => ~rxed_msg.abort
  /\ \A i \in 1..Len(s2c) : s2c[i].tot <= fpos
  /\ tot_bytes_rxed <= fpos

(* Where the two loops stand; diff (fxfr_tx.c:293) never wraps below 0. *)
LoopInv ==
  /\ cpc = "rx" => ~fail_abort /\ ~done
  /\ tot_bytes_rxed <= tot_bytes_txed
  /\ src_pos <= src_len
  /\ s_open <=> spc # "closed"

IndInv ==
  /\ TypeOK /\ LoopInv
  /\ PendingInv /\ ClientInv /\ FailInv /\ AckInv /\ DestIsPrefix

-----------------------------------------------------------------------------
(* fxfr_tx.c:145-151 always yields a usable segment size. *)
LEMMA SegSizePos == SegSize \in Nat /\ SegSize > 0
<1>1. CASE WinSize > 2 * MaxTxBuff
  BY <1>1, FxConstants DEF SegSize, MAX_TX_SEGMENTS
<1>2. CASE ~(WinSize > 2 * MaxTxBuff)
  <2> DEFINE h == WinSize \div 2
  <2>1. h \in Nat /\ h >= Page
    BY FxConstants
  <2>2. h % Page \in 0..(Page - 1)
    BY <2>1, FxConstants
  <2>3. h - (h % Page) \in Nat /\ h - (h % Page) > 0
    BY <2>1, <2>2, FxConstants
  <2> QED
    BY <1>2, <2>3, FxConstants DEF SegSize, MAX_TX_SEGMENTS
<1> QED
  BY <1>1, <1>2

(* The initial state of send_file and rx_file satisfies the invariant. *)
LEMMA InitInd == Init => IndInv
<1> SUFFICES ASSUME Init PROVE IndInv
  OBVIOUS
<1> USE SegSizePos, FxConstants
<1>1. TypeOK
  <2>1. ib_mem \in [0..1 -> [Offsets -> Int]] /\ dest \in [0..(fpos - 1) -> Int]
    BY DEF Init, Garbage
  <2>2. rxed_msg \in ClientMsgs
    BY DEF Init, NoMsg, ClientMsgs
  <2>3. c2s \in Seq(ClientMsgs) /\ s2c \in Seq(ServerMsgs)
    BY DEF Init
  <2>4. /\ src_len \in FileLens /\ cpc = "rx" /\ spc = "top"
        /\ src_pos \in Nat /\ next_buff_idx \in 0..1 /\ bytes_txed \in Nat
        /\ tot_bytes_txed \in Nat /\ tot_bytes_rxed \in Nat
        /\ rx_rapidio_size \in {0, SegSize}
        /\ bytes_rxed \in Nat /\ fpos \in Nat
    BY DEF Init
  <2>5. /\ fail_abort \in BOOLEAN /\ done \in BOOLEAN /\ end_of_file \in BOOLEAN
        /\ tx_eof \in BOOLEAN /\ rx_abort \in BOOLEAN /\ srv_exit \in BOOLEAN
        /\ c_open \in BOOLEAN /\ s_open \in BOOLEAN /\ abort_flag \in BOOLEAN
        /\ sv_fail \in BOOLEAN /\ sv_eof \in BOOLEAN /\ has_name \in BOOLEAN
    BY Zenon DEF Init
  <2> QED
    BY <2>1, <2>2, <2>3, <2>4, <2>5 DEF TypeOK
<1>2. PendingInv /\ ClientInv /\ FailInv
  BY DEF Init, PendingInv, ClientInv, FailInv, NPend, Announced
<1>3. AckInv
  BY DEF Init, AckInv
<1>4. DestIsPrefix /\ LoopInv
  BY DEF Init, DestIsPrefix, LoopInv
<1> QED
  BY <1>1, <1>2, <1>3, <1>4 DEF IndInv

(* A step that leaves the server's inbox, its window and its file alone    *)
(* leaves alone what the invariant says of them.                           *)
LEMMA PendFrame ==
  ASSUME UNCHANGED <<spc, c2s, rxed_msg, sv_fail, sv_eof, ib_mem, src_len>>
  PROVE  /\ Live' <=> Live
         /\ NPend' = NPend
         /\ \A i : Pend(i)' = Pend(i)
         /\ \A b, off, n : Holds(b, off, n)' <=> Holds(b, off, n)
BY DEF Live, NPend, Pend, Holds

(* RxMsgFromServer keeps the inductive invariant. *)
LEMMA RxMsgFromServerInd == IndInv /\ RxMsgFromServer => IndInv'
<1> SUFFICES ASSUME IndInv, RxMsgFromServer PROVE IndInv'
  OBVIOUS
<1> USE DEF IndInv
<1>1a. TypeOK'
  <2> DEFINE m == Head(s2c)
             accepted == ~AckRefused(m)
             ack == accepted /\ IsTransferAck(m)
  <2>1. m \in ServerMsgs /\ s2c' \in Seq(ServerMsgs)
    BY DEF TypeOK, RxMsgFromServer
  <2>2. /\ rx_abort' \in BOOLEAN
        /\ tot_bytes_rxed' \in Nat
    BY <2>1 DEF RxMsgFromServer, TypeOK, ServerMsgs
  <2>3. fail_abort' \in BOOLEAN /\ done' \in BOOLEAN
    BY Zenon DEF RxMsgFromServer
  <2>4. rx_rapidio_size' \in {0, SegSize}
    BY DEF RxMsgFromServer, TypeOK
  <2> QED
    BY <2>1, <2>2, <2>3, <2>4 DEF RxMsgFromServer, TypeOK, serverVars
<1>1b. LoopInv'
  <2> DEFINE m == Head(s2c)
  <2>1. m \in ServerMsgs
    BY DEF TypeOK, RxMsgFromServer
  <2>2. tot_bytes_rxed' <= tot_bytes_txed'
    BY <2>1 DEF TypeOK, LoopInv, ServerMsgs, RxMsgFromServer, AckRefused,
                IsTransferAck
  <2> QED
    BY <2>2 DEF LoopInv, RxMsgFromServer, serverVars
<1>2. /\ Live' <=> Live
      /\ NPend' = NPend
      /\ \A i : Pend(i)' = Pend(i)
      /\ \A b, off, n : Holds(b, off, n)' <=> Holds(b, off, n)
  BY PendFrame DEF RxMsgFromServer, AckRefused, IsTransferAck, serverVars
<1>3. PendingInv'
  BY <1>2 DEF PendingInv, LoopInv, RxMsgFromServer, AckRefused, IsTransferAck, serverVars
<1>4. ClientInv' /\ FailInv'
  BY <1>2 DEF ClientInv, FailInv, PendingInv, LoopInv, Announced, RxMsgFromServer, AckRefused, IsTransferAck, serverVars
<1>5. AckInv'
  BY <1>2 DEF AckInv, TypeOK, ServerMsgs, RxMsgFromServer, AckRefused, IsTransferAck, serverVars
<1>6. DestIsPrefix'
  BY DEF DestIsPrefix, RxMsgFromServer, AckRefused, IsTransferAck, serverVars
<1> QED
  BY <1>1a, <1>1b, <1>3, <1>4, <1>5, <1>6

(* RxFromServerFails keeps the inductive invariant. *)
LEMMA RxFromServerFailsInd == IndInv /\ RxFromServerFails => IndInv'
<1> SUFFICES ASSUME IndInv, RxFromServerFails PROVE IndInv'
  OBVIOUS
<1> USE DEF IndInv
<1>1a. TypeOK'
  BY SegSizePos DEF TypeOK, RxFromServerFails, serverVars, ClientMsgs, ServerMsgs
<1>1b. LoopInv'
  BY DEF TypeOK, LoopInv, RxFromServerFails, serverVars
<1>2. /\ Live' <=> Live
      /\ NPend' = NPend
      /\ \A i : Pend(i)' = Pend(i)
      /\ \A b, off, n : Holds(b, off, n)' <=> Holds(b, off, n)
  BY PendFrame DEF RxFromServerFails, serverVars
<1>3. PendingInv'
  BY <1>2 DEF PendingInv, LoopInv, RxFromServerFails, serverVars
<1>4. ClientInv' /\ FailInv'
  BY SMTT(40), <1>2 DEF ClientInv, FailInv, PendingInv, LoopInv, Announced, RxFromServerFails, serverVars
<1>5. AckInv'
  BY <1>2 DEF AckInv, TypeOK, ServerMsgs, RxFromServerFails, serverVars
<1>6. DestIsPrefix'
  BY DEF DestIsPrefix, RxFromServerFails, serverVars
<1> QED
  BY <1>1a, <1>1b, <1>3, <1>4, <1>5, <1>6

(* WindowFull keeps the inductive invariant. *)
LEMMA WindowFullInd == IndInv /\ WindowFull => IndInv'
<1> SUFFICES ASSUME IndInv, WindowFull PROVE IndInv'
  OBVIOUS
<1> USE DEF IndInv
<1>1a. TypeOK'
  BY SegSizePos DEF TypeOK, WindowFull, serverVars, ClientMsgs, ServerMsgs
<1>1b. LoopInv'
  BY DEF TypeOK, LoopInv, WindowFull, serverVars
<1>2. /\ Live' <=> Live
      /\ NPend' = NPend
      /\ \A i : Pend(i)' = Pend(i)
      /\ \A b, off, n : Holds(b, off, n)' <=> Holds(b, off, n)
  BY PendFrame DEF WindowFull, serverVars
<1>3. PendingInv'
  BY <1>2 DEF PendingInv, LoopInv, WindowFull, serverVars
<1>4. ClientInv' /\ FailInv'
  BY SMTT(40), <1>2 DEF ClientInv, FailInv, PendingInv, LoopInv, Announced, WindowFull, serverVars
<1>5. AckInv'
  BY <1>2 DEF AckInv, TypeOK, ServerMsgs, WindowFull, serverVars
<1>6. DestIsPrefix'
  BY DEF DestIsPrefix, WindowFull, serverVars
<1> QED
  BY <1>1a, <1>1b, <1>3, <1>4, <1>5, <1>6

(* SendFileLoop keeps the inductive invariant. *)
LEMMA SendFileLoopInd == IndInv /\ SendFileLoop => IndInv'
<1> SUFFICES ASSUME IndInv, SendFileLoop PROVE IndInv'
  OBVIOUS
<1> USE DEF IndInv
<1>1a. TypeOK'
  <2>1. c_open' \in BOOLEAN /\ cpc' \in {"rx", "exited"}
    BY Zenon DEF SendFileLoop, TypeOK
  <2> QED
    BY <2>1, SegSizePos DEF TypeOK, SendFileLoop, serverVars
<1>1b. LoopInv'
  BY DEF TypeOK, LoopInv, SendFileLoop, serverVars
<1>2. /\ Live' <=> Live
      /\ NPend' = NPend
      /\ \A i : Pend(i)' = Pend(i)
      /\ \A b, off, n : Holds(b, off, n)' <=> Holds(b, off, n)
  BY PendFrame DEF SendFileLoop, serverVars
<1>3. PendingInv'
  BY <1>2 DEF PendingInv, LoopInv, SendFileLoop, serverVars
<1>4. ClientInv' /\ FailInv'
  BY SMTT(40), <1>2 DEF ClientInv, FailInv, PendingInv, LoopInv, Announced, SendFileLoop, serverVars
<1>5. AckInv'
  BY SMTT(120), <1>2 DEF AckInv, TypeOK, ServerMsgs, SendFileLoop, serverVars
<1>6. DestIsPrefix'
  BY DEF DestIsPrefix, SendFileLoop, serverVars
<1> QED
  BY <1>1a, <1>1b, <1>3, <1>4, <1>5, <1>6

(* ClientSignal keeps the inductive invariant. *)
LEMMA ClientSignalInd == IndInv /\ ClientSignal => IndInv'
<1> SUFFICES ASSUME IndInv, ClientSignal PROVE IndInv'
  OBVIOUS
<1> USE DEF IndInv
<1>1a. TypeOK'
  BY SegSizePos DEF TypeOK, ClientSignal, serverVars, ClientMsgs, ServerMsgs
<1>1b. LoopInv'
  BY DEF TypeOK, LoopInv, ClientSignal, serverVars
<1>2. /\ Live' <=> Live
      /\ NPend' = NPend
      /\ \A i : Pend(i)' = Pend(i)
      /\ \A b, off, n : Holds(b, off, n)' <=> Holds(b, off, n)
  BY PendFrame DEF ClientSignal, serverVars
<1>3. PendingInv'
  BY <1>2 DEF PendingInv, LoopInv, ClientSignal, serverVars
<1>4. ClientInv' /\ FailInv'
  BY SMTT(40), <1>2 DEF ClientInv, FailInv, PendingInv, LoopInv, Announced, ClientSignal, serverVars
<1>5. AckInv'
  BY <1>2 DEF AckInv, TypeOK, ServerMsgs, ClientSignal, serverVars
<1>6. DestIsPrefix'
  BY DEF DestIsPrefix, ClientSignal, serverVars
<1> QED
  BY <1>1a, <1>1b, <1>3, <1>4, <1>5, <1>6

(* The pending messages have the type of what the client sends. *)
LEMMA PendType ==
  ASSUME TypeOK PROVE NPend \in Nat /\ \A i \in 1..NPend : Pend(i) \in ClientMsgs
<1>1. c2s \in Seq(ClientMsgs) /\ rxed_msg \in ClientMsgs
  BY DEF TypeOK
<1>2. CASE spc = "proc"
  BY <1>1, <1>2 DEF NPend, Pend
<1>3. CASE spc # "proc"
  BY <1>1, <1>3 DEF NPend, Pend
<1> QED
  BY <1>2, <1>3

(* Sending a message adds it behind the pending ones. *)
LEMMA PendAppend ==
  ASSUME TypeOK, NEW m \in ClientMsgs, c2s' = Append(c2s, m),
         UNCHANGED <<spc, rxed_msg, sv_fail, sv_eof, ib_mem, src_len>>
  PROVE  /\ Live' <=> Live
         /\ NPend \in Nat /\ NPend' = NPend + 1
         /\ \A i : i = NPend + 1 => Pend(i)' = m
         /\ \A i \in 1..NPend : Pend(i)' = Pend(i)
         /\ \A b, off, n : Holds(b, off, n)' <=> Holds(b, off, n)
<1>1. Len(c2s) \in Nat /\ Len(c2s') = Len(c2s) + 1 /\ c2s'[Len(c2s) + 1] = m
      /\ \A i \in 1..Len(c2s) : c2s'[i] = c2s[i]
  BY DEF TypeOK
<1>2. Live' <=> Live
  BY DEF Live
<1>3. NPend \in Nat /\ NPend' = NPend + 1
  BY <1>1 DEF NPend
<1>4. /\ \A i : i = NPend + 1 => Pend(i)' = m
      /\ \A i \in 1..NPend : Pend(i)' = Pend(i)
  BY <1>1 DEF NPend, Pend
<1>5. \A b, off, n : Holds(b, off, n)' <=> Holds(b, off, n)
  BY DEF Holds
<1> QED
  BY <1>2, <1>3, <1>4, <1>5

(* SendAbortMsg keeps the inductive invariant. *)
LEMMA SendAbortMsgInd == IndInv /\ SendAbortMsg => IndInv'
<1> SUFFICES ASSUME IndInv, SendAbortMsg PROVE IndInv'
  OBVIOUS
<1> USE DEF IndInv
<1> DEFINE m == TransferMsg(0, 0)
<1>1. m \in ClientMsgs /\ m.abort
  BY DEF TypeOK, SendAbortMsg, TransferMsg, ClientMsgs
<1>2. TypeOK' /\ LoopInv'
  <2>1. c2s' \in Seq(ClientMsgs)
    <3>1. c2s' = c2s \/ c2s' = Append(c2s, m)
      BY DEF SendAbortMsg
    <3>2. c2s \in Seq(ClientMsgs)
      BY DEF TypeOK
    <3> QED
      BY <1>1, <3>1, <3>2
  <2>2. tx_eof' \in BOOLEAN
    BY Zenon DEF TypeOK, SendAbortMsg
  <2>3. bytes_txed' \in Nat
    BY DEF TypeOK, SendAbortMsg
  <2> QED
    BY <2>1, <2>2, <2>3 DEF TypeOK, LoopInv, SendAbortMsg, serverVars
<1>3. AckInv' /\ DestIsPrefix' /\ FailInv' /\ ClientInv'
  BY DEF AckInv, DestIsPrefix, FailInv, ClientInv, Live, SendAbortMsg, serverVars
<1>4. PendingInv'
  <2>1. CASE UNCHANGED c2s
    BY <2>1, PendFrame DEF PendingInv, SendAbortMsg, serverVars
  <2>2. CASE c2s' = Append(c2s, m)
    <3>1. /\ Live' <=> Live
          /\ NPend \in Nat /\ NPend' = NPend + 1
          /\ \A i : i = NPend + 1 => Pend(i)' = m
          /\ \A i \in 1..NPend : Pend(i)' = Pend(i)
          /\ \A b, off, n : Holds(b, off, n)' <=> Holds(b, off, n)
      BY <1>1, <2>2, PendAppend DEF SendAbortMsg, serverVars
    <3> QED
      BY <1>1, <3>1 DEF PendingInv, FailInv, SendAbortMsg, serverVars
  <2> QED
    BY <2>1, <2>2 DEF SendAbortMsg
<1> QED
  BY <1>2, <1>3, <1>4

(* SendTransferMsg keeps the inductive invariant. *)
LEMMA SendTransferMsgInd == IndInv /\ SendTransferMsg => IndInv'
<1> SUFFICES ASSUME IndInv, SendTransferMsg PROVE IndInv'
  OBVIOUS
<1> USE DEF IndInv
<1> DEFINE m == TransferMsg(next_buff_idx, bytes_txed)
<1>1. m \in ClientMsgs /\ m.abort = fail_abort /\ m.eof = end_of_file
      /\ m.idx = next_buff_idx /\ m.now = bytes_txed
  BY DEF TypeOK, TransferMsg, ClientMsgs
<1>2. next_buff_idx' \in 0..1 /\ next_buff_idx' # next_buff_idx
  <2>1. next_buff_idx = 0 \/ next_buff_idx = 1
    BY DEF TypeOK
  <2>2. next_buff_idx' = (next_buff_idx + 1) % 2
    BY DEF SendTransferMsg, NextIdx, MAX_TX_SEGMENTS
  <2> QED
    BY <2>1, <2>2
<1>3. TypeOK' /\ LoopInv'
  <2>1. c2s' \in Seq(ClientMsgs)
    <3>1. c2s' = c2s \/ c2s' = Append(c2s, m)
      BY DEF SendTransferMsg
    <3>2. c2s \in Seq(ClientMsgs)
      BY DEF TypeOK
    <3> QED
      BY <1>1, <3>1, <3>2
  <2>2. tx_eof' \in BOOLEAN /\ fail_abort' \in BOOLEAN
    BY Zenon DEF TypeOK, SendTransferMsg
  <2>3. cpc' \in {"top", "send"}
    BY DEF SendTransferMsg
  <2> QED
    BY <1>2, <2>1, <2>2, <2>3 DEF TypeOK, LoopInv, SendTransferMsg, serverVars
<1>4. AckInv' /\ DestIsPrefix'
  BY DEF AckInv, DestIsPrefix, Live, SendTransferMsg, serverVars
<1>5. CASE UNCHANGED c2s /\ fail_abort'
  <2>1. PendingInv'
    BY <1>5, PendFrame DEF PendingInv, SendTransferMsg, serverVars
  <2>2. ClientInv' /\ FailInv'
    BY <1>5 DEF ClientInv, FailInv, SendTransferMsg
  <2> QED
    BY <1>3, <1>4, <2>1, <2>2
<1>6. CASE c2s' = Append(c2s, m) /\ UNCHANGED fail_abort
  <2>1. /\ Live' <=> Live
        /\ NPend \in Nat /\ NPend' = NPend + 1
        /\ \A i : i = NPend + 1 => Pend(i)' = m
        /\ \A i \in 1..NPend : Pend(i)' = Pend(i)
        /\ \A b, off, n : Holds(b, off, n)' <=> Holds(b, off, n)
    BY <1>1, <1>6, PendAppend DEF SendTransferMsg, serverVars
  <2>2. UNCHANGED <<fpos, tot_bytes_txed, src_pos, src_len, bytes_txed,
                    end_of_file>> /\ cpc = "msg" /\ cpc' # "msg"
    BY DEF SendTransferMsg, serverVars
  <2>3. Announced' = tot_bytes_txed /\ Announced = tot_bytes_txed - bytes_txed
    BY <2>2 DEF Announced
  <2>4. PendingInv'
    <3> SUFFICES ASSUME Live' PROVE PendingInv'
      BY DEF PendingInv
    <3>1. CASE fail_abort
      <4>1. NPend = 0 \/ NPend = 1 \/ NPend = 2
        BY <2>1, <2>2, <3>1 DEF FailInv
      <4>2. m.abort /\ fail_abort'
        BY <1>1, <1>6, <3>1
      <4>3. \A i \in 1..NPend : ~Pend(i).abort
        BY <2>1, <2>2, <3>1 DEF FailInv
      <4> HIDE DEF m
      <4> QED
        BY <2>1, <2>2, <4>1, <4>2, <4>3 DEF PendingInv
    <3>2. CASE ~fail_abort /\ NPend = 0
      BY SMTT(120), <1>1, <1>6, <2>1, <2>2, <2>3, <3>2 DEF PendingInv, ClientInv
    <3>3. CASE ~fail_abort /\ NPend = 1
      BY SMTT(120), <1>1, <1>6, <2>1, <2>2, <2>3, <3>3 DEF PendingInv, ClientInv
    <3> QED
      BY <2>1, <2>2, <3>1, <3>2, <3>3 DEF ClientInv
  <2>5. ClientInv'
    <3> SUFFICES ASSUME Live', ~fail_abort' PROVE ClientInv'
      BY DEF ClientInv
    <3>1. NPend = 0 \/ NPend = 1
      BY <1>6, <2>1, <2>2 DEF ClientInv
    <3>2. CASE NPend = 0
      BY SMTT(40), <1>1, <1>2, <1>6, <2>1, <2>2, <2>3, <3>2 DEF ClientInv, TypeOK
    <3>3. CASE NPend = 1
      BY SMTT(120), <1>1, <1>2, <1>6, <2>1, <2>2, <2>3, <3>3 DEF ClientInv, TypeOK
    <3> QED
      BY <3>1, <3>2, <3>3
  <2>6. FailInv'
    BY <1>6 DEF FailInv, SendTransferMsg
  <2> QED
    BY <1>3, <1>4, <2>4, <2>5, <2>6
<1> QED
  BY <1>5, <1>6 DEF SendTransferMsg

(* FillAndDma keeps the inductive invariant. *)
LEMMA FillAndDmaInd == IndInv /\ FillAndDma => IndInv'
<1> SUFFICES ASSUME IndInv, FillAndDma PROVE IndInv'
  OBVIOUS
<1> USE DEF IndInv
<1> DEFINE n == ReadLen
           b == next_buff_idx
<1>1. /\ rx_rapidio_size \in {0, SegSize} /\ src_pos \in Nat /\ src_len \in Nat
      /\ b \in 0..1 /\ tot_bytes_txed \in Nat /\ tot_bytes_rxed \in Nat
      /\ fpos \in Nat /\ SegSize \in Nat /\ SegSize > 0 /\ NPend \in Nat
  BY SegSizePos, FxConstants DEF TypeOK, NPend
<1>2. /\ cpc = "send" /\ cpc' = "msg" /\ ~fail_abort /\ ~end_of_file
      /\ src_pos' = src_pos + n
      /\ end_of_file' = (n < rx_rapidio_size)
      /\ tot_bytes_txed - tot_bytes_rxed < 2 * rx_rapidio_size
      /\ UNCHANGED <<src_len, spc, c2s, rxed_msg, sv_fail, sv_eof, fpos,
                     bytes_rxed, dest, s2c, s_open, tot_bytes_rxed,
                     next_buff_idx, rx_rapidio_size>>
  BY DEF FillAndDma, MayFill, ShortRead, serverVars, MAX_TX_SEGMENTS
<1>3. rx_rapidio_size = SegSize /\ tot_bytes_rxed <= fpos
  BY <1>1, <1>2 DEF AckInv, LoopInv
<1>4. n \in Nat /\ n <= SegSize /\ src_pos + n <= src_len
  BY <1>1, <1>3 DEF ReadLen, LoopInv
<1>5. /\ ib_mem' \in [0..1 -> [Offsets -> Int]]
      /\ \A c \in 0..1 : c # b => ib_mem'[c] = ib_mem[c]
  <2>1. AfterDma \in [0..1 -> [Offsets -> Int]]
    <3> DEFINE seg == [k \in Offsets |-> IF k < n THEN src_pos + k
                                                 ELSE ib_mem[b][k]]
    <3>1. ib_mem \in [0..1 -> [Offsets -> Int]]
      BY DEF TypeOK
    <3>2. ASSUME NEW k \in Offsets
          PROVE  (IF k < n THEN src_pos + k ELSE ib_mem[b][k]) \in Int
      BY <1>1, <1>4, <3>1 DEF Offsets
    <3>3. seg \in [Offsets -> Int]
      BY <3>2
    <3>4. AfterDma = [ib_mem EXCEPT ![b] = seg]
      BY DEF AfterDma
    <3> HIDE DEF seg, n, b
    <3> QED
      BY <1>1, <3>1, <3>3, <3>4
  <2>2. \A c \in 0..1 : c # b => AfterDma[c] = ib_mem[c]
    BY <1>1 DEF AfterDma, TypeOK
  <2>3. ib_mem' \in {ib_mem, AfterDma} /\ ib_mem \in [0..1 -> [Offsets -> Int]]
    BY DEF FillAndDma, TypeOK
  <2> QED
    BY <2>1, <2>2, <2>3
<1>6. TypeOK' /\ LoopInv'
  <2>1. bytes_txed' \in Nat /\ tot_bytes_txed' \in Nat
        /\ tot_bytes_txed' >= tot_bytes_txed
    BY <1>1, <1>4 DEF FillAndDma
  <2>2. fail_abort' \in BOOLEAN
    BY ZenonT(40) DEF FillAndDma, TypeOK
  <2>3. end_of_file' \in BOOLEAN
    BY <1>2
  <2>4. src_pos' \in Nat /\ src_pos' <= src_len'
    BY <1>1, <1>2, <1>4
  <2>5. UNCHANGED <<done, tx_eof, rx_abort, srv_exit, c_open, abort_flag, has_name>>
    BY DEF FillAndDma, serverVars
  <2>6. TypeOK'
    <3> HIDE DEF n, b
    <3> QED
      BY SMTT(40), <1>2, <1>5, <2>1, <2>2, <2>3, <2>4, <2>5 DEF TypeOK
  <2>7. LoopInv'
    BY <1>1, <1>2, <2>1, <2>4 DEF LoopInv
  <2> QED
    BY <2>6, <2>7
<1>7. AckInv' /\ DestIsPrefix'
  BY <1>2 DEF AckInv, DestIsPrefix, Live
<1>8. /\ Live' <=> Live
      /\ NPend' = NPend
      /\ \A i : Pend(i)' = Pend(i)
  BY <1>2 DEF Live, NPend, Pend
<1>9. ASSUME Live
      PROVE  /\ NPend <= 1
             /\ src_pos = tot_bytes_txed
             /\ NPend = 0 => tot_bytes_txed = fpos
             /\ NPend = 1 =>
                  /\ tot_bytes_txed = fpos + SegSize
                  /\ Pend(1).idx # b /\ Pend(1).idx \in 0..1
                  /\ ~Pend(1).abort /\ ~Pend(1).eof /\ Pend(1).now = SegSize
                  /\ Holds(Pend(1).idx, fpos, Pend(1).now)'
  <2>1. \A i \in 1..NPend : ~Pend(i).abort /\ ~Pend(i).eof /\ Pend(i).now = SegSize
    BY <1>2, <1>9 DEF PendingInv, ClientInv
  <2>2. NPend <= 2 /\ Announced = tot_bytes_txed /\ src_pos = tot_bytes_txed
    BY <1>2, <1>9 DEF ClientInv, Announced
  <2>3. NPend # 2
    BY <1>1, <1>2, <1>3, <1>9, <2>1, <2>2 DEF ClientInv
  <2>4. NPend = 0 => tot_bytes_txed = fpos
    BY <1>2, <1>9, <2>2 DEF ClientInv
  <2>5. ASSUME NPend = 1
        PROVE  /\ tot_bytes_txed = fpos + SegSize
               /\ Pend(1).idx # b /\ Pend(1).idx \in 0..1
               /\ Holds(Pend(1).idx, fpos, Pend(1).now)'
    <3>1. tot_bytes_txed = fpos + SegSize /\ Pend(1).idx # b
      BY <1>1, <1>2, <1>9, <2>1, <2>2, <2>5 DEF ClientInv
    <3>2. Pend(1).idx \in 0..1
      BY SMTT(40), <2>5, PendType DEF ClientMsgs
    <3>3. Holds(Pend(1).idx, fpos, Pend(1).now)
      BY SMTT(40), <1>1, <1>9, <2>1, <2>5 DEF PendingInv
    <3>4. Holds(Pend(1).idx, fpos, Pend(1).now)'
      BY ZenonT(40), <1>2, <1>5, <1>8, <3>1, <3>2, <3>3 DEF Holds
    <3> QED
      BY <3>1, <3>2, <3>4
  <2> QED
    BY <1>1, <2>1, <2>2, <2>3, <2>4, <2>5
<1>10. PendingInv'
  BY SMTT(120), <1>1, <1>2, <1>8, <1>9 DEF PendingInv
<1>11. FailInv'
  BY <1>1, <1>2, <1>8, <1>9 DEF FailInv
<1>12. ClientInv'
  <2> SUFFICES ASSUME Live', ~fail_abort' PROVE ClientInv'
    BY DEF ClientInv
  <2>1. /\ ib_mem' = AfterDma /\ bytes_txed' = n
        /\ tot_bytes_txed' = tot_bytes_txed + n
    BY DEF FillAndDma
  <2>2. Announced' = tot_bytes_txed
    BY <1>1, <1>2, <1>4, <2>1 DEF Announced
  <2>3. \A k \in Offsets : k < n => ib_mem'[b][k] = src_pos + k
    BY <1>1, <2>1 DEF AfterDma, TypeOK
  <2>4. Holds(next_buff_idx, Announced, bytes_txed)'
    BY <1>2, <1>4, <1>8, <1>9, <2>1, <2>2, <2>3 DEF Holds
  <2>5. ~end_of_file' => bytes_txed' = SegSize
    <3>1. ~end_of_file' => ~(n < rx_rapidio_size)
      BY <1>2, Zenon
    <3> QED
      BY <1>1, <1>3, <1>4, <2>1, <3>1
  <2>6. src_pos' = tot_bytes_txed' /\ src_pos' <= src_len'
    BY <1>1, <1>2, <1>4, <1>8, <1>9, <2>1
  <2>7. bytes_txed' <= tot_bytes_txed'
    BY SMTT(40), <1>1, <1>4, <2>1
  <2> HIDE DEF n, b
  <2>8. CASE NPend = 0
    BY SMTT(120), <1>1, <1>2, <1>8, <1>9, <2>2, <2>4, <2>5, <2>6, <2>7, <2>8 DEF ClientInv
  <2>9. CASE NPend = 1
    BY <1>1, <1>2, <1>8, <1>9, <2>2, <2>4, <2>5, <2>6, <2>7, <2>9 DEF ClientInv, b
  <2> QED
    BY <1>1, <1>8, <1>9, <2>8, <2>9
<1> QED
  BY <1>6, <1>7, <1>10, <1>11, <1>12

=============================================================================
