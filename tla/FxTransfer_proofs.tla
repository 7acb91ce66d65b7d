-------------------------- MODULE FxTransfer_proofs -------------------------
(***************************************************************************)
(* Proofs about FxTransfer for every file length, window size, page size   *)
(* and set of faults: the received file is always a prefix of the source,  *)
(* the whole of it when the server takes it for complete, acknowledged     *)
(* bytes are on disk, and the transfer implements FileCopy.                *)
(* FxTransferInv has the invariant and the client's steps; here are the    *)
(* server's steps (rx_file), and the theorems.                             *)
(***************************************************************************)
EXTENDS FxTransferInv

(* ServerShutdown keeps the inductive invariant. *)
LEMMA ServerShutdownInd == IndInv /\ ServerShutdown => IndInv'
<1> SUFFICES ASSUME IndInv, ServerShutdown PROVE IndInv'
  OBVIOUS
<1> USE DEF IndInv
<1>1a. TypeOK'
  BY SegSizePos DEF TypeOK, ServerShutdown, serverUnchanged, clientVars, ClientMsgs, ServerMsgs
<1>1b. LoopInv'
  BY DEF TypeOK, LoopInv, ServerShutdown, serverUnchanged, clientVars
<1>2. /\ Live' <=> Live
      /\ NPend' = NPend
      /\ \A i : Pend(i)' = Pend(i)
      /\ \A b, off, n : Holds(b, off, n)' <=> Holds(b, off, n)
  BY PendFrame DEF ServerShutdown, serverUnchanged, clientVars
<1>3. PendingInv'
  BY <1>2 DEF PendingInv, LoopInv, ServerShutdown, serverUnchanged, clientVars
<1>4. ClientInv' /\ FailInv'
  BY SMTT(40), <1>2 DEF ClientInv, FailInv, PendingInv, LoopInv, Announced, ServerShutdown, serverUnchanged, clientVars
<1>5. AckInv'
  BY <1>2 DEF AckInv, TypeOK, ServerMsgs, ServerShutdown, serverUnchanged, clientVars
<1>6. DestIsPrefix'
  BY DEF DestIsPrefix, ServerShutdown, serverUnchanged, clientVars
<1> QED
  BY <1>1a, <1>1b, <1>3, <1>4, <1>5, <1>6

(* RxFileLoop keeps the inductive invariant. *)
LEMMA RxFileLoopInd == IndInv /\ RxFileLoop => IndInv'
<1> SUFFICES ASSUME IndInv, RxFileLoop PROVE IndInv'
  OBVIOUS
<1> USE DEF IndInv
<1>1. TypeOK'
  <2>1. s_open' \in BOOLEAN /\ spc' \in {"send", "closed"}
    BY Zenon DEF RxFileLoop, TypeOK
  <2> QED
    BY <2>1 DEF TypeOK, RxFileLoop, serverUnchanged, clientVars
<1>2. LoopInv'
  BY ZenonT(40) DEF LoopInv, RxFileLoop, serverUnchanged, clientVars
<1>3. /\ Live' => Live
      /\ Live' => spc' # "proc" /\ spc # "proc"
      /\ UNCHANGED <<c2s, ib_mem, src_len, rxed_msg>>
  BY DEF Live, RxFileLoop, serverUnchanged, clientVars
<1>4. ASSUME Live'
      PROVE  /\ NPend' = NPend
             /\ \A i : Pend(i)' = Pend(i)
             /\ \A b, off, n : Holds(b, off, n)' <=> Holds(b, off, n)
  BY SMTT(40), <1>3, <1>4 DEF NPend, Pend, Holds
<1>5. PendingInv'
  BY SMTT(40), <1>3, <1>4 DEF PendingInv, RxFileLoop, serverUnchanged, clientVars
<1>6. ClientInv' /\ FailInv'
  BY SMTT(40), <1>3, <1>4 DEF ClientInv, FailInv, Announced, RxFileLoop, serverUnchanged, clientVars
<1>7. AckInv'
  BY <1>3 DEF AckInv, Live, TypeOK, ServerMsgs, RxFileLoop, serverUnchanged, clientVars
<1>8. DestIsPrefix'
  BY SMTT(40) DEF DestIsPrefix, RxFileLoop, serverUnchanged, clientVars
<1> QED
  BY <1>1, <1>2, <1>5, <1>6, <1>7, <1>8

(* SendServerMsg keeps the inductive invariant. *)
LEMMA SendServerMsgInd == IndInv /\ SendServerMsg => IndInv'
<1> SUFFICES ASSUME IndInv, SendServerMsg PROVE IndInv'
  OBVIOUS
<1> USE DEF IndInv
<1>1. TypeOK'
  <2>1. s_open' \in BOOLEAN /\ spc' \in {"recv", "closed"}
    BY Zenon DEF SendServerMsg, TypeOK
  <2>2. [tot |-> bytes_rxed, named |-> has_name, abort |-> abort_flag] \in ServerMsgs
    BY DEF TypeOK, ServerMsgs
  <2>3. s2c' \in Seq(ServerMsgs)
    BY <2>2 DEF SendServerMsg, TypeOK
  <2> QED
    BY <2>1, <2>3 DEF TypeOK, SendServerMsg, serverUnchanged, clientVars
<1>2. LoopInv'
  BY ZenonT(40) DEF LoopInv, SendServerMsg, serverUnchanged, clientVars
<1>3. /\ Live' => Live
      /\ Live' => spc' # "proc" /\ spc # "proc"
      /\ UNCHANGED <<c2s, ib_mem, src_len, rxed_msg>>
  BY SMTT(40) DEF Live, SendServerMsg, serverUnchanged, clientVars
<1>4. ASSUME Live'
      PROVE  /\ NPend' = NPend
             /\ \A i : Pend(i)' = Pend(i)
             /\ \A b, off, n : Holds(b, off, n)' <=> Holds(b, off, n)
  BY <1>3, <1>4 DEF NPend, Pend, Holds
<1>5. PendingInv'
  BY SMTT(40), <1>3, <1>4 DEF PendingInv, SendServerMsg, serverUnchanged, clientVars
<1>6. ClientInv' /\ FailInv'
  BY SMTT(40), <1>3, <1>4 DEF ClientInv, FailInv, Announced, SendServerMsg, serverUnchanged, clientVars
<1>7. AckInv'
  <2> DEFINE msg == [tot |-> bytes_rxed, named |-> has_name, abort |-> abort_flag]
  <2>1. /\ s2c' = Append(s2c, msg) /\ s2c \in Seq(ServerMsgs) /\ fpos \in Nat
        /\ spc = "send" /\ spc' \in {"recv", "closed"}
        /\ UNCHANGED <<fpos, bytes_rxed, sv_fail, sv_eof, rxed_msg, tot_bytes_rxed>>
    BY SMTT(40) DEF TypeOK, SendServerMsg, serverUnchanged, clientVars
  <2>2. bytes_rxed = fpos /\ ~sv_fail /\ ~sv_eof /\ tot_bytes_rxed <= fpos
        /\ \A i \in 1..Len(s2c) : s2c[i].tot <= fpos
    BY SMTT(40), <2>1 DEF AckInv, Live
  <2>3. msg.tot <= fpos
    BY <2>1, <2>2
  <2>4. \A i \in 1..Len(s2c') : s2c'[i].tot <= fpos'
    <3> HIDE DEF msg
    <3> QED
      BY <2>1, <2>2, <2>3
  <2> QED
    BY ZenonT(40), <2>1, <2>2, <2>4 DEF AckInv, Live
<1>8. DestIsPrefix'
  BY DEF DestIsPrefix, SendServerMsg, serverUnchanged, clientVars
<1> QED
  BY <1>1, <1>2, <1>5, <1>6, <1>7, <1>8

(* ServerIoFails keeps the inductive invariant. *)
LEMMA ServerIoFailsInd == IndInv /\ ServerIoFails => IndInv'
<1> SUFFICES ASSUME IndInv, ServerIoFails PROVE IndInv'
  OBVIOUS
<1> USE DEF IndInv
<1>1. TypeOK'
  <2>1. s_open' \in BOOLEAN /\ spc' \in {"send", "closed"}
    BY Zenon DEF ServerIoFails, TypeOK
  <2> QED
    BY <2>1 DEF TypeOK, ServerIoFails, serverUnchanged, clientVars
<1>2. LoopInv'
  BY DEF LoopInv, ServerIoFails, serverUnchanged, clientVars
<1>3. /\ Live' => Live
      /\ Live' => spc' # "proc" /\ spc # "proc"
      /\ UNCHANGED <<c2s, ib_mem, src_len, rxed_msg>>
  BY SMTT(40) DEF Live, ServerIoFails, serverUnchanged, clientVars
<1>4. ASSUME Live'
      PROVE  /\ NPend' = NPend
             /\ \A i : Pend(i)' = Pend(i)
             /\ \A b, off, n : Holds(b, off, n)' <=> Holds(b, off, n)
  BY <1>3, <1>4 DEF NPend, Pend, Holds
<1>5. PendingInv'
  BY SMTT(40), <1>3, <1>4 DEF PendingInv, ServerIoFails, serverUnchanged, clientVars
<1>6. ClientInv' /\ FailInv'
  BY SMTT(40), <1>3, <1>4 DEF ClientInv, FailInv, Announced, ServerIoFails, serverUnchanged, clientVars
<1>7. AckInv'
  BY <1>3 DEF AckInv, Live, TypeOK, ServerMsgs, ServerIoFails, serverUnchanged, clientVars
<1>8. DestIsPrefix'
  BY DEF DestIsPrefix, ServerIoFails, serverUnchanged, clientVars
<1> QED
  BY <1>1, <1>2, <1>5, <1>6, <1>7, <1>8

(* ReceiveClientMsg keeps the inductive invariant. *)
LEMMA ReceiveClientMsgInd == IndInv /\ ReceiveClientMsg => IndInv'
<1> SUFFICES ASSUME IndInv, ReceiveClientMsg PROVE IndInv'
  OBVIOUS
<1> USE DEF IndInv
<1>0. c2s \in Seq(ClientMsgs) /\ c2s # <<>> /\ spc = "recv"
      /\ c2s' = Tail(c2s) /\ rxed_msg' = Head(c2s)
  BY DEF TypeOK, ReceiveClientMsg
<1>1. /\ Head(c2s) \in ClientMsgs /\ Tail(c2s) \in Seq(ClientMsgs)
      /\ Head(c2s) = c2s[1] /\ Len(c2s) \in Nat /\ Len(c2s) >= 1
      /\ Len(Tail(c2s)) = Len(c2s) - 1
      /\ \A i \in 1..Len(Tail(c2s)) : Tail(c2s)[i] = c2s[i + 1]
  BY SMTT(40), <1>0
<1>2. TypeOK' /\ LoopInv'
  <2>1. sv_fail' \in BOOLEAN /\ spc' \in {"top", "proc"}
    BY Zenon DEF ReceiveClientMsg, TypeOK
  <2> QED
    BY <1>0, <1>1, <2>1
       DEF TypeOK, LoopInv, ReceiveClientMsg, serverUnchanged, clientVars
<1>3. Live' => spc' = "proc"
  BY DEF Live, ReceiveClientMsg
<1>4. ASSUME spc' = "proc"
      PROVE  /\ Live
             /\ NPend' = NPend
             /\ \A i \in 1..NPend : Pend(i)' = Pend(i)
             /\ \A b, off, n : Holds(b, off, n)' <=> Holds(b, off, n)
  <2>1. Live
    BY <1>0 DEF Live
  <2>2. NPend' = NPend /\ NPend = Len(c2s)
    BY <1>0, <1>1, <1>4 DEF NPend
  <2>3. ASSUME NEW i \in 1..NPend PROVE Pend(i)' = Pend(i)
    <3>1. CASE i = 1
      BY <1>0, <1>1, <1>4, <3>1 DEF Pend
    <3>2. CASE i # 1
      BY <1>0, <1>1, <1>4, <2>2, <3>2 DEF Pend
    <3> QED
      BY <3>1, <3>2
  <2>4. \A b, off, n : Holds(b, off, n)' <=> Holds(b, off, n)
    BY DEF Holds, ReceiveClientMsg, serverUnchanged
  <2> QED
    BY <2>1, <2>2, <2>3, <2>4
<1>5. NPend \in Nat
  BY SMTT(40), PendType
<1>6. PendingInv'
  BY SMTT(40), <1>3, <1>4, <1>5 DEF PendingInv, ReceiveClientMsg, serverUnchanged, clientVars
<1>7. ClientInv' /\ FailInv'
  BY SMTT(40), <1>3, <1>4, <1>5 DEF ClientInv, FailInv, Announced, ReceiveClientMsg,
                          serverUnchanged, clientVars
<1>8. AckInv'
  <2>1. spc' = "proc" => ~rxed_msg'.abort /\ ~sv_fail'
    BY ZenonT(40), <1>0 DEF AckInv, ReceiveClientMsg
  <2> QED
    BY ZenonT(40), <1>3, <1>4, <2>1 DEF AckInv, ReceiveClientMsg, serverUnchanged, clientVars
<1>9. DestIsPrefix'
  BY DEF DestIsPrefix, ReceiveClientMsg, serverUnchanged
<1> QED
  BY <1>2, <1>6, <1>7, <1>8, <1>9

(* ProcessRxedMsg keeps the inductive invariant. *)
LEMMA ProcessRxedMsgInd == IndInv /\ ProcessRxedMsg => IndInv'
<1> SUFFICES ASSUME IndInv, ProcessRxedMsg PROVE IndInv'
  OBVIOUS
<1> USE DEF IndInv
<1> DEFINE now == rxed_msg.now
           idx == rxed_msg.idx
<1>1. /\ spc = "proc" /\ spc' = "top" /\ Live /\ ~sv_fail /\ bytes_rxed = fpos
      /\ fpos \in Nat /\ now \in Nat /\ idx \in 0..1 /\ ~rxed_msg.abort
      /\ rxed_msg.eof \in BOOLEAN /\ SegSize \in Nat /\ src_len \in Nat
      /\ c2s \in Seq(ClientMsgs) /\ Len(c2s) \in Nat
  BY SegSizePos, FxConstants
     DEF TypeOK, ClientMsgs, ProcessRxedMsg, Live, AckInv
<1>2. /\ UNCHANGED <<src_len, ib_mem, c2s, s2c, c_open, s_open, rxed_msg,
                     abort_flag, clientVars>>
      /\ has_name' = TRUE /\ sv_eof' = rxed_msg.eof
  BY SMTT(40) DEF ProcessRxedMsg, serverUnchanged
<1>3. /\ NPend = Len(c2s) + 1 /\ NPend' = NPend - 1
      /\ Pend(1) = rxed_msg
      /\ \A i \in 1..NPend' : Pend(i)' = Pend(i + 1)
  BY <1>1, <1>2 DEF NPend, Pend
<1>4. Holds(idx, fpos, now)
  <2>1. NPend >= 1 /\ ~Pend(1).abort
    BY <1>1, <1>3
  <2>2. Holds(Pend(1).idx, fpos, Pend(1).now)
    BY <1>1, <2>1 DEF PendingInv
  <2> QED
    BY <1>3, <2>2
<1>5. ASSUME NEW w \in 0..now
      PROVE  /\ Written(idx, w) \in [0..(fpos + w - 1) -> Int]
             /\ \A p \in 0..(fpos + w - 1) : Written(idx, w)[p] = p
  <2>1. ASSUME NEW p \in 0..(fpos + w - 1)
        PROVE  (IF p < fpos THEN dest[p] ELSE ib_mem[idx][p - fpos]) = p
    <3>1. CASE p < fpos
      BY <1>1, <3>1 DEF DestIsPrefix
    <3>2. CASE ~(p < fpos)
      <4>1. p - fpos \in Offsets /\ p - fpos < now
        BY <1>1, <1>4, <1>5, <3>2 DEF Offsets, Holds
      <4>2. ib_mem[idx][p - fpos] = fpos + (p - fpos)
        BY SMTT(40), <1>4, <4>1 DEF Holds
      <4> QED
        BY <1>1, <3>2, <4>2
    <3> QED
      BY <3>1, <3>2
  <2> QED
    BY <1>1, <2>1 DEF Written
<1>6. CASE OpenFails
  <2>1. sv_fail' = TRUE /\ UNCHANGED <<bytes_rxed, fpos, dest>>
    BY SMTT(40), <1>6 DEF OpenFails
  <2>2. ~Live'
    BY SMTT(40), <1>1, <2>1 DEF Live
  <2>3. TypeOK' /\ LoopInv' /\ AckInv' /\ DestIsPrefix'
    BY SMTT(120), <1>1, <1>2, <2>1, <2>2
       DEF TypeOK, LoopInv, AckInv, DestIsPrefix, clientVars
  <2> QED
    BY <2>2, <2>3 DEF PendingInv, ClientInv, FailInv
<1>7. ASSUME NEW w \in 0..now, WriteSegment(w) PROVE IndInv'
  <2>1. /\ sv_fail' = (w < now)
        /\ bytes_rxed' = bytes_rxed + now
        /\ fpos' = fpos + w
        /\ dest' = Written(idx, w)
    BY <1>7 DEF WriteSegment
  <2>2. DestIsPrefix'
    <3>0. fpos + now <= src_len
      BY <1>4 DEF Holds
    <3>1. w \in Nat /\ w <= now /\ fpos' <= src_len'
      <4> HIDE DEF now, idx, IndInv
      <4>1. w \in Nat /\ w <= now
        BY <1>1
      <4>2. src_len' = src_len
        BY <1>2
      <4> QED
        BY <1>1, <2>1, <3>0, <4>1, <4>2
    <3>2. fpos' - 1 = fpos + w - 1
      BY SMTT(40), <1>1, <2>1, <3>1
    <3>3. \A p \in 0..(fpos' - 1) : dest'[p] = p
      BY SMTT(40), <1>5, <2>1, <3>2
    <3> QED
      BY <3>1, <3>3 DEF DestIsPrefix
  <2>3. TypeOK'
    <3>1. sv_fail' \in BOOLEAN
      BY <2>1
    <3> QED
      BY SMTT(120), <1>1, <1>2, <1>5, <2>1, <3>1 DEF TypeOK, clientVars
  <2>4. LoopInv'
    BY <1>1, <1>2 DEF LoopInv, clientVars
  <2>5. Live' => w = now /\ ~rxed_msg.eof
    <3>1. Live' => ~sv_fail' /\ ~sv_eof'
      BY <1>1 DEF Live
    <3>2. ~sv_fail' => ~(w < now)
      BY <2>1, Zenon
    <3>3. ~sv_eof' => ~rxed_msg.eof
      BY SMTT(40), <1>2
    <3> QED
      BY <1>1, <3>1, <3>2, <3>3
  <2>6. AckInv'
    <3>1. tot_bytes_rxed \in Nat /\ s2c \in Seq(ServerMsgs)
      BY SMTT(40) DEF TypeOK
    <3>2. ASSUME NEW i \in 1..Len(s2c) PROVE s2c[i].tot <= fpos'
      <4>1. s2c[i] \in ServerMsgs
        BY <3>1
      <4>2. s2c[i].tot \in Nat
        BY <4>1 DEF ServerMsgs
      <4>3. s2c[i].tot <= fpos
        BY SMTT(40) DEF AckInv
      <4> QED
        BY <1>1, <2>1, <4>2, <4>3
    <3>3. tot_bytes_rxed' <= fpos'
      BY SMTT(40), <1>1, <1>2, <2>1, <3>1 DEF AckInv, clientVars
    <3>4. Live' => bytes_rxed' = fpos'
      BY SMTT(40), <1>1, <2>1, <2>5
    <3> QED
      BY <1>1, <1>2, <3>2, <3>3, <3>4 DEF AckInv
  <2>7. CASE ~Live'
    BY <2>2, <2>3, <2>4, <2>6, <2>7 DEF PendingInv, ClientInv, FailInv
  <2>8. CASE Live'
    <3>1. w = now /\ fpos' = fpos + now /\ ~rxed_msg.eof
      BY SMTT(40), <2>1, <2>5, <2>8
    <3>2. \A b, off, n : Holds(b, off, n)' <=> Holds(b, off, n)
      BY <1>2 DEF Holds
    <3>3. NPend \in Nat /\ NPend <= 3 /\ NPend >= 1
      BY <1>1, <1>3 DEF PendingInv
    <3>4. UNCHANGED <<fail_abort, cpc, tot_bytes_txed, bytes_txed, src_pos,
                      end_of_file, next_buff_idx, src_len, Announced>>
      BY <1>2 DEF clientVars, Announced
    <3>5. \A i \in 1..NPend : Pend(i) \in ClientMsgs
      BY PendType
    <3>6. NPend = 1 \/ NPend = 2 \/ NPend = 3
      BY SMTT(40), <3>3
    <3>7. NPend >= 2 /\ ~Pend(2).abort =>
            now = SegSize /\ Holds(Pend(2).idx, fpos + now, Pend(2).now)
      BY SMTT(40), <1>1, <1>3 DEF PendingInv
    <3>8. PendingInv'
      <4>1. \A i \in 1..NPend' : Pend(i)'.abort => i = NPend' /\ fail_abort'
        BY <1>1, <1>3, <3>3, <3>4 DEF PendingInv
      <4>2. NPend' \in 0..2
        BY SMTT(40), <1>3, <3>6
      <4>3. NPend' >= 2 => Pend(2)'.abort
        BY <1>1, <1>3, <3>6 DEF PendingInv
      <4>4. NPend' >= 1 /\ ~Pend(1)'.abort =>
              Holds(Pend(1).idx, fpos, Pend(1).now)'
        BY <1>3, <3>1, <3>2, <3>6, <3>7
      <4>5. NPend' <= 3 /\ NPend' # 3
        BY <4>2
      <4> QED
        BY SMTT(40), <4>1, <4>3, <4>4, <4>5 DEF PendingInv
    <3>9. ClientInv'
      <4> SUFFICES ASSUME ~fail_abort' PROVE ClientInv'
        BY SMTT(120) DEF ClientInv
      <4>1. NPend = 1 \/ NPend = 2
        BY SMTT(40), <1>1, <3>4, <3>6 DEF ClientInv
      <4>2. \A i \in 1..NPend : ~Pend(i).abort
        BY SMTT(40), <1>1, <3>4 DEF PendingInv
      <4>3. /\ src_pos' = tot_bytes_txed' /\ src_pos' <= src_len'
            /\ cpc' = "msg" =>
                 /\ NPend <= 1
                 /\ Holds(next_buff_idx, Announced, bytes_txed)'
                 /\ ~end_of_file' => bytes_txed' = SegSize
                 /\ bytes_txed' <= tot_bytes_txed'
        BY SMTT(40), <1>1, <3>2, <3>4 DEF ClientInv
      <4>4. CASE NPend = 1
        <5>1. Announced' = fpos' /\ NPend' = 0
          BY SMTT(40), <1>1, <1>3, <3>1, <3>4, <4>4 DEF ClientInv
        <5> QED
          BY SMTT(40), <4>3, <4>4, <5>1 DEF ClientInv
      <4>5. CASE NPend = 2
        <5>1. NPend' = 1 /\ Pend(1)' = Pend(2)
          BY SMTT(40), <1>3, <4>5
        <5>2. Announced = fpos + SegSize + Pend(2).now
              /\ now = SegSize /\ Pend(2).now \in Nat
          BY SMTT(40), <1>1, <3>4, <3>5, <3>7, <4>2, <4>5 DEF ClientInv, ClientMsgs
        <5>3. Announced' = fpos' + Pend(1)'.now
          BY SMTT(40), <1>1, <3>1, <3>4, <5>1, <5>2
        <5>4. /\ Pend(2).idx # next_buff_idx
              /\ Pend(2).eof => end_of_file /\ cpc # "msg"
              /\ ~Pend(2).eof => Pend(2).now = SegSize
          BY SMTT(40), <1>1, <3>4, <4>5 DEF ClientInv
        <5> QED
          BY SMTT(120), <3>4, <4>3, <4>5, <5>1, <5>3, <5>4 DEF ClientInv
      <4> QED
        BY SMTT(40), <4>1, <4>4, <4>5
    <3>10. FailInv'
      BY <1>1, <1>3, <3>3, <3>4 DEF FailInv
    <3> QED
      BY <2>2, <2>3, <2>4, <2>6, <3>8, <3>9, <3>10
  <2> QED
    BY <2>7, <2>8
<1> QED
  BY SMTT(40), <1>6, <1>7 DEF ProcessRxedMsg

(* Stopped keeps the inductive invariant. *)
LEMMA StoppedInd == IndInv /\ UNCHANGED vars => IndInv'
<1> SUFFICES ASSUME IndInv, UNCHANGED vars PROVE IndInv'
  BY SMTT(40)
<1> USE DEF vars, clientVars, serverVars, IndInv
<1>1. TypeOK' /\ LoopInv' /\ AckInv' /\ DestIsPrefix'
  BY SMTT(120) DEF TypeOK, LoopInv, AckInv, DestIsPrefix, Live
<1>2. /\ Live' <=> Live
      /\ NPend' = NPend
      /\ \A i : Pend(i)' = Pend(i)
      /\ \A b, off, n : Holds(b, off, n)' <=> Holds(b, off, n)
  BY SMTT(40), PendFrame
<1>3. PendingInv' /\ ClientInv' /\ FailInv'
  BY ZenonT(40), <1>2 DEF PendingInv, ClientInv, FailInv, Announced
<1> QED
  BY SMTT(40), <1>1, <1>3

(* Next keeps the inductive invariant. *)
LEMMA NextInd == IndInv /\ [Next]_vars => IndInv'
BY RxMsgFromServerInd, RxFromServerFailsInd, FillAndDmaInd,
   SendTransferMsgInd, SendAbortMsgInd, WindowFullInd, SendFileLoopInd,
   ClientSignalInd, RxFileLoopInd, SendServerMsgInd, ReceiveClientMsgInd,
   ServerIoFailsInd, ProcessRxedMsgInd, ServerShutdownInd, StoppedInd
   DEF Next, Client, Server, Stopped

(* The inductive invariant holds in every reachable state. *)
LEMMA Invariance == Spec => []IndInv
<1>1. Init => IndInv
  BY InitInd
<1>2. IndInv /\ [Next]_vars => IndInv'
  BY NextInd
<1> QED
  BY <1>1, <1>2, PTL DEF Spec

(* Every variable of send_file and rx_file stays within its type, for      *)
(* every file length and window size.                                      *)
THEOREM TypeCorrect == Spec => []TypeOK
<1>1. IndInv => TypeOK
  BY DEF IndInv
<1> QED
  BY <1>1, Invariance, PTL

(* The file rx_file writes is at every moment a prefix of the file         *)
(* send_file reads, whatever fails and however the two interleave.         *)
THEOREM PrefixAlways == Spec => []DestIsPrefix
<1>1. IndInv => DestIsPrefix
  BY DEF IndInv
<1> QED
  BY <1>1, Invariance, PTL

(* What send_file takes as acknowledged, rx_file has written. *)
THEOREM AckedAlwaysOnDisk == Spec => []AckedIsOnDisk
<1>1. IndInv => AckedIsOnDisk
  BY DEF IndInv, AckInv, AckedIsOnDisk
<1> QED
  BY <1>1, Invariance, PTL

-----------------------------------------------------------------------------
(* The message that carries end_of_file ends where the source ends: the read *)
(* it announces came back short, and the segments before it were full.       *)
WholeInv ==
  /\ end_of_file => src_pos = src_len
  /\ Live => \A i \in 1..NPend :
       Pend(i).eof /\ ~Pend(i).abort =>
         /\ i = 1 => fpos + Pend(i).now = src_len
         /\ i = 2 => fpos + SegSize + Pend(i).now = src_len
  /\ CompleteIsWhole

(* It is kept by a step after which the server has the same messages to      *)
(* process, if any.                                                          *)
LEMMA WholeFrame ==
  ASSUME WholeInv, UNCHANGED <<src_len, fpos, end_of_file, src_pos, sv_eof>>,
         sv_fail' = TRUE \/ sv_fail' = sv_fail,
         Live' => /\ Live /\ NPend' = NPend
                  /\ \A i \in 1..NPend : Pend(i)' = Pend(i)
  PROVE  WholeInv'
<1>1. CompleteIsWhole'
  BY Zenon DEF WholeInv, CompleteIsWhole
<1>2. end_of_file' => src_pos' = src_len'
  BY Zenon DEF WholeInv
<1>3. ASSUME Live', NEW i \in 1..NPend', Pend(i)'.eof, ~Pend(i)'.abort
      PROVE  /\ i = 1 => fpos' + Pend(i)'.now = src_len'
             /\ i = 2 => fpos' + SegSize + Pend(i)'.now = src_len'
  BY <1>3 DEF WholeInv
<1> QED
  BY <1>1, <1>2, <1>3 DEF WholeInv

(* The client's steps that neither read nor send keep it. *)
LEMMA WholeClient ==
  ASSUME WholeInv,
         RxMsgFromServer \/ RxFromServerFails \/ WindowFull \/ SendFileLoop
           \/ ClientSignal \/ ServerShutdown \/ UNCHANGED vars
  PROVE  WholeInv'
<1>1. UNCHANGED <<spc, c2s, rxed_msg, sv_fail, sv_eof, ib_mem, src_len, fpos,
                  end_of_file, src_pos>>
  BY Zenon DEF RxMsgFromServer, RxFromServerFails, WindowFull, SendFileLoop, ClientSignal,
         ServerShutdown, serverUnchanged, clientVars, serverVars, vars
<1>2. /\ Live' <=> Live
      /\ NPend' = NPend
      /\ \A i : Pend(i)' = Pend(i)
  BY <1>1, PendFrame
<1> QED
  BY <1>1, <1>2, WholeFrame

(* FillAndDma keeps it: a short read has come to the end of the source. *)
LEMMA WholeFill == IndInv /\ WholeInv /\ FillAndDma => WholeInv'
<1> SUFFICES ASSUME IndInv, WholeInv, FillAndDma PROVE WholeInv'
  OBVIOUS
<1>1. /\ UNCHANGED <<spc, c2s, rxed_msg, sv_fail, sv_eof, src_len, fpos>>
      /\ src_pos' = src_pos + ReadLen
      /\ end_of_file' = (ReadLen < rx_rapidio_size)
  BY DEF FillAndDma, ShortRead, serverVars
<1>2. src_pos \in Nat /\ src_len \in Nat /\ src_pos <= src_len /\ rx_rapidio_size \in Nat
  BY SegSizePos, FxConstants DEF IndInv, TypeOK, LoopInv
<1>3. end_of_file' => src_pos' = src_len'
  <2>1. end_of_file' => ReadLen < rx_rapidio_size
    BY <1>1, Zenon
  <2>2. ReadLen < rx_rapidio_size => src_pos' = src_len'
    BY <1>1, <1>2 DEF ReadLen
  <2> QED
    BY <2>1, <2>2
<1>4. /\ Live' <=> Live
      /\ NPend' = NPend
      /\ \A i : Pend(i)' = Pend(i)
  BY <1>1 DEF Live, NPend, Pend
<1>5. ASSUME Live', NEW i \in 1..NPend', Pend(i)'.eof, ~Pend(i)'.abort
      PROVE  /\ i = 1 => fpos' + Pend(i)'.now = src_len'
             /\ i = 2 => fpos' + SegSize + Pend(i)'.now = src_len'
  BY <1>1, <1>4, <1>5 DEF WholeInv
<1> QED
  BY <1>1, <1>3, <1>5 DEF WholeInv, CompleteIsWhole

(* SendTransferMsg keeps it: the announced segment ends where the client has *)
(* read to.                                                                  *)
LEMMA WholeSend == IndInv /\ WholeInv /\ SendTransferMsg => WholeInv'
<1> SUFFICES ASSUME IndInv, WholeInv, SendTransferMsg PROVE WholeInv'
  OBVIOUS
<1> DEFINE m == TransferMsg(next_buff_idx, bytes_txed)
<1>1. m \in ClientMsgs /\ m.abort = fail_abort /\ m.eof = end_of_file /\ m.now = bytes_txed
  BY DEF IndInv, TypeOK, TransferMsg, ClientMsgs
<1>2. /\ UNCHANGED <<spc, rxed_msg, sv_fail, sv_eof, ib_mem, src_len, fpos,
                     end_of_file, src_pos, bytes_txed, tot_bytes_txed>>
      /\ cpc = "msg"
  BY DEF SendTransferMsg, serverVars
<1>3. CASE UNCHANGED c2s
  BY <1>2, <1>3, PendFrame, WholeFrame
<1>4. CASE c2s' = Append(c2s, m)
  <2>1. /\ Live' <=> Live
        /\ NPend \in Nat /\ NPend' = NPend + 1
        /\ \A i : i = NPend + 1 => Pend(i)' = m
        /\ \A i \in 1..NPend : Pend(i)' = Pend(i)
    BY <1>1, <1>2, <1>4, PendAppend DEF IndInv
  <2>2. ASSUME Live', NEW i \in 1..NPend', Pend(i)'.eof, ~Pend(i)'.abort
        PROVE  /\ i = 1 => fpos' + Pend(i)'.now = src_len'
               /\ i = 2 => fpos' + SegSize + Pend(i)'.now = src_len'
    <3>1. CASE i \in 1..NPend
      BY <1>2, <2>1, <2>2, <3>1 DEF WholeInv
    <3>2. CASE i = NPend + 1
      <4>1. Pend(i)' = m /\ ~fail_abort /\ end_of_file /\ Live
        BY <1>1, <2>1, <2>2, <3>2
      <4>2. /\ src_pos = src_len /\ src_pos = tot_bytes_txed
            /\ Announced = tot_bytes_txed - bytes_txed
        BY <1>2, <4>1 DEF WholeInv, IndInv, ClientInv, Announced
      <4>3. /\ NPend <= 1
            /\ NPend = 0 => Announced = fpos
            /\ NPend = 1 => Announced = fpos + Pend(1).now /\ Pend(1).now = SegSize
        BY <1>2, <4>1 DEF IndInv, ClientInv
      <4>4. tot_bytes_txed \in Nat /\ bytes_txed \in Nat /\ fpos \in Nat /\ SegSize \in Nat
        BY SegSizePos DEF IndInv, TypeOK
      <4>5. /\ NPend = 0 => fpos + bytes_txed = src_len
            /\ NPend = 1 => fpos + SegSize + bytes_txed = src_len
        BY <4>2, <4>3, <4>4
      <4> QED
        BY <1>1, <1>2, <2>1, <3>2, <4>1, <4>5
    <3> QED
      BY <2>1, <3>1, <3>2
  <2> QED
    BY <1>2, <2>2 DEF WholeInv, CompleteIsWhole
<1> QED
  BY <1>3, <1>4 DEF SendTransferMsg

(* SendAbortMsg keeps it: an abort announces nothing. *)
LEMMA WholeAbort == IndInv /\ WholeInv /\ SendAbortMsg => WholeInv'
<1> SUFFICES ASSUME IndInv, WholeInv, SendAbortMsg PROVE WholeInv'
  OBVIOUS
<1> DEFINE m == TransferMsg(0, 0)
<1>1. m \in ClientMsgs /\ m.abort
  BY DEF IndInv, TypeOK, SendAbortMsg, TransferMsg, ClientMsgs
<1>2. UNCHANGED <<spc, rxed_msg, sv_fail, sv_eof, ib_mem, src_len, fpos,
                  end_of_file, src_pos>>
  BY DEF SendAbortMsg, serverVars
<1>3. CASE UNCHANGED c2s
  BY <1>2, <1>3, PendFrame, WholeFrame
<1>4. CASE c2s' = Append(c2s, m)
  <2>1. /\ Live' <=> Live
        /\ NPend \in Nat /\ NPend' = NPend + 1
        /\ \A i : i = NPend + 1 => Pend(i)' = m
        /\ \A i \in 1..NPend : Pend(i)' = Pend(i)
    BY <1>1, <1>2, <1>4, PendAppend DEF IndInv
  <2>2. ASSUME Live', NEW i \in 1..NPend', Pend(i)'.eof, ~Pend(i)'.abort
        PROVE  /\ i = 1 => fpos' + Pend(i)'.now = src_len'
               /\ i = 2 => fpos' + SegSize + Pend(i)'.now = src_len'
    <3>1. i \in 1..NPend
      BY <1>1, <2>1, <2>2
    <3> QED
      BY <1>2, <2>1, <2>2, <3>1 DEF WholeInv
  <2> QED
    BY <1>2, <2>2 DEF WholeInv, CompleteIsWhole
<1> QED
  BY <1>3, <1>4 DEF SendAbortMsg

(* The server's steps up to the write keep it. *)
LEMMA WholeServer ==
  ASSUME IndInv, WholeInv, RxFileLoop \/ SendServerMsg \/ ServerIoFails
  PROVE  WholeInv'
<1>1. UNCHANGED <<c2s, rxed_msg, sv_fail, sv_eof, src_len, fpos, end_of_file, src_pos>>
  BY DEF RxFileLoop, SendServerMsg, ServerIoFails, serverUnchanged, clientVars
<1>2. Live' => Live /\ spc' # "proc" /\ spc # "proc"
  BY DEF Live, RxFileLoop, SendServerMsg, ServerIoFails
<1>3. Live' => /\ Live /\ NPend' = NPend
               /\ \A i \in 1..NPend : Pend(i)' = Pend(i)
  BY <1>1, <1>2 DEF NPend, Pend
<1> QED
  BY <1>1, <1>3, WholeFrame

(* ReceiveClientMsg keeps it: the message received is the first pending one. *)
LEMMA WholeReceive == IndInv /\ WholeInv /\ ReceiveClientMsg => WholeInv'
<1> SUFFICES ASSUME IndInv, WholeInv, ReceiveClientMsg PROVE WholeInv'
  OBVIOUS
<1>1. /\ UNCHANGED <<sv_eof, src_len, fpos, end_of_file, src_pos>>
      /\ sv_fail' = TRUE \/ sv_fail' = sv_fail
      /\ Live' => spc' = "proc"
      /\ c2s \in Seq(ClientMsgs) /\ c2s # <<>> /\ spc = "recv"
      /\ c2s' = Tail(c2s) /\ rxed_msg' = Head(c2s)
  BY DEF IndInv, TypeOK, Live, ReceiveClientMsg, serverUnchanged, clientVars
<1>2. ASSUME spc' = "proc"
      PROVE  /\ Live /\ NPend' = NPend
             /\ \A i \in 1..NPend : Pend(i)' = Pend(i)
  BY <1>1, <1>2 DEF Live, NPend, Pend
<1> QED
  BY Zenon, <1>1, <1>2, WholeFrame

(* ProcessRxedMsg keeps it: the segment is written in full, or the transfer  *)
(* has failed.                                                               *)
LEMMA WholeProcess == IndInv /\ WholeInv /\ ProcessRxedMsg => WholeInv'
<1> SUFFICES ASSUME IndInv, WholeInv, ProcessRxedMsg PROVE WholeInv'
  OBVIOUS
<1>1. /\ spc = "proc" /\ spc' = "top" /\ Live /\ ~rxed_msg.abort
      /\ rxed_msg.now \in Nat /\ fpos \in Nat /\ SegSize \in Nat
      /\ c2s \in Seq(ClientMsgs)
      /\ UNCHANGED <<src_len, c2s, end_of_file, src_pos>>
      /\ sv_eof' = rxed_msg.eof
  BY SegSizePos DEF IndInv, TypeOK, AckInv, Live, ClientMsgs, ProcessRxedMsg,
     serverUnchanged, clientVars
<1>2. /\ NPend = Len(c2s) + 1 /\ NPend' = NPend - 1 /\ Len(c2s) \in Nat
      /\ Pend(1) = rxed_msg
      /\ \A i \in 1..NPend' : Pend(i)' = Pend(i + 1)
  BY <1>1 DEF NPend, Pend
<1>3. rxed_msg.eof => fpos + rxed_msg.now = src_len
  <2>1. 1 \in 1..NPend
    BY <1>2
  <2> QED
    BY <1>1, <1>2, <2>1 DEF WholeInv
<1>4. ~sv_fail' => fpos' = fpos + rxed_msg.now
  <2>1. ASSUME NEW w \in 0..rxed_msg.now, WriteSegment(w), ~sv_fail'
        PROVE  fpos' = fpos + rxed_msg.now
    <3>1. ~(w < rxed_msg.now) /\ fpos' = fpos + w
      BY <2>1, Zenon DEF WriteSegment
    <3> QED
      BY <1>1, <3>1
  <2> QED
    BY <2>1 DEF ProcessRxedMsg, OpenFails
<1>5. CompleteIsWhole'
  BY <1>1, <1>3, <1>4 DEF CompleteIsWhole
<1>6. ASSUME Live', NEW i \in 1..NPend', Pend(i)'.eof, ~Pend(i)'.abort
      PROVE  /\ i = 1 => fpos' + Pend(i)'.now = src_len'
             /\ i = 2 => fpos' + SegSize + Pend(i)'.now = src_len'
  <2>1. ~sv_fail' /\ fpos' = fpos + rxed_msg.now
    BY <1>1, <1>4, <1>6 DEF Live
  <2>2. i + 1 \in 1..NPend /\ Pend(i)' = Pend(i + 1)
    BY <1>2
  <2>3. i = 1 => rxed_msg.now = SegSize /\ fpos + SegSize + Pend(2).now = src_len
    BY SMTT(120), <1>1, <1>2, <1>6, <2>2 DEF WholeInv, IndInv, PendingInv
  <2>4. i # 2
    BY SMTT(120), <1>1, <1>2, <1>6, <2>2 DEF IndInv, PendingInv
  <2> QED
    BY <1>1, <2>1, <2>2, <2>3, <2>4
<1> QED
  BY <1>1, <1>5, <1>6 DEF WholeInv

(* A file that rx_file takes for complete is the whole source file, for      *)
(* every length of it, window size and set of failures.                      *)
THEOREM CompleteAlwaysWhole == Spec => []CompleteIsWhole
<1>1. Init => WholeInv
  BY DEF Init, WholeInv, CompleteIsWhole, NPend
<1>2. IndInv /\ WholeInv /\ [Next]_vars => WholeInv'
  BY WholeClient, WholeFill, WholeSend, WholeAbort, WholeServer, WholeReceive,
     WholeProcess DEF Next, Client, Server, Stopped
<1>3. WholeInv => CompleteIsWhole
  BY DEF WholeInv
<1> QED
  BY <1>1, <1>2, <1>3, Invariance, PTL DEF Spec

-----------------------------------------------------------------------------
(* Every step writes the next bytes, closes, or leaves FileCopy's state alone. *)
LEMMA StepRefines ==
  ASSUME IndInv, IndInv', [Next]_vars
  PROVE  [Copy!Next]_(Copy!vars)
<1> USE DEF Copy!vars
<1>1. CASE UNCHANGED <<src_len, dest, s_open>>
  BY <1>1
<1>2. CASE UNCHANGED <<src_len, dest>> /\ s_open = TRUE /\ s_open' = FALSE
  BY ZenonT(40), <1>2 DEF Copy!Next, Copy!Close
<1>3. CASE ProcessRxedMsg
  <2>1. /\ src_len' = src_len /\ s_open' = s_open /\ s_open = TRUE
        /\ fpos \in Nat /\ fpos' \in Nat /\ fpos <= fpos'
    <3>1. fpos' = fpos \/ \E w \in 0..rxed_msg.now : fpos' = fpos + w
      BY SMTT(40), <1>3 DEF ProcessRxedMsg, OpenFails, WriteSegment
    <3>2. fpos \in Nat /\ fpos' \in Nat /\ rxed_msg.now \in Nat
          /\ s_open \in BOOLEAN
      BY DEF IndInv, TypeOK, ClientMsgs
    <3>3. fpos <= fpos'
      BY <3>1, <3>2
    <3> QED
      BY <1>3, <3>2, <3>3 DEF ProcessRxedMsg, serverUnchanged, IndInv, LoopInv
  <2>2. /\ DOMAIN dest = 0..(fpos - 1)
        /\ dest' \in [0..(fpos' - 1) -> Int]
        /\ fpos' <= src_len' /\ \A p \in 0..(fpos' - 1) : dest'[p] = p
    BY ZenonT(40) DEF IndInv, TypeOK, DestIsPrefix
  <2>3. dest' = [p \in 0..(fpos' - 1) |-> p]
    BY SMTT(40), <2>2
  <2>4. fpos' \in 0..src_len
    BY SMTT(120), <2>1, <2>2, FxConstants DEF IndInv, TypeOK
  <2>5. DOMAIN dest \subseteq 0..(fpos' - 1)
    <3>1. ASSUME NEW q \in DOMAIN dest PROVE q \in 0..(fpos' - 1)
      <4>1. q \in 0..(fpos - 1)
        BY <2>2
      <4>2. q \in Int /\ q >= 0 /\ q <= fpos - 1
        BY SMTT(40), <2>1, <4>1
      <4> QED
        BY <2>1, <4>2
    <3> QED
      BY <3>1
  <2> QED
    BY ZenonT(40), <2>1, <2>3, <2>4, <2>5 DEF Copy!Next, Copy!Grow, Copy!Prefix
<1>4. CASE RxFileLoop \/ SendServerMsg \/ ServerIoFails
  <2>1. s_open \in BOOLEAN /\ s_open
    <3>1. spc # "closed"
      BY <1>4 DEF RxFileLoop, SendServerMsg, ServerIoFails
    <3>2. s_open \in BOOLEAN /\ (s_open <=> spc # "closed")
      BY DEF IndInv, TypeOK, LoopInv
    <3> QED
      BY <3>1, <3>2
  <2>2. UNCHANGED <<src_len, dest>>
    BY SMTT(120), <1>4 DEF RxFileLoop, SendServerMsg, ServerIoFails, serverUnchanged
  <2>3. s_open' = FALSE \/ s_open' = s_open
    BY <1>4 DEF RxFileLoop, SendServerMsg, ServerIoFails
  <2> QED
    BY ZenonT(40), <1>1, <1>2, <2>1, <2>2, <2>3
<1>5. CASE ReceiveClientMsg \/ ServerShutdown
  BY SMTT(40), <1>1, <1>5 DEF ReceiveClientMsg, ServerShutdown, serverUnchanged
<1>6. CASE Client \/ ClientSignal
  BY ZenonT(40), <1>1, <1>6 DEF Client, ClientSignal, RxMsgFromServer, RxFromServerFails,
     FillAndDma, SendTransferMsg, SendAbortMsg, WindowFull, SendFileLoop,
     serverVars
<1>7. CASE UNCHANGED vars
  BY <1>1, <1>7 DEF vars, serverVars
<1> QED
  BY <1>3, <1>4, <1>5, <1>6, <1>7 DEF Next, Server, Stopped

(* The transfer implements FileCopy: rx_file only ever appends the next    *)
(* bytes of the source to the file, and never after it closed its socket.  *)
THEOREM ImplementsFileCopy == Spec => RefinesFileCopy
<1>1. Init => Copy!Init
  <2> SUFFICES ASSUME Init PROVE Copy!Init
    OBVIOUS
  <2>1. dest = [p \in 0..(0 - 1) |-> p]
    BY DEF Init
  <2> QED
    BY <2>1 DEF Init, Copy!Init, Copy!Prefix
<1>2. IndInv /\ IndInv' /\ [Next]_vars => [Copy!Next]_(Copy!vars)
  BY StepRefines
<1> QED
  BY <1>1, <1>2, Invariance, PTL DEF Spec, RefinesFileCopy, Copy!Spec
=============================================================================
