----------------------------- MODULE FxTransfer -----------------------------
(***************************************************************************)
(* One transfer of the RapidIO file transfer utility: the client           *)
(* (send_file, libfxfr/src/fxfr_tx.c) pushes a file by DMA through the two *)
(* segments of the server's inbound window, and the server thread          *)
(* (rx_file, libfxfr/src/fxfr_rx.c) writes each announced segment to disk  *)
(* and acknowledges the total.  Only a channel-manager connection, two     *)
(* FIFO streams of messages, orders the two sides.                         *)
(*                                                                         *)
(* A byte of the source file is named by its offset; Garbage is whatever   *)
(* the window held before.  File names are reduced to "the server has one  *)
(* or not": the client only ever sends dest_name.                          *)
(***************************************************************************)
EXTENDS Integers, Sequences

CONSTANTS
  FileLens,    \* lengths the source file may have
  WinSize,     \* rapidio_size announced by the server, in bytes
  MaxTxBuff,   \* MAX_TX_BUFF_SIZE
  Page,        \* 0x1000, the granule the segment size is rounded down to
  Faults       \* which failures of the environment may happen

FaultKinds == {"dma", "link", "open", "write", "signal", "shutdown"}

(* The window sizes the server's help text allows hold two pages or more. *)
ASSUME FxConstants ==
  /\ FileLens \subseteq Nat
  /\ WinSize \in Nat /\ MaxTxBuff \in Nat /\ Page \in Nat \ {0}
  /\ Page <= MaxTxBuff
  /\ 2 * Page <= WinSize
  /\ Faults \subseteq FaultKinds

MAX_TX_SEGMENTS == 2

Garbage == -1

VARIABLES
  src_len,        \* length of the source file
  \* client: struct fxfr_tx_state and the position in send_file's loop
  cpc, fail_abort, done, end_of_file, tx_eof, rx_abort, srv_exit,
  src_pos, next_buff_idx, bytes_txed, tot_bytes_txed, tot_bytes_rxed,
  rx_rapidio_size,
  \* the connection: two streams, and which ends are still open
  c2s, s2c, c_open, s_open,
  \* server: struct buffer_info and the position in rx_file's loop
  spc, abort_flag, sv_fail, sv_eof, rxed_msg, has_name, bytes_rxed,
  ib_mem,         \* the inbound window: what each segment's bytes are
  fpos, dest      \* the received file: write position, bytes written

clientVars == <<cpc, fail_abort, done, end_of_file, tx_eof, rx_abort,
                srv_exit, src_pos, next_buff_idx, bytes_txed,
                tot_bytes_txed, tot_bytes_rxed, rx_rapidio_size>>
serverVars == <<spc, abort_flag, sv_fail, sv_eof, rxed_msg, has_name,
                bytes_rxed, fpos, dest>>
vars == <<src_len, clientVars, serverVars, c2s, s2c, c_open, s_open, ib_mem>>

(* The segment size the client derives from the announced window size. *)
SegSize ==
  IF WinSize > MAX_TX_SEGMENTS * MaxTxBuff
    THEN MaxTxBuff
    ELSE (WinSize \div 2) - ((WinSize \div 2) % Page)

Offsets == 0..(SegSize - 1)

NoMsg == [idx |-> 0, now |-> 0, eof |-> FALSE, abort |-> TRUE]

(* init_info, prep_info_for_xfer.  tx_msg comes from malloc and is read    *)
(* before it is first written, so its end_of_file may be anything.         *)
Init ==
  /\ src_len \in FileLens
  /\ cpc = "rx" /\ fail_abort = FALSE /\ done = FALSE /\ end_of_file = FALSE
  /\ tx_eof \in BOOLEAN /\ rx_abort = FALSE /\ srv_exit = FALSE
  /\ src_pos = 0 /\ next_buff_idx = 0 /\ bytes_txed = 0
  /\ tot_bytes_txed = 0 /\ tot_bytes_rxed = 0 /\ rx_rapidio_size = 0
  /\ c2s = <<>> /\ s2c = <<>> /\ c_open = TRUE /\ s_open = TRUE
  /\ spc = "top" /\ abort_flag = FALSE /\ sv_fail = FALSE /\ sv_eof = FALSE
  /\ rxed_msg = NoMsg /\ has_name = FALSE /\ bytes_rxed = 0
  /\ ib_mem = [b \in 0..1 |-> [k \in Offsets |-> Garbage]]
  /\ fpos = 0 /\ dest = [p \in 0..(-1) |-> Garbage]

-----------------------------------------------------------------------------
(* The client. *)

(* rx_msg_from_server, process_msg_from_server: a message arrived. *)
IsTransferAck(m) == m.tot # 0 \/ m.named

AckRefused(m) ==
  IF IsTransferAck(m) THEN m.tot > tot_bytes_txed \/ m.tot = 0
                      ELSE m.abort

RxMsgFromServer ==
  /\ cpc = "rx" /\ s2c # <<>>
  /\ LET m == Head(s2c)
         accepted == ~AckRefused(m)
     IN  /\ rx_abort' = m.abort
         /\ fail_abort' = ~accepted
         /\ tot_bytes_rxed' = IF accepted /\ IsTransferAck(m)
                                THEN m.tot ELSE tot_bytes_rxed
         /\ done' = (accepted /\ IsTransferAck(m)
                       /\ m.tot = tot_bytes_txed /\ end_of_file)
         /\ rx_rapidio_size' = IF accepted /\ ~IsTransferAck(m)
                                 THEN SegSize ELSE rx_rapidio_size
  /\ s2c' = Tail(s2c)
  /\ cpc' = "send"
  /\ UNCHANGED <<src_len, end_of_file, tx_eof, srv_exit, src_pos,
                 next_buff_idx, bytes_txed, tot_bytes_txed, serverVars,
                 c2s, c_open, s_open, ib_mem>>

(* rx_msg_from_server: the receive fails, because the server closed the    *)
(* connection (whatever it had still queued may be gone) or the link broke.*)
RxFromServerFails ==
  /\ cpc = "rx"
  /\ ~s_open \/ "link" \in Faults
  /\ done' = tx_eof
  /\ fail_abort' = ~tx_eof
  /\ rx_abort' = (~tx_eof \/ rx_abort)
  /\ cpc' = "send"
  /\ UNCHANGED <<src_len, end_of_file, tx_eof, srv_exit, src_pos,
                 next_buff_idx, bytes_txed, tot_bytes_txed, tot_bytes_rxed,
                 rx_rapidio_size, serverVars, c2s, s2c, c_open, s_open,
                 ib_mem>>

(* send_msgs_to_server: the condition of its loop. *)
MayFill ==
  /\ ~fail_abort /\ ~done /\ ~end_of_file
  /\ tot_bytes_txed - tot_bytes_rxed < MAX_TX_SEGMENTS * rx_rapidio_size

(* fill_dma_buffer: the bytes one read() returns. *)
ReadLen ==
  IF src_len - src_pos < rx_rapidio_size
    THEN src_len - src_pos ELSE rx_rapidio_size

(* Faulty variant: a full segment is taken for the last one. *)
ShortOrFullRead == ReadLen <= rx_rapidio_size

(* fill_dma_buffer: the end of the file is seen by a short read. *)
ShortRead == ReadLen < rx_rapidio_size

(* The inbound window once bytes of the source at src_pos are DMAed into   *)
(* segment next_buff_idx.                                                  *)
AfterDma ==
  [ib_mem EXCEPT ![next_buff_idx] =
     [k \in Offsets |-> IF k < ReadLen THEN src_pos + k
                                       ELSE ib_mem[next_buff_idx][k]]]

(* fill_dma_buffer, then send_dma_buffer. *)
FillAndDma ==
  /\ cpc = "send" /\ MayFill
  /\ end_of_file' = ShortRead
  /\ src_pos' = src_pos + ReadLen
  /\ \/ /\ ib_mem' = AfterDma
        /\ bytes_txed' = ReadLen
        /\ tot_bytes_txed' = tot_bytes_txed + ReadLen
        /\ UNCHANGED fail_abort
     \/ /\ "dma" \in Faults /\ ReadLen > 0
        /\ ib_mem' \in {ib_mem, AfterDma}
        /\ bytes_txed' = 0
        /\ fail_abort' = TRUE
        /\ UNCHANGED tot_bytes_txed
  /\ cpc' = "msg"
  /\ UNCHANGED <<src_len, done, tx_eof, rx_abort, srv_exit, next_buff_idx,
                 tot_bytes_rxed, rx_rapidio_size, serverVars, c2s, s2c,
                 c_open, s_open>>

(* send_transfer_msg: tx_msg is filled in before the send, which may fail. *)
SendFails == ~s_open \/ "link" \in Faults

NextIdx == (next_buff_idx + 1) % MAX_TX_SEGMENTS

TransferMsg(b, n) ==
  [idx |-> b, now |-> n, eof |-> end_of_file, abort |-> fail_abort]

SendTransferMsg ==
  /\ cpc = "msg"
  /\ tx_eof' = end_of_file
  /\ \/ /\ c2s' = Append(c2s, TransferMsg(next_buff_idx, bytes_txed))
        /\ UNCHANGED fail_abort
     \/ /\ SendFails
        /\ fail_abort' = TRUE
        /\ UNCHANGED c2s
  /\ next_buff_idx' = NextIdx
  /\ cpc' = IF fail_abort' THEN "top" ELSE "send"
  /\ UNCHANGED <<src_len, done, end_of_file, rx_abort, srv_exit, src_pos,
                 bytes_txed, tot_bytes_txed, tot_bytes_rxed,
                 rx_rapidio_size, serverVars, s2c, c_open, s_open, ib_mem>>

(* send_msgs_to_server on a failed transfer: tell the server to give up,   *)
(* unless the failure came from it.                                        *)
SendAbortMsg ==
  /\ cpc = "send" /\ fail_abort
  /\ IF rx_abort
       THEN UNCHANGED <<bytes_txed, tx_eof, c2s>>
       ELSE /\ bytes_txed' = 0
            /\ tx_eof' = end_of_file
            /\ \/ c2s' = Append(c2s, TransferMsg(0, 0))
               \/ SendFails /\ UNCHANGED c2s
  /\ cpc' = "top"
  /\ UNCHANGED <<src_len, fail_abort, done, end_of_file, rx_abort, srv_exit,
                 src_pos, next_buff_idx, tot_bytes_txed, tot_bytes_rxed,
                 rx_rapidio_size, serverVars, s2c, c_open, s_open, ib_mem>>

(* send_msgs_to_server has nothing (more) to send. *)
WindowFull ==
  /\ cpc = "send" /\ ~fail_abort /\ ~MayFill
  /\ cpc' = "top"
  /\ UNCHANGED <<src_len, fail_abort, done, end_of_file, tx_eof, rx_abort,
                 srv_exit, src_pos, next_buff_idx, bytes_txed,
                 tot_bytes_txed, tot_bytes_rxed, rx_rapidio_size,
                 serverVars, c2s, s2c, c_open, s_open, ib_mem>>

(* send_file: another round, or cleanup_all and return fail_abort. *)
SendFileLoop ==
  /\ cpc = "top"
  /\ IF srv_exit \/ fail_abort \/ done
       THEN cpc' = "exited" /\ c_open' = FALSE
       ELSE cpc' = "rx" /\ UNCHANGED c_open
  /\ UNCHANGED <<src_len, fail_abort, done, end_of_file, tx_eof, rx_abort,
                 srv_exit, src_pos, next_buff_idx, bytes_txed,
                 tot_bytes_txed, tot_bytes_rxed, rx_rapidio_size,
                 serverVars, c2s, s2c, s_open, ib_mem>>

(* srv_sig_handler: SIGINT, SIGTERM or SIGUSR1. *)
ClientSignal ==
  /\ "signal" \in Faults /\ ~srv_exit /\ cpc # "exited"
  /\ srv_exit' = TRUE
  /\ UNCHANGED <<src_len, cpc, fail_abort, done, end_of_file, tx_eof,
                 rx_abort, src_pos, next_buff_idx, bytes_txed,
                 tot_bytes_txed, tot_bytes_rxed, rx_rapidio_size,
                 serverVars, c2s, s2c, c_open, s_open, ib_mem>>

Client ==
  \/ RxMsgFromServer \/ RxFromServerFails \/ FillAndDma \/ SendTransferMsg
  \/ SendAbortMsg \/ WindowFull \/ SendFileLoop

-----------------------------------------------------------------------------
(* The server thread. *)

serverUnchanged == UNCHANGED <<src_len, clientVars, ib_mem>>

(* rx_file: the condition of the loop, then the release of the socket. *)
RxFileLoop ==
  /\ spc = "top"
  /\ IF abort_flag \/ sv_fail \/ sv_eof
       THEN spc' = "closed" /\ s_open' = FALSE
       ELSE spc' = "send" /\ UNCHANGED s_open
  /\ UNCHANGED <<abort_flag, sv_fail, sv_eof, rxed_msg, has_name,
                 bytes_rxed, fpos, dest, c2s, s2c, c_open>>
  /\ serverUnchanged

(* send_server_msg, with the test of *abort_flag that follows it. *)
SendServerMsg ==
  /\ spc = "send"
  /\ s2c' = Append(s2c, [tot |-> bytes_rxed, named |-> has_name,
                         abort |-> abort_flag])
  /\ IF abort_flag THEN spc' = "closed" /\ s_open' = FALSE
                   ELSE spc' = "recv" /\ UNCHANGED s_open
  /\ UNCHANGED <<abort_flag, sv_fail, sv_eof, rxed_msg, has_name,
                 bytes_rxed, fpos, dest, c2s, c_open>>
  /\ serverUnchanged

(* receive_client_msg, and the test of fail_abort in rx_file. *)
ReceiveClientMsg ==
  /\ spc = "recv" /\ c2s # <<>>
  /\ rxed_msg' = Head(c2s)
  /\ c2s' = Tail(c2s)
  /\ IF rxed_msg'.abort
       THEN sv_fail' = TRUE /\ spc' = "top"
       ELSE spc' = "proc" /\ UNCHANGED sv_fail
  /\ UNCHANGED <<abort_flag, sv_eof, has_name, bytes_rxed, fpos, dest, s2c,
                 c_open, s_open>>
  /\ serverUnchanged

(* Faulty variant: a receive from a client that is gone is not ended. *)
ServerSendFails ==
  /\ spc = "send"
  /\ ~c_open \/ "link" \in Faults
  /\ spc' = "closed" /\ s_open' = FALSE
  /\ UNCHANGED <<abort_flag, sv_fail, sv_eof, rxed_msg, has_name,
                 bytes_rxed, fpos, dest, c2s, s2c, c_open>>
  /\ serverUnchanged

(* A send to, or a receive from, a client that is gone ends the loop. *)
ServerIoFails ==
  /\ spc \in {"send", "recv"}
  /\ ~c_open \/ "link" \in Faults
  /\ spc' = "closed" /\ s_open' = FALSE
  /\ UNCHANGED <<abort_flag, sv_fail, sv_eof, rxed_msg, has_name,
                 bytes_rxed, fpos, dest, c2s, s2c, c_open>>
  /\ serverUnchanged

(* Faulty variant: the segment's offset in the window is lost. *)
WrittenFromBase(b, w) ==
  [p \in 0..(fpos + w - 1) |->
     IF p < fpos THEN dest[p] ELSE ib_mem[0][p - fpos]]

(* write(): the file once the first w bytes of segment b are added to it. *)
Written(b, w) ==
  [p \in 0..(fpos + w - 1) |->
     IF p < fpos THEN dest[p] ELSE ib_mem[b][p - fpos]]

(* process_rxed_msg.  A write that falls short still counts in full in     *)
(* bytes_rxed; it also ends the transfer before that total is ever sent.   *)
OpenFails ==
  /\ "open" \in Faults /\ ~has_name
  /\ sv_fail' = TRUE
  /\ UNCHANGED <<bytes_rxed, fpos, dest>>

(* Faulty variant: the transfer goes on after a short write. *)
WriteSegmentUnchecked(w) ==
  /\ w = rxed_msg.now \/ "write" \in Faults
  /\ sv_fail' = FALSE
  /\ bytes_rxed' = bytes_rxed + rxed_msg.now
  /\ fpos' = fpos + w
  /\ dest' = Written(rxed_msg.idx, w)

WriteSegment(w) ==
  /\ w = rxed_msg.now \/ "write" \in Faults
  /\ sv_fail' = (w < rxed_msg.now)
  /\ bytes_rxed' = bytes_rxed + rxed_msg.now
  /\ fpos' = fpos + w
  /\ dest' = Written(rxed_msg.idx, w)

ProcessRxedMsg ==
  /\ spc = "proc"
  /\ OpenFails \/ \E w \in 0..rxed_msg.now : WriteSegment(w)
  /\ has_name' = TRUE
  /\ sv_eof' = rxed_msg.eof
  /\ spc' = "top"
  /\ UNCHANGED <<abort_flag, rxed_msg, c2s, s2c, c_open, s_open>>
  /\ serverUnchanged

(* fxfr_server_shutdown sets all_must_die, rx_file's abort_flag. *)
ServerShutdown ==
  /\ "shutdown" \in Faults /\ ~abort_flag /\ spc # "closed"
  /\ abort_flag' = TRUE
  /\ UNCHANGED <<spc, sv_fail, sv_eof, rxed_msg, has_name, bytes_rxed, fpos,
                 dest, c2s, s2c, c_open, s_open>>
  /\ serverUnchanged

Server ==
  \/ RxFileLoop \/ SendServerMsg \/ ReceiveClientMsg \/ ServerIoFails
  \/ ProcessRxedMsg

(* Both sides have returned from send_file and rx_file. *)
Finished == cpc = "exited" /\ spc = "closed"

Stopped == Finished /\ UNCHANGED vars

Next ==
  \/ Client \/ ClientSignal
  \/ Server \/ ServerShutdown
  \/ Stopped

(* A thread that the scheduler runs gets on with its loop, unless it is in *)
(* a receive that has nothing to return: that a broken link may end the    *)
(* receive (RxFromServerFails, ServerIoFails) is never relied upon.        *)
Fairness ==
  /\ WF_vars(Client /\ (cpc = "rx" => s2c # <<>> \/ ~s_open))
  /\ WF_vars(Server /\ (spc = "recv" => c2s # <<>> \/ ~c_open))

Spec == Init /\ [][Next]_vars

FairSpec == Spec /\ Fairness

-----------------------------------------------------------------------------
(* Properties. *)

ClientMsgs == [idx : 0..1, now : Nat, eof : BOOLEAN, abort : BOOLEAN]
ServerMsgs == [tot : Nat, named : BOOLEAN, abort : BOOLEAN]

(* Every variable of client, server and connection keeps its C type; the   *)
(* segment index stays inside buffers[MAX_TX_SEGMENTS].                    *)
TypeOK ==
  /\ src_len \in FileLens
  /\ cpc \in {"rx", "send", "msg", "top", "exited"}
  /\ fail_abort \in BOOLEAN /\ done \in BOOLEAN /\ end_of_file \in BOOLEAN
  /\ tx_eof \in BOOLEAN /\ rx_abort \in BOOLEAN /\ srv_exit \in BOOLEAN
  /\ src_pos \in Nat /\ next_buff_idx \in 0..1 /\ bytes_txed \in Nat
  /\ tot_bytes_txed \in Nat /\ tot_bytes_rxed \in Nat
  /\ rx_rapidio_size \in {0, SegSize}
  /\ c2s \in Seq(ClientMsgs) /\ s2c \in Seq(ServerMsgs)
  /\ c_open \in BOOLEAN /\ s_open \in BOOLEAN
  /\ spc \in {"top", "send", "recv", "proc", "closed"}
  /\ abort_flag \in BOOLEAN /\ sv_fail \in BOOLEAN /\ sv_eof \in BOOLEAN
  /\ rxed_msg \in ClientMsgs /\ has_name \in BOOLEAN
  /\ bytes_rxed \in Nat /\ fpos \in Nat
  /\ ib_mem \in [0..1 -> [Offsets -> Int]]
  /\ dest \in [0..(fpos - 1) -> Int]

(* Whatever fails and however client and server interleave, the received   *)
(* file is at every moment a prefix of the source: the client never DMAs   *)
(* over a segment the server has not yet written out (fxfr_tx.c:296), and  *)
(* the server writes segments in the order they were filled.               *)
DestIsPrefix ==
  /\ fpos <= src_len
  /\ \A p \in 0..(fpos - 1) : dest[p] = p

(* A byte the client takes as acknowledged (tot_bytes_rxed) is in the      *)
(* server's file, although process_rxed_msg counts a short write in full.  *)
AckedIsOnDisk == tot_bytes_rxed <= fpos

(* A file that rx_file takes for complete (end_of_file without a failure)  *)
(* is the whole source file, the empty file and files of a whole number of *)
(* segments included, whatever was interrupted, lost or late.              *)
CompleteIsWhole == sv_eof /\ ~sv_fail => fpos = src_len

(* Neither side waits for the other for ever: send_file and rx_file both   *)
(* return, with any failure of the list at any moment.                     *)
Termination == <>Finished

Copy == INSTANCE FileCopy WITH conn_open <- s_open

(* The transfer implements the abstract FileCopy: the file only grows, by  *)
(* the next bytes of the source, and never after the socket is closed.     *)
RefinesFileCopy == Copy!Spec

-----------------------------------------------------------------------------
(* What the documentation says and the code does not do. *)

(* fxfr_tx.c:76-78 documents done as "Transfer successfull completion".    *)
SuccessMeansCopied == cpc = "exited" /\ done => fpos = src_len

(* fxfr_tx.c:129-131, on the test that ends a transfer from an             *)
(* acknowledgement: "This clause is never true, as the server closes the   *)
(* connection on receipt of a message with end_of_file set."               *)
DoneClauseNeverTrue == [][RxMsgFromServer => ~done']_vars
=============================================================================
