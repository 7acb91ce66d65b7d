-------------------------------- MODULE PcStd --------------------------------
(***************************************************************************)
(* Port configuration of a device known only by its standard registers     *)
(* (DSF_rio_pc_* of librio/src/RapidIO_DeviceDriverStub.c), and the probe  *)
(* that all families share.                                                *)
(*                                                                         *)
(* Registers: unavl (ports whose status says unavailable), ctl (SPX_CTL),  *)
(* ls (SPX_CTL2), idle2 (of SPX_ERR_STAT), lrto.  set_config loops over a  *)
(* list of ports that it never fills: in.stack is what that list holds.    *)
(***************************************************************************)
EXTENDS PcBase

StdPorts == {0, 1}
StdGran == 178                        \* RIO_SP_LT_CTL_MIN_GRAN, nsec per step

StdPc(hw, p) ==
  LET c == hw.ctl[p]
  IN  IF p \in hw.unavl THEN NoPc(FALSE)
      ELSE [avail |-> TRUE, up |-> TRUE, xdis |-> c.dis, lock |-> c.lock, nmtc |-> c.en, ls |-> hw.ls[p],
            pw |-> CASE c.ovr = "none" -> "4x" [] c.ovr = "l0" -> "1x_l0" [] c.ovr = "lr" -> "1x_l2" [] OTHER -> c.ovr,
            iseq |-> "dflt", fc |-> "rx", swap |-> "none", inv |-> {}]
StdGetLrto(hw) == ((hw.lrto + 1) * StdGran - 1) \div 100

(* One port: bad values end the call, with success. *)
StdBad(c) == c.pw \notin PWs \/ c.ls = LS_LAST \/ c.iseq = "last"
StdPort(d, p, c) ==
  LET ctl == [d.hw.ctl[p] EXCEPT !.dis = ~c.up \/ c.xdis, !.lock = c.lock, !.en = c.nmtc,
                !.ovr = CASE c.pw \in {"1x", "1x_l0"} -> "l0" [] c.pw = "2x" -> "2x" [] c.pw = "4x" -> "none"
                          [] OTHER -> "lr"]
      a == RegWrite(d, [d.hw EXCEPT !.ctl[p] = ctl, !.hit = IF ctl.dis \/ ctl.lock THEN @ \cup {p} ELSE @])
      b == Then(a, LAMBDA x : RegWrite(x, [x.hw EXCEPT !.idle2[p] = c.iseq \in {"two", "dflt"}, !.link[p] = Cleared(@)]))
  IN  Then(b, LAMBDA x : RegWrite(x, [x.hw EXCEPT !.ls[p] = c.ls]))

StdSetConfig(d, in) ==
  LET steps == (in.lrto * 100 + StdGran - 1) \div StdGran
      a == Then(RegWrite(d, [d.hw EXCEPT !.lrto = steps % 16777216]), LAMBDA x : RegWrite(x, x.hw))
      n == IF Len(in.stack) < Len(in.pc) THEN Len(in.stack) ELSE Len(in.pc)
      One(x, i) ==
        LET p == in.stack[i]
            r == RegRead(x)
        IN  IF x.w = "exit" \/ (~in.oob /\ p = in.acc) THEN x
            ELSE IF p \notin StdPorts THEN [x EXCEPT !.w = "exit"]
            ELSE IF ~Ok(r) \/ p \in x.hw.unavl THEN r
            ELSE IF StdBad(in.pc[i].c) THEN [r EXCEPT !.w = "exit"]
            ELSE StdPort(r, p, in.pc[i].c)
      b == Then(a, LAMBDA x : ForEach(x, [i \in 1..n |-> i], One))
  IN  IF Len(in.pc) > Cardinality(StdPorts) THEN d
      ELSE IF ~Ok(b) \/ b.w = "exit" THEN b
      ELSE IF in.stack = <<>> THEN Fail(b, "INVALID_PARAMETER") ELSE RegRead(b)

(* rio_pc_get_status writes the values it means to read: the port is      *)
(* enabled and its errors are cleared, and every available port is found  *)
(* trained on one lane.                                                   *)
StdGetStatus(d, p) ==
  LET a == RegWrite(d, [d.hw EXCEPT !.ctl[p] = [dis |-> FALSE, lock |-> FALSE, en |-> TRUE, ovr |-> "none", mecs |-> FALSE]])
  IN  Then(a, LAMBDA x : RegWrite(x, [x.hw EXCEPT !.link[p] = Cleared(@)]))
StdStatus(hw, p) == [ok |-> TRUE, pw |-> "1x_l0", err |-> FALSE, ist |-> FALSE, ost |-> FALSE]

StdDevResetConfig(d) == IF d.hw.switch THEN Fail(d, "STUBBED") ELSE d

-----------------------------------------------------------------------------

(* default_rio_pc_probe, after rio_pc_get_status (st) and rio_pc_get_config *)
(* (pc) of the port: the result is in w.                                    *)
ProbePort(d, p, st, pc) ==
  LET k == d.hw.link[p]
      Is(x, v) == [x EXCEPT !.w = v]
      a == Is(d, IF pc.pw = st.pw THEN "ok" ELSE "degr")
      b == Then(a, RegRead)
      c == Then(Then(Then(b, RegRead), LAMBDA x : RegWrite(x, x.hw)), RegRead)
  IN  IF ~Ok(b) THEN b
      ELSE IF k.err \cap {"PORT_ERR", "IES", "OES", "FAIL"} # {} THEN Is(b, "err")
      ELSE IF ~Ok(c) THEN c
      ELSE IF "MUTE" \in k.err THEN Fail(c, "SW_FAILURE")
      ELSE IF "ACKID" \in k.err THEN Is(c, "err") ELSE c
=============================================================================
