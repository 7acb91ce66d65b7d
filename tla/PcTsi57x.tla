------------------------------ MODULE PcTsi57x ------------------------------
(***************************************************************************)
(* Port configuration of the Tsi57x switches (librio/src/Tsi57x_PC.c): two *)
(* MACs of a Tsi578.  The even port of a MAC has four lanes, or one when   *)
(* the MAC is in 1x mode; the odd port has one lane in 1x mode and none    *)
(* otherwise.  A Tsi577, whose power is switched by another register, is   *)
(* not modelled.                                                           *)
(*                                                                         *)
(* Registers: dloop (SMACX_DLOOP_CLK_SEL: mode1x, the power down bits x4   *)
(* and x1, swap, clk), lane (the inverted lanes of a MAC), regs (the       *)
(* registers of a port that power down resets: ctl is SPX_CTL, mode        *)
(* SPX_MODE, note the bit of SPX_CTL_INDEP that repeats RCS_INT_EN, rest   *)
(* whose values the others have: the port's own, those of reset, or those  *)
(* of another port), glob (GLOB_INT_ENABLE), lrto (SW_LT_CTL).             *)
(***************************************************************************)
EXTENDS PcBase

T57Macs == {0, 1}
T57Ports == {0, 1, 2, 3}
Mac(p) == p \div 2
Even(p) == p % 2 = 0
Other(p) == IF Even(p) THEN p + 1 ELSE p - 1       \* other_mac_ports[0]

T57NumLanes(hw, p) == IF hw.dloop[Mac(p)].mode1x THEN 1 ELSE IF Even(p) THEN 4 ELSE 0
T57Down(dl, p) == IF Even(p) THEN dl.x4 ELSE dl.x1 \* pwr_down_mask
T57PortLanes(hw, p) == LET f == p % 2 IN f..(f + T57NumLanes(hw, p) - 1)

T57ResetRegs ==
  [ctl |-> [dis |-> FALSE, lock |-> FALSE, en |-> TRUE, ovr |-> "none", mecs |-> FALSE],
   mode |-> [self |-> FALSE, rint |-> FALSE, mcs |-> FALSE], note |-> FALSE, rest |-> "reset"]

(* A write of the control register of a MAC.  Power down of the 4x part   *)
(* takes both ports down; what is powered down is reset, what changes its *)
(* mode or clock loses its link.                                          *)
T57WriteDloop(d, m, v) ==
  LET off == {p \in {2 * m, 2 * m + 1} : v.x4 \/ T57Down(v, p)}
      cut == IF [v EXCEPT !.x4 = FALSE, !.x1 = FALSE] # [d.hw.dloop[m] EXCEPT !.x4 = FALSE, !.x1 = FALSE]
             THEN {2 * m, 2 * m + 1} ELSE off
  IN  RegWrite(d, [d.hw EXCEPT !.dloop[m] = v, !.hit = @ \cup cut,
                     !.regs = [p \in T57Ports |-> IF p \in off THEN T57ResetRegs ELSE @[p]],
                     !.link = [p \in T57Ports |-> IF p \in off THEN Cleared(@[p]) ELSE @[p]]])
T57WriteCtl(d, p, c) ==
  RegWrite(d, [d.hw EXCEPT !.regs[p].ctl = c, !.hit = IF c.dis \/ c.lock THEN @ \cup {p} ELSE @])

(* LRTO is in units of 100 nsec, the register counts 320 nsec in 24 bits. *)
T57SetLrto(d, lrto) ==
  LET v == (lrto * 10) \div 32
  IN  RegWrite(d, [d.hw EXCEPT !.lrto = IF v > 16777215 THEN 16777215 ELSE IF v = 0 THEN 1 ELSE v])
T57GetLrto(hw) == (hw.lrto * 32) \div 10

(* rio_pc_get_config *)
T57Pc(hw, p) ==
  LET dl == hw.dloop[Mac(p)]
      n == T57NumLanes(hw, p)
      up == ~T57Down(dl, p)
      c == hw.regs[p].ctl
  IN  [avail |-> n > 0, up |-> up, ls |-> IF dl.clk < 2 THEN dl.clk ELSE 2, iseq |-> "one", fc |-> "rx",
       pw |-> CASE n = 0 -> "last" [] n = 1 -> "1x"
                [] n = 4 -> (CASE c.ovr = "none" -> "4x" [] c.ovr = "l0" -> "1x_l0" [] c.ovr = "lr" -> "1x_l2"),
       swap |-> IF Even(p) /\ dl.swap THEN "ABCD_DCBA" ELSE "none",
       xdis |-> up /\ c.dis, lock |-> up /\ c.lock, nmtc |-> up /\ c.en,
       inv |-> IF up THEN {l - (p % 2) : l \in T57PortLanes(hw, p) \cap hw.lane[Mac(p)]} ELSE {}]

(* rio_pc_get_status *)
T57Status(hw, p) ==
  LET k == hw.link[p]
      n == T57NumLanes(hw, p)
      err == "PORT_ERR" \in k.err \/ ("FAIL" \in k.err /\ hw.drop[p])
  IN  IF n = 0 \/ T57Down(hw.dloop[Mac(p)], p)
      THEN [ok |-> FALSE, pw |-> "last", err |-> FALSE, ist |-> FALSE, ost |-> FALSE]
      ELSE [ok |-> k.ok, err |-> err, ist |-> "IES" \in k.err, ost |-> "OES" \in k.err,
            pw |-> CASE ~k.ok \/ k.w = "2x" -> "last"
                     [] k.w = "l0" -> IF n = 1 THEN "1x" ELSE "1x_l0"
                     [] k.w = "lr" -> "1x_l2" [] OTHER -> k.w]

-----------------------------------------------------------------------------
(* rio_pc_set_config: checks. *)
T57AllPorts(in) ==
  LET c == in.pc[1].c
  IN  [p \in T57Ports |-> IF Even(p) \/ c.pw = "1x" THEN c ELSE NoPc(FALSE)]
T57BadAll(c) == \/ c.pw \notin PWs \/ c.pw \in {"2x", "1x_l1"} \/ c.ls >= 3
                \/ c.pw = "1x" /\ (c.swap # "none" \/ 0 \in c.inv)

T57Unsupported(c) == c.ls > 2 \/ c.pw \in {"2x", "1x_l1"}
(* A 4x port and the 1x port of its MAC. *)
T57Clash(e, o) ==
  CASE e.avail /\ e.pw # "1x" /\ o.avail -> "INVALID_PARAMETER"
    [] ~e.up /\ o.avail /\ o.up -> "INVALID_PARAMETER"
    [] e.avail /\ o.avail /\ e.ls # o.ls -> "FEATURE_NOT_SUPPORTED"
    [] e.pw \in {"1x", "1x_l0", "1x_l2"} /\ e.swap # "none" -> "FEATURE_NOT_SUPPORTED"
    [] OTHER -> "SUCCESS"

T57CheckConflict(d, in) ==
  LET s == IF in.all THEN T57AllPorts(in) ELSE ByPort(in, T57Ports)
      dup == ~in.all /\ Cardinality(DOMAIN s) # Len(in.pc)
      Check(a, p) ==
        IF T57Unsupported(s[p]) THEN Fail(a, "FEATURE_NOT_SUPPORTED")
        ELSE IF s[p].pw \notin PWs THEN Fail(a, "INVALID_PARAMETER")
        ELSE IF Even(p) /\ Other(p) \in DOMAIN s THEN [a EXCEPT !.rc = T57Clash(s[p], s[Other(p)])]
        ELSE a
      a == [RegRead(d) EXCEPT !.w = [s |-> s, saved |-> <<>>]]
  IN  IF ~in.all /\ Len(in.pc) > Cardinality(T57Ports) THEN Fail(d, "INVALID_PARAMETER")
      ELSE IF ~Ok(a) THEN a
      ELSE IF in.all THEN (IF T57BadAll(in.pc[1].c) THEN Fail(a, "FEATURE_NOT_SUPPORTED") ELSE a)
      ELSE IF Len(in.pc) >= Cardinality(T57Ports) \/ dup \/ ~(DOMAIN s \subseteq T57Ports)
      THEN Fail(a, "INVALID_PARAMETER")
      ELSE ForPorts(a, DOMAIN s, Check)

T57PortsToSkip_alone(hw, in, reset) ==
  IF in.oob \/ ~T57Status(hw, in.acc).ok THEN {} ELSE {in.acc}

(* The ports to leave alone: the one in use, and the port of its MAC that *)
(* would take it down.                                                    *)
T57PortsToSkip(hw, in, reset) ==
  IF in.oob \/ ~T57Status(hw, in.acc).ok THEN {}
  ELSE IF reset /\ Even(in.acc) THEN {in.acc} ELSE {in.acc, Other(in.acc)}

-----------------------------------------------------------------------------
(* rio_pc_set_config: the changes. *)
T57PortChange(g, p, c, cur) ==
  LET m == Mac(p)
      old == g.dloop[m]
      pwr == IF Even(p) THEN [old EXCEPT !.x4 = ~c.up] ELSE [old EXCEPT !.x1 = ~c.up]
      start == IF pwr # old /\ c.up THEN T57ResetRegs.ctl ELSE g.ctl[p]
      wide == Even(p) /\ c.up
      dl == IF ~wide THEN pwr
            ELSE [pwr EXCEPT !.mode1x = (c.pw = "1x"), !.clk = c.ls,
                             !.swap = (c.pw = "4x" /\ c.swap # "none")]
      ovr == IF ~wide THEN start.ovr
             ELSE CASE c.pw \in {"4x", "1x"} -> "none" [] c.pw = "1x_l0" -> "l0" [] OTHER -> "lr"
  IN  IF c = cur THEN g
      ELSE [g EXCEPT !.dloop[m] = dl,
              !.ctl[p] = [start EXCEPT !.dis = c.xdis, !.lock = c.lock, !.en = c.nmtc, !.ovr = ovr]]

T57LaneChange(g, p, c) ==
  LET f == p % 2
      ls == IF c.pw = "4x" THEN 0..3 ELSE {f}
      inv == IF c.pw = "4x" THEN c.inv ELSE IF 0 \in c.inv THEN {f} ELSE {}
  IN  IF c.avail /\ c.up THEN [g EXCEPT !.lane[Mac(p)] = (@ \ ls) \cup inv] ELSE g

T57ComputeChanges(d, valid) ==
  LET hw == d.hw
      P == Ascending(valid)
      g[i \in 0..Len(P)] ==
        IF i = 0 THEN [dloop |-> hw.dloop, ctl |-> [p \in T57Ports |-> hw.regs[p].ctl], lane |-> hw.lane]
        ELSE T57PortChange(g[i - 1], P[i], d.w.s[P[i]], T57Pc(hw, P[i]))
      h[i \in 0..Len(P)] == IF i = 0 THEN g[Len(P)] ELSE T57LaneChange(h[i - 1], P[i], d.w.s[P[i]])
  IN  h[Len(P)]

T57Restore_ctl(d, p, saved) ==
  Then(RegWrite(d, d.hw), LAMBDA a : IF saved.from = NONE THEN a ELSE T57WriteCtl(a, p, saved.regs.ctl))

(* Registers are saved and restored as a whole; saved[0] and saved[1] are *)
(* the buffers of the even and the odd port.  They and the flags that say *)
(* they are filled outlive a MAC: a port that was powered down gets the   *)
(* registers of a port of an earlier MAC.                                 *)
T57Restore(d, p, saved) ==
  LET v == [saved.regs EXCEPT !.rest = IF saved.from = p THEN @ ELSE "stale"]
  IN  Then(Then(RegWrite(d, d.hw),
        LAMBDA a : IF saved.from = NONE THEN a ELSE T57WriteCtl(a, p, v.ctl)),
        LAMBDA a : IF saved.from = NONE THEN a ELSE RegWrite(a, [a.hw EXCEPT !.regs[p] = v]))
T57Empty == [from |-> NONE, regs |-> T57ResetRegs]
T57Preserve(hw, p) == [from |-> p, regs |-> hw.regs[p]]

T57WriteMac(d, m, new) ==
  LET o == d.hw.dloop[m]
      n == new.dloop[m]
      lanes == d.hw.lane[m] # new.lane[m]
      both == lanes \/ [o EXCEPT !.x1 = n.x1] # n
      Masked(v) == [v EXCEPT !.x1 = TRUE, !.x4 = @ \/ both]
      Save(sv, p) == IF T57Down(o, p) THEN sv ELSE T57Preserve(d.hw, p)
      e == Save(d.w.saved[1], 2 * m)
      f == Save(d.w.saved[2], 2 * m + 1)
      a == [RegRead(d) EXCEPT !.w.saved = <<e, f>>]
      b == Then(Then(Then(a, LAMBDA x : T57WriteDloop(x, m, Masked(o))),
             LAMBDA x : T57WriteDloop(x, m, Masked(n))), LAMBDA x : T57WriteDloop(x, m, n))
      c == Then(b, LAMBDA x : IF n.x4 THEN x ELSE T57Restore(x, 2 * m, e))
      g == Then(c, LAMBDA x : IF lanes THEN RegWrite(x, [x.hw EXCEPT !.lane[m] = new.lane[m]]) ELSE x)
  IN  IF o = n /\ ~lanes THEN d
      ELSE Then(g, LAMBDA x : IF n.x1 THEN x ELSE T57Restore(x, 2 * m + 1, f))

T57SetConfig(d, in) ==
  LET a == Then(T57CheckConflict(d, in), LAMBDA x : IF in.oob THEN x ELSE RegRead(x))
      valid == DOMAIN a.w.s \ T57PortsToSkip(d.hw, in, FALSE)
      new == T57ComputeChanges(a, valid)
      orig == d.hw.regs
      Ctl(x, p) == IF new.ctl[p] = orig[p].ctl THEN x ELSE T57WriteCtl(x, p, new.ctl[p])
      One(x, m) == Then(T57WriteMac(x, m, new),
                        LAMBDA y : ForPorts(y, valid \cap {2 * m, 2 * m + 1}, Ctl))
      b == Then(a, LAMBDA x : [RegRead(x) EXCEPT !.w.saved = <<T57Empty, T57Empty>>])
  IN  IF ~Ok(b) THEN b
      ELSE Then(Then(ForPorts(b, T57Macs, One), LAMBDA x : T57SetLrto(x, in.lrto)), RegRead)

-----------------------------------------------------------------------------
(* rio_pc_reset_port: the port is power cycled.  The odd port goes down   *)
(* with the even one; its registers are saved only with preserve_config.  *)
T57ResetLp(d, p) == RegWrite(d, [d.hw EXCEPT !.lprst = @ \cup {p}])
T57ResetOne(d, p, in) ==
  LET dep == in.keep /\ Even(p)
      sv(q) == IF in.keep THEN T57Preserve(d.hw, q) ELSE T57Empty
      dl == d.hw.dloop[Mac(p)]
      off == IF Even(p) THEN [dl EXCEPT !.x4 = TRUE] ELSE [dl EXCEPT !.x1 = TRUE]
      a == IF in.keep THEN RegRead(d) ELSE d
      b == Then(a, LAMBDA x : IF in.lp THEN T57ResetLp(x, p) ELSE x)
      c == Then(b, LAMBDA x : IF in.lp /\ dep THEN T57ResetLp(x, p + 1) ELSE x)
      e == Then(Then(Then(c, RegRead), LAMBDA x : T57WriteDloop(x, Mac(p), off)),
                LAMBDA x : T57WriteDloop(x, Mac(p), dl))
      f == Then(e, LAMBDA x : T57Restore(x, p, sv(p)))
  IN  Then(f, LAMBDA x : IF dep THEN T57Restore(x, p + 1, sv(p + 1)) ELSE x)

T57ResetPort(d, in) ==
  LET S == IF in.all THEN T57Ports ELSE IF Even(in.port) THEN {in.port, in.port + 1} ELSE {in.port}
      skip == T57PortsToSkip(d.hw, in, TRUE)
      go == {p \in S \ skip : T57Pc(d.hw, p).avail /\ T57Pc(d.hw, p).up}
      a == IF in.oob THEN d ELSE RegRead(d)
  IN  IF ~(S \subseteq T57Ports) THEN Fail(d, "INVALID_PARAMETER")
      ELSE Then(Then(a, RegRead), LAMBDA x : ForPorts(x, go, LAMBDA y, p : T57ResetOne(y, p, in)))

T57ResetLinkPartner(d, p, resync) ==
  IF p \notin T57Ports THEN Fail(d, "INVALID_PARAMETER")
  ELSE Then(T57ResetLp(d, p), LAMBDA x : IF resync THEN RegWrite(x, x.hw) ELSE x)

(* rio_pc_clr_errs: as for the Tsi721, but the control symbol sent is not *)
(* the one that ends error recovery (its bytes are joined with ||).  The  *)
(* link partner's ackIDs are written too; if that fails the errors of the *)
(* port are cleared again, without the link partner (lp = "1616").        *)
T57Resync(d, p) ==
  LET a == Then(RegRead(d), LAMBDA x : IF T57Status(x.hw, p).ok THEN x ELSE Fail(x, "ERRS_NOT_CL"))
      b == Then(Then(Then(a, LAMBDA x : RegWrite(x, x.hw)), LAMBDA x : RegWrite(x, x.hw)), RegRead)
      c == Then(b, LAMBDA x : IF Answers(x.hw.link[p]) THEN RegRead(x)
                              ELSE Fail(x, "NOT_EXPECTED_RETURN_VALUE"))
  IN  Then(c, LAMBDA x : RegWrite(x, [x.hw EXCEPT !.link[p].err = @ \ {"PORT_ERR"}]))
T57ClearStatus(d, p) ==
  Then(Then(Then(RegRead(d), LAMBDA x : RegWrite(x, [x.hw EXCEPT !.link[p] = Cleared(@)])), RegRead),
       LAMBDA x : Verified(x, p))
T57ClrErrs(d, p, clrlp, lp) ==
  LET again(x) == Then(T57Resync(x, p), LAMBDA y : T57ClearStatus(y, p))
      a == Then(T57Resync(d, p), LAMBDA x : IF clrlp /\ lp = "1616" THEN again(x) ELSE x)
  IN  IF p \notin T57Ports \/ (clrlp /\ lp = "none") THEN Fail(d, "INVALID_PARAMETER")
      ELSE Then(a, LAMBDA x : T57ClearStatus(x, p))

(* Reset requests reset the device, interrupt or are ignored. *)
T57Policy(rst) == [self |-> rst = "device", rint |-> rst = "int"]
T57UpdateResetPolicy(d, p, mode) ==
  Then(Then(RegWrite(d, [d.hw EXCEPT !.regs[p].mode = mode]), RegRead),
       LAMBDA x : RegWrite(x, [x.hw EXCEPT !.regs[p].note = mode.rint]))

T57SecurePort(d, S, in) ==
  LET pol == T57Policy(in.rst)
      mode == [self |-> pol.self, rint |-> pol.rint, mcs |-> in.accept]
      One(x, p) == Then(Then(RegRead(x), LAMBDA y : T57UpdateResetPolicy(y, p, mode)),
        LAMBDA y : RegWrite(y, [y.hw EXCEPT !.regs[p].ctl.mecs = in.part]))
      Glob(x) == RegWrite(x, [x.hw EXCEPT !.glob.rcs = @ \/ mode.rint, !.glob.mcs = @ \/ mode.mcs])
  IN  IF in.rst = "last" THEN Fail(d, "INVALID_PARAMETER")
      ELSE Then(ForPorts(d, S, One),
                LAMBDA x : IF mode.rint \/ mode.mcs THEN Then(RegRead(x), Glob) ELSE x)

T57DevResetConfig(d, rst) ==
  LET pol == T57Policy(rst)
      One(x, p) == Then(Then(RegRead(x), LAMBDA y :
        T57UpdateResetPolicy(y, p, [y.hw.regs[p].mode EXCEPT !.self = pol.self, !.rint = pol.rint])), RegRead)
  IN  IF rst = "last" THEN Fail(d, "INVALID_PARAMETER")
      ELSE Then(Then(ForPorts(d, T57Ports, One), RegRead),
                LAMBDA x : RegWrite(x, [x.hw EXCEPT !.glob.rcs = pol.rint]))
=============================================================================
