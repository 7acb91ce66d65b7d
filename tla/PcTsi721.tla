------------------------------ MODULE PcTsi721 ------------------------------
(***************************************************************************)
(* Port configuration of the Tsi721 bridge (librio/src/Tsi721_PC.c), an    *)
(* endpoint with the one port 0.                                           *)
(*                                                                         *)
(* Registers: boot (SRBOOT_CMPL and PCBOOT_CMPL of DEVCTL), ctl (SP_CTL),  *)
(* ls (the enabled speed of SP_CTL2, LS_LAST for none or several), swap    *)
(* and self (lane swap and self reset of PLM_IMP_SPEC_CTL), mode           *)
(* (SR_RST_MODE of DEVCTL), rint and rpw (EM_RST_INT_EN, EM_RST_PW_EN),    *)
(* filt (maintenance packets are filtered), lrto (SP_LT_CTL), fresh (the   *)
(* ackIDs are in step).                                                    *)
(***************************************************************************)
EXTENDS PcBase

(* reg_lswap and lswap are inverse on the swaps of the header. *)
T721Swaps == {"none", "ABCD_BADC", "ABCD_CDAB", "ABCD_DCBA"}

(* rio_pc_get_config *)
T721Pc(hw) ==
  IF ~hw.boot THEN NoPc(TRUE)
  ELSE [avail |-> TRUE, up |-> TRUE, ls |-> hw.ls, iseq |-> "one", fc |-> "rx",
        pw |-> CASE hw.ctl.ovr = "none" -> "4x" [] hw.ctl.ovr = "2x" -> "2x"
                 [] hw.ctl.ovr = "l0" -> "1x_l0" [] hw.ctl.ovr = "lr" -> "1x_l2",
        xdis |-> hw.ctl.dis, lock |-> hw.ctl.lock, nmtc |-> hw.ctl.en, swap |-> hw.swap, inv |-> {}]

(* rio_pc_get_status *)
T721Status(hw) ==
  LET k == hw.link[0]
      err == "PORT_ERR" \in k.err \/ ("FAIL" \in k.err /\ hw.drop[0])
  IN  IF ~hw.boot THEN [ok |-> FALSE, pw |-> "last", err |-> FALSE, ist |-> FALSE, ost |-> FALSE]
      ELSE [ok |-> k.ok, err |-> err, ist |-> "IES" \in k.err, ost |-> "OES" \in k.err,
            pw |-> IF ~k.ok THEN "last"
                   ELSE CASE k.w = "l0" -> "1x_l0" [] k.w = "lr" -> "1x_l2" [] OTHER -> k.w]

-----------------------------------------------------------------------------
(* The writes of a new configuration: a reset that they cause is confined  *)
(* to the port, and the reset policy is restored at the end.  A width or a *)
(* speed that is not supported ends the call at once, with success.        *)
T721Width(pw) == CASE pw = "2x" -> "2x" [] pw = "4x" -> "none" [] pw \in {"1x", "1x_l0"} -> "l0"
                   [] pw = "1x_l2" -> "lr" [] OTHER -> "bad"
T721BadWidth(c, cur) ==
  (c.xdis # cur.xdis \/ c.lock # cur.lock \/ c.nmtc # cur.nmtc \/ c.pw # cur.pw)
    /\ T721Width(c.pw) = "bad"

T721WriteCtl(d, c, manage) ==
  LET hw == [d.hw EXCEPT !.ctl = [dis |-> c.xdis, lock |-> c.lock, en |-> c.nmtc, ovr |-> T721Width(c.pw)],
                         !.hit = IF c.xdis \/ c.lock THEN {0} ELSE @]
      a == Then(RegRead(d), LAMBDA b : RegWrite(b, hw))
  IN  IF manage /\ Ok(RegRead(d)) THEN Ignored(a) ELSE a

T721WriteSpeed(d, c, manage) ==
  LET a == Then(RegRead(d), LAMBDA b : RegWrite(b, [b.hw EXCEPT !.ls = c.ls, !.hit = {0}]))
      e == IF manage /\ Ok(RegRead(d)) THEN Ignored(a) ELSE a
  IN  Then(Then(e, LAMBDA b : RegWrite(b, b.hw)), LAMBDA b : RegWrite(b, b.hw))

T721WriteSwap(d, c, manage) ==
  LET a == Then(RegRead(d), LAMBDA b : RegWrite(b, [b.hw EXCEPT !.swap = c.swap]))
  IN  IF manage /\ Ok(RegRead(d)) THEN Ignored(a) ELSE a

T721SetConfigWithResets(d, c, cur, manage) ==
  LET self == d.hw.self
      mode == d.hw.mode
      a == Then(Then(RegRead(d),
             LAMBDA b : RegWrite(b, [b.hw EXCEPT !.self = "port"])),
             LAMBDA b : RegWrite(b, [b.hw EXCEPT !.mode = "srio"]))
      same == c.xdis = cur.xdis /\ c.lock = cur.lock /\ c.nmtc = cur.nmtc /\ c.pw = cur.pw
      e == IF same THEN a ELSE Then(a, LAMBDA b : T721WriteCtl(b, c, manage))
      f == IF c.ls = cur.ls THEN e ELSE Then(e, LAMBDA b : T721WriteSpeed(b, c, manage))
      g == IF c.swap = cur.swap THEN f ELSE Then(f, LAMBDA b : T721WriteSwap(b, c, manage))
  IN  CASE T721BadWidth(c, cur) -> Then(a, RegRead)
        [] c.ls # cur.ls /\ c.ls > 4 -> e
        [] OTHER -> Then(Then(g, LAMBDA b : RegWrite(b, [b.hw EXCEPT !.self = self])),
                         LAMBDA b : RegWrite(b, [b.hw EXCEPT !.mode = mode]))

(* rio_pc_set_config: in band, what would cut off the caller is refused. *)
T721SetConfig(d, in) ==
  LET c == in.pc[1].c
      a == Then(Then(RegWrite(d, [d.hw EXCEPT !.lrto = in.lrto % 16777216]),
             LAMBDA b : RegWrite(b, b.hw)), LAMBDA b : RegWrite(b, b.hw))
      cur == T721Pc(d.hw)
      free == ~cur.up \/ cur.xdis \/ in.oob
      e == Then(RegRead(a), LAMBDA b :
             IF free THEN T721SetConfigWithResets(b, c, cur, FALSE)
             ELSE IF cur.xdis # c.xdis \/ cur.ls # c.ls THEN Fail(b, "NOT_SUP_BY_CONFIG")
             ELSE T721SetConfigWithResets(b, c, cur, TRUE))
      f == Then(e, LAMBDA b : IF free /\ c.up
             THEN Then(RegRead(b), LAMBDA g : RegWrite(g, [g.hw EXCEPT !.boot = TRUE])) ELSE b)
  IN  IF ~in.all /\ (Len(in.pc) > 1 \/ in.pc[1].pnum > 0) THEN Fail(d, "INVALID_PARAMETER")
      ELSE Then(IF Ok(a) THEN f ELSE a, RegRead)

-----------------------------------------------------------------------------
(* The reset policy, and the one that it replaces. *)
T721Policy(hw) == [self |-> hw.self, mode |-> hw.mode, rint |-> hw.rint, rpw |-> hw.rpw]
T721PolicyOf(rst) ==
  [self |-> CASE rst = "device" -> "device" [] rst = "port" -> "port" [] OTHER -> "none",
   mode |-> CASE rst = "device" -> "hot" [] rst = "port" -> "srio" [] OTHER -> "none",
   rint |-> rst = "int", rpw |-> rst = "pw"]
T721UpdateResetPolicy(d, rst) ==
  LET n == T721PolicyOf(rst)
  IN  Then(Then(Then(Then(RegRead(d),
        LAMBDA b : RegWrite(b, [b.hw EXCEPT !.self = n.self])),
        LAMBDA b : RegWrite(b, [b.hw EXCEPT !.mode = n.mode])),
        LAMBDA b : RegWrite(b, [b.hw EXCEPT !.rint = n.rint])),
        LAMBDA b : RegWrite(b, [b.hw EXCEPT !.rpw = n.rpw]))

T721ResetLp(d) ==
  Then(Then(RegWrite(d, [d.hw EXCEPT !.lprst = {0}]), RegRead),
       LAMBDA b : IF Answers(b.hw.link[0]) THEN b ELSE Fail(b, "READ_REG_RETURN_INVALID_VAL"))

(* rio_pc_reset_port: whichever way the port is accessed, it is reset. *)
T721ResetPort(d, in) ==
  LET old == T721Policy(d.hw)
      a == Then(RegRead(d), LAMBDA b : T721UpdateResetPolicy(b, "port"))
      e == Then(a, LAMBDA b : IF in.lp THEN T721ResetLp(b) ELSE b)
      f == Then(Then(e,
             LAMBDA b : RegWrite(b, [b.hw EXCEPT !.ls = LS_LAST, !.hit = {0}])),
             LAMBDA b : RegWrite(b, [b.hw EXCEPT !.ls = d.hw.ls, !.link[0] = Cleared(@)]))
      g == Then(Then(Then(Then(f,
             LAMBDA b : RegWrite(b, [b.hw EXCEPT !.mode = old.mode])),
             LAMBDA b : RegWrite(b, [b.hw EXCEPT !.self = old.self])),
             LAMBDA b : RegWrite(b, [b.hw EXCEPT !.rint = old.rint])),
             LAMBDA b : RegWrite(b, [b.hw EXCEPT !.rpw = old.rpw]))
  IN  IF ~in.all /\ in.port # 0 THEN Fail(d, "INVALID_PARAMETER")
      ELSE Then(RegRead(d), LAMBDA b : IF b.hw.boot THEN g ELSE b)

T721ResetLinkPartner(d, p, resync) ==
  IF p # 0 THEN Fail(d, "INVALID_PARAMETER")
  ELSE Then(T721ResetLp(d), LAMBDA b :
         IF resync THEN RegWrite(b, [b.hw EXCEPT !.fresh = TRUE]) ELSE b)

(* rio_pc_clr_errs: the link is brought in step with a link request; with *)
(* clr_lp_port_err the call ends there, with success.  lp is the kind of  *)
(* link partner, "none" when it is not known.                             *)
T721ClrErrs(d, p, clrlp, lp) ==
  LET st == T721Status(d.hw)
      a == Then(RegRead(d), LAMBDA b : IF st.ok THEN b ELSE Fail(b, "ERRS_NOT_CL"))
      e == Then(Then(Then(a,
             LAMBDA b : RegWrite(b, [b.hw EXCEPT !.link[0].err = @ \ {"IES", "OES"}])),
             LAMBDA b : RegWrite(b, b.hw)), RegRead)
      f == Then(e, LAMBDA b : IF Answers(b.hw.link[0]) THEN RegRead(b)
                              ELSE Fail(b, "NOT_EXPECTED_RETURN_VALUE"))
      g == Then(f, LAMBDA b : RegWrite(b, [b.hw EXCEPT !.fresh = TRUE, !.link[0].err = @ \ {"PORT_ERR"}]))
      h == Then(Then(Then(Then(g, RegRead),
             LAMBDA b : RegWrite(b, [b.hw EXCEPT !.link[0] = Cleared(@)])), RegRead),
             LAMBDA b : Verified(b, 0))
  IN  IF p # 0 \/ (clrlp /\ lp = "none") THEN Fail(d, "INVALID_PARAMETER")
      ELSE IF clrlp THEN g ELSE h

(* rio_pc_secure_port: the filter follows MECS_acceptance. *)
T721SecurePort(d, in) ==
  IF in.rst = "last" THEN d
  ELSE Then(Then(T721UpdateResetPolicy(d, in.rst), RegRead),
            LAMBDA b : RegWrite(b, [b.hw EXCEPT !.filt = in.accept]))

T721DevResetConfig(d, rst) ==
  IF rst = "last" THEN Fail(d, "INVALID_PARAMETER") ELSE T721UpdateResetPolicy(d, rst)
=============================================================================
