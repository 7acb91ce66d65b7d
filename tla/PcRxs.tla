-------------------------------- MODULE PcRxs --------------------------------
(***************************************************************************)
(* Port configuration of the RXS switches (librio/src/RXS_PC.c): two pairs *)
(* of ports.  The even port of a pair has four lanes (max = 4) and the odd *)
(* port is unavailable, or both have two.                                  *)
(*                                                                         *)
(* Registers of a port: down (PLM_SPX_PWDN_CTL), ctl (SPX_CTL), baud and   *)
(* idle (the lane speed and idle sequence that PLM_SPX_1WR selects), swap  *)
(* and inv (PLM_SPX_IMP_SPEC_CTL, POL_CTL), route and mtc (the ports the   *)
(* port may send packets to, TLM_SPX_ROUTE_EN, and whether it passes       *)
(* maintenance packets, MTC_ROUTE_EN).  Of the device: rst, infer, rint,   *)
(* rpw (reset handling), filt and mecs (secured ports), lrto, busy (ports  *)
(* with packets in their queues that do not drain).                        *)
(*                                                                         *)
(* in.stack is what the uninitialised locals of set_config hold: a set of  *)
(* ports where a register value is meant, true unless empty.               *)
(***************************************************************************)
EXTENDS PcBase

RxsPorts == {0, 1, 2, 3}
Oth(p) == IF p % 2 = 0 THEN p + 1 ELSE p - 1

(* SRV_CLK is 1000 nsec; the register counts three of them in 24 bits. *)
RxsSetLrto(d, lrto) ==
  LET t == (lrto * 100 + 2999) \div 3000
  IN  IF lrto > 60000000 THEN Fail(d, "INVALID_PARAMETER")
      ELSE Then(RegRead(d), LAMBDA x : RegWrite(x, [x.hw EXCEPT !.lrto = IF t > 16777215 THEN 16777215 ELSE t]))
(* The value in nsec is divided by 100 twice. *)
RxsGetLrto(hw) ==
  LET t == ((hw.lrto * 3000 + 99) \div 100) \div 100
  IN  IF t = 0 /\ hw.lrto # 0 THEN 1 ELSE t

(* determine_iseq: the idle sequence in use, "last" if it is illegal at ls. *)
DetermineIseq(idle, ls) ==
  LET dflt == IF ls <= 3 THEN "one" ELSE IF ls = 4 THEN "two" ELSE "three"
  IN  CASE idle = "dflt" -> dflt
        [] idle = "one" /\ ls >= 4 -> "last"
        [] idle = "two" /\ ls >= 5 -> "last"
        [] OTHER -> idle

(* rio_pc_get_config *)
RxsPc(hw, p) ==
  LET r == hw.regs[p]
      wide == IF hw.max[p] = 4 THEN "4x" ELSE "2x"
  IN  IF hw.max[p] = 0 THEN NoPc(FALSE)
      ELSE IF r.down THEN NoPc(TRUE)
      ELSE [avail |-> TRUE, up |-> TRUE, xdis |-> r.ctl.dis, lock |-> r.ctl.lock, nmtc |-> r.ctl.en,
            pw |-> CASE r.ctl.ovr = "none" -> wide [] r.ctl.ovr = "l0" -> "1x_l0" [] r.ctl.ovr = "2x" -> "2x"
                     [] r.ctl.ovr = "lr" -> IF hw.max[p] = 4 THEN "1x_l2" ELSE "1x_l1",
            ls |-> r.baud, iseq |-> DetermineIseq(r.idle, r.baud), fc |-> "rx", swap |-> r.swap, inv |-> r.inv]

(* An illegal idle sequence fails the call. *)
RxsGetConfig(d) ==
  LET a == RegRead(d)
  IN  IF Ok(a) /\ \E p \in RxsPorts : RxsPc(a.hw, p).up /\ RxsPc(a.hw, p).iseq = "last"
      THEN Fail(a, "READ_REG_RETURN_INVALID_VAL") ELSE a

(* rio_pc_get_status; powered down ports are not told apart. *)
RxsStatus(hw, p) ==
  LET k == hw.link[p]
      n == hw.max[p]
  IN  [ok |-> k.ok, ist |-> "IES" \in k.err, ost |-> "OES" \in k.err,
       err |-> "PORT_ERR" \in k.err \/ ("FAIL" \in k.err /\ hw.drop[p]),
       pw |-> CASE ~k.ok \/ DetermineIseq(hw.regs[p].idle, hw.regs[p].baud) = "last" -> "last"
                [] k.w = "l0" -> "1x_l0"
                [] k.w = "lr" -> (CASE n = 4 -> "1x_l2" [] n = 2 -> "1x_l1" [] OTHER -> "last")
                [] k.w = "2x" -> IF n \in {2, 4} THEN "2x" ELSE "last"
                [] OTHER -> IF n = 4 THEN "4x" ELSE "last"]

-----------------------------------------------------------------------------
(* set_cfg_check_parms *)
RxsBadParm(p, c) ==
  /\ c.avail /\ c.up
  /\ \/ c.pw \notin PWs \/ c.fc # "rx" \/ c.ls \in {0, LS_LAST}
     \/ p % 2 = 1 /\ c.pw \in {"4x", "1x_l2"}
     \/ c.iseq \notin {"one", "two", "three", "dflt"}
     \/ c.iseq = "one" /\ c.ls > 3
     \/ c.iseq = "two" /\ c.ls > 4
RxsCheckParms(d, in) ==
  LET s == ByPort(in, RxsPorts)
  IN  IF \/ in.all \/ in.pc = <<>> \/ Len(in.pc) > Cardinality(RxsPorts)
         \/ ~in.oob /\ in.acc \notin RxsPorts
         \/ \E i \in DOMAIN in.pc : in.pc[i].pnum \notin RxsPorts \/ RxsBadParm(in.pc[i].pnum, in.pc[i].c)
      THEN Fail(d, "INVALID_PARAMETER") ELSE [d EXCEPT !.w = [s |-> s]]

LsConflict(a, b) == \/ b = 5 /\ a \in {1, 3}
                    \/ b # 5 /\ a = 5 /\ b \in {1, 3}
Quad(c) == c.pw \in {"4x", "1x_l2"}
CheckEven(e, oc) == IF Quad(e) THEN oc.avail ELSE LsConflict(e.ls, oc.ls)

CheckOdd(o, ec, oc) ==
  \/ o.avail # oc.avail
  \/ o.avail /\ (Quad(ec) \/ LsConflict(o.ls, ec.ls))
CheckBoth(e, o, ec, oc) ==
  \/ (Quad(ec) \/ Quad(e)) /\ (oc.avail \/ o.avail)
  \/ o.avail # oc.avail
  \/ o.avail /\ LsConflict(e.ls, o.ls)
RxsCheckConflicts(d) ==
  LET s == d.w.s
      Bad(p) == LET q == Oth(p)
                    ec == RxsPc(d.hw, p)
                    oc == RxsPc(d.hw, q)
                IN  CASE {p, q} \subseteq DOMAIN s -> CheckBoth(s[p], s[q], ec, oc)
                      [] p \in DOMAIN s -> CheckEven(s[p], oc)
                      [] q \in DOMAIN s -> CheckOdd(s[q], ec, oc)
                      [] OTHER -> FALSE
  IN  IF Bad(0) \/ Bad(2) THEN Fail(d, "INVALID_PARAMETER") ELSE d


(* set_cfg_compute_changes: the registers of a port, and the ports it may *)
(* send to.  Only ports of the request are taken to be up, and for the    *)
(* others the computation starts from uninitialised values.               *)
RxsRegs(r, c) ==
  IF ~c.avail THEN r
  ELSE IF ~c.up THEN [r EXCEPT !.down = TRUE]
  ELSE [r EXCEPT !.down = FALSE, !.mtc = TRUE, !.baud = c.ls, !.idle = c.iseq, !.swap = c.swap, !.inv = c.inv,
          !.ctl.dis = c.xdis, !.ctl.lock = c.lock, !.ctl.en = c.nmtc,
          !.ctl.ovr = CASE c.pw \in {"1x", "1x_l0"} -> "l0" [] c.pw = "2x" -> "2x" [] c.pw = "4x" -> "none"
                        [] OTHER -> "lr"]
RxsRoutes(r, s, p) ==
  LET live == {q \in DOMAIN s : s[q].avail /\ s[q].up}
  IN  IF p \in live THEN live ELSE r \ (DOMAIN s \ live)
RxsComputeChanges(d, in) ==
  LET s == d.w.s
      curr == [p \in RxsPorts |-> IF p \in DOMAIN s THEN d.hw.regs[p]
                                  ELSE [d.hw.regs[p] EXCEPT !.route = in.stack, !.mtc = in.stack # {}]]
      chg == [p \in RxsPorts |-> [(IF p \in DOMAIN s THEN RxsRegs(curr[p], s[p]) ELSE curr[p])
                                   EXCEPT !.route = RxsRoutes(curr[p].route, s, p)]]
      (* maintain_reg_acc: nothing to do, or the port in use and its pair. *)
      same == {p \in DOMAIN s : curr[p] = chg[p] /\ in.stack = chg[p].route}
      kept == IF in.oob THEN same ELSE same \cup {in.acc, Oth(in.acc)}
  IN  [RegRead(d) EXCEPT !.w = [s |-> s, curr |-> curr, chg |-> chg, temp |-> [p \in RxsPorts |-> chg[p].route],
                                todo |-> DOMAIN s \ kept]]

(* change_requires_reset: of a port not in the request, values that were *)
(* never read are compared.                                              *)
RequiresReset(w, p, in) ==
  LET pts == {p, Oth(p)} \cap w.todo
      a == w.curr[p].ctl
      b == w.chg[p].ctl
  IN  /\ pts # {}
      /\ \/ \E q \in pts : w.curr[q].baud # w.chg[q].baud
         \/ IF p \in DOMAIN w.s THEN a.dis # b.dis \/ a.lock # b.lock ELSE in.stack # {}

(* set_cfg_halt_traffic: the port is cut off from all others and is let   *)
(* drain; whether the driver waits depends on a local it never set.       *)
HaltTraffic(d, p, in) ==
  LET t == [q \in RxsPorts |-> IF q = p THEN {} ELSE d.w.temp[q] \ {p}]
      a == ForPorts([d EXCEPT !.w.temp = t], RxsPorts,
                    LAMBDA x, q : RegWrite(x, [x.hw EXCEPT !.regs[q].route = t[q]]))
      b == Then(a, LAMBDA x : Ignored(RegWrite(x, [x.hw EXCEPT !.regs[p].mtc = FALSE])))
  IN  Then(b, LAMBDA x : IF in.stack # {} THEN x
                         ELSE Then(RegRead(x), LAMBDA y : IF p \in y.hw.busy THEN Fail(y, "RETURN_NO_RESULT") ELSE y))

RxsWriteRegs(d, p) ==
  LET c == d.w.chg[p]
      Put(x, r, cut) == RegWrite(x, [x.hw EXCEPT !.regs[p] = r, !.hit = @ \cup cut])
      a == Put(d, [d.hw.regs[p] EXCEPT !.down = c.down], IF c.down THEN {p} ELSE {})
      b == Then(a, LAMBDA x : Put(x, [x.hw.regs[p] EXCEPT !.ctl = c.ctl], {p}))
      e == Then(b, LAMBDA x : Put(x, [x.hw.regs[p] EXCEPT !.swap = c.swap], {}))
      f == Then(e, LAMBDA x : Put(x, [x.hw.regs[p] EXCEPT !.baud = c.baud, !.idle = c.idle],
                                  IF c.baud # x.hw.regs[p].baud THEN {p, Oth(p)} ELSE {}))
  IN  Ignored(Then(f, LAMBDA x : Put(x, [x.hw.regs[p] EXCEPT !.inv = c.inv], {})))

RxsStartTraffic(d, p) ==
  LET a == RegWrite(d, [d.hw EXCEPT !.regs[p].route = d.w.chg[p].route])
  IN  Then(a, LAMBDA x : RegWrite(x, [x.hw EXCEPT !.regs[p].mtc = x.w.chg[p].mtc]))

(* set_cfg_program_changes: failures after the halt are overwritten by the *)
(* next return code, and there may be none at all.                         *)
ProgramChanges(d, in) ==
  LET Halt(x, p) == IF RequiresReset(d.w, p, in) THEN HaltTraffic(x, p, in) ELSE x
      Write(x, p) == IF p \in d.w.todo THEN RxsWriteRegs(x, p) ELSE x
      Pair(x, p) == Then(Then(Then(Halt(x, p), LAMBDA y : Halt(y, p + 1)), LAMBDA y : Write(y, p)),
                         LAMBDA y : Write(y, p + 1))
      live == Ascending({p \in DOMAIN d.w.s : d.w.s[p].avail /\ d.w.s[p].up})
      a == ForPorts(d, {0, 2}, Pair)
      Start(x, i) == IF i = Len(live) THEN RxsStartTraffic(x, live[i]) ELSE Ignored(RxsStartTraffic(x, live[i]))
      none == live = <<>> /\ \A p \in RxsPorts : ~RequiresReset(d.w, p, in)
  IN  IF ~Ok(a) THEN a
      ELSE IF none /\ in.stack # {} THEN Fail(a, "JUNK")
      ELSE ForEach(a, [i \in 1..Len(live) |-> i], Start)

RxsSetConfig(d, in) ==
  LET a == Then(RxsCheckParms(d, in), LAMBDA x : RxsSetLrto(x, in.lrto))
      b == Then(Then(Then(a, RxsGetConfig), RxsCheckConflicts), LAMBDA x : RxsComputeChanges(x, in))
  IN  Then(Then(b, LAMBDA x : ProgramChanges(x, in)), RxsGetConfig)

-----------------------------------------------------------------------------
(* reset_port_util: soft reset of a port that keeps its registers. *)
RxsResetUtil(d, p) ==
  LET off == [d.hw EXCEPT !.infer = @ \ {p}]
      a == Then(RegRead(d), LAMBDA x : RegWrite(x, off))
      b == Then(a, LAMBDA x : RegWrite(x, [x.hw EXCEPT !.hit = @ \cup {p}, !.link[p] = Cleared(@)]))
  IN  Then(b, LAMBDA x : RegWrite(x, x.hw))

RxsResetPort(d, in) ==
  LET S == IF in.all THEN RxsPorts ELSE {in.port}
      Lp(x, p) == IF in.lp THEN RegWrite(x, [x.hw EXCEPT !.lprst = @ \cup {p}]) ELSE x
      One(x, p) == IF ~in.oob /\ p = in.acc THEN x ELSE Then(Lp(x, p), LAMBDA y : RxsResetUtil(y, p))
  IN  IF ~(S \subseteq RxsPorts) THEN Fail(d, "PORT_ILLEGAL") ELSE ForPorts(d, S, One)

RxsResetLinkPartner(d, p, resync) ==
  LET a == Then(RegRead(d), LAMBDA x : RegWrite(x, [x.hw EXCEPT !.infer = @ \ {p}]))
      b == Then(a, LAMBDA x : RegWrite(x, [x.hw EXCEPT !.lprst = @ \cup {p}]))
  IN  IF p \notin RxsPorts THEN Fail(d, "INVALID_PARAMETER")
      ELSE Then(b, LAMBDA x : IF resync THEN RxsResetUtil(x, p) ELSE x)

(* resync_ackids: in.acc is the port by which the device was first read.  *)
(* An idle sequence that cannot be told ends the call with success.  The  *)
(* link partner is read to see that the ackIDs agree; one that is "1616"  *)
(* only answers once the inbound ackID is written.                        *)
ResyncAckids(d, p, lp, acc) ==
  LET a == Then(RegRead(d), LAMBDA x : IF "IES" \in x.hw.link[p].err
             THEN RxsResetPort(x, [all |-> FALSE, port |-> p, oob |-> FALSE, acc |-> acc, lp |-> FALSE]) ELSE x)
      b == Then(a, RegRead)
      iseq == DetermineIseq(d.hw.regs[p].idle, d.hw.regs[p].baud)
      c == Then(Then(b, RegRead), LAMBDA x : IF ~x.hw.link[p].ok THEN Fail(x, "PORT_OK_NOT_DETECTED")
                                             ELSE RegWrite(x, x.hw))
      e == Then(c, LAMBDA x : IF Answers(x.hw.link[p]) THEN Then(RegWrite(x, x.hw), RegRead)
                              ELSE Fail(x, "NOT_EXPECTED_RETURN_VALUE"))
  IN  IF ~Ok(b) \/ iseq = "last" THEN b
      ELSE Then(e, LAMBDA x : IF lp = "1616" THEN Then(Then(RegRead(x), LAMBDA y : RegWrite(y, y.hw)), RegRead)
                              ELSE x)

RxsClrErrs(d, p, clrlp, lp) ==
  IF p \notin RxsPorts \/ (clrlp /\ lp = "none") THEN Fail(d, "INVALID_PARAMETER")
  ELSE Then(RxsResetUtil(d, p), LAMBDA x : IF clrlp THEN ResyncAckids(x, p, lp, 0) ELSE x)

(* set_reset_config_port *)
RxsSetReset(d, p, rst) ==
  LET a == RegRead(d)
      In(S, b) == IF b THEN S \cup {p} ELSE S \ {p}
      b == Then(a, LAMBDA x : RegWrite(x, [x.hw EXCEPT !.rst[p] = IF rst \in {"device", "port"} THEN rst ELSE "none"]))
      c == Then(b, LAMBDA x : RegWrite(x, [x.hw EXCEPT !.rint = In(@, rst = "int")]))
  IN  IF Ok(a) /\ rst = "last" THEN Fail(a, "INVALID_PARAMETER")
      ELSE Then(c, LAMBDA x : RegWrite(x, [x.hw EXCEPT !.rpw = In(@, rst = "pw")]))

RxsSecurePort(d, S, in) ==
  LET In(T, p, b) == IF b THEN T \cup {p} ELSE T \ {p}
      One(x, p) ==
        LET a == Then(RegRead(x), LAMBDA y : RegWrite(y, [y.hw EXCEPT !.mecs = In(@, p, in.part)]))
            b == Then(a, LAMBDA y : RegWrite(y, [y.hw EXCEPT !.filt = In(@, p, ~in.mtc)]))
        IN  Then(b, LAMBDA y : RxsSetReset(y, p, in.rst))
  IN  IF in.rst = "last" THEN d ELSE ForPorts(d, S, One)

RxsDevResetConfig(d, rst) ==
  IF rst = "last" THEN Fail(d, "INVALID_PARAMETER")
  ELSE ForPorts(d, RxsPorts, LAMBDA x, p : RxsSetReset(x, p, rst))
=============================================================================
