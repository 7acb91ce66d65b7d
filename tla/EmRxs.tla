------------------------------- MODULE EmRxs -------------------------------
(***************************************************************************)
(* Error management of the RXS (librio/src/RXS_EM.c).                      *)
(*                                                                         *)
(* Registers of a port, hw.p[p]: those of rxs_event_cfg_reg_vals_t (den is *)
(* the denial counter), det (SPX_ERR_DET), plm, pbm and tlm (status), pna  *)
(* (PNA_CAP), allInt (ALL_INT_EN), pwDis and pwp (in SPX_ERR_STAT) and up. *)
(* Of the device: those of rxs_event_cfg_reg_vals_t, log, bl, devInt and   *)
(* pwDis (EM_DEV_INT_EN, PW_TRAN_CTL), rte (where the port-write target is *)
(* routed to, per port), route, tgt and timer (of port-writes).            *)
(* d.extra is pw_port_num of a request nothing initialises.                *)
(***************************************************************************)
EXTENDS EmBase

CONSTANTS RxsPorts, RxsDltUnit, RxsTtlUnit

RxsLogErrs == {"ILL_TYPE", "UNS_RSP"}
RxsLos == {"DWNGD", "DLT", "OK2U"}
Unmaskable == {"RST_REQ"}
RxsList(l) == GetPortList(l, RxsPorts, {})
RxsAll == Count(RxsPorts)

RxsPortReset ==
  [ctl |-> {}, rateEn |-> {}, dlt |-> 0, plmCtl |-> {"SELF_RST"}, plmPw |-> {}, plmInt |-> {}, den |-> [cnt |-> {}, thr |-> 0],
   tlmPw |-> {}, tlmInt |-> {}, pbmPw |-> {}, pbmInt |-> {}, det |-> {}, plm |-> {}, pbm |-> {}, tlm |-> {}, pna |-> FALSE,
   allInt |-> FALSE, pwDis |-> TRUE, pwp |-> FALSE, up |-> TRUE]
RxsReset ==
  [p |-> [p \in 0..(RxsPorts - 1) |-> RxsPortReset], logEn |-> {}, ttl |-> 0, rstInt |-> {}, rstPw |-> {}, emInt |-> {}, emPw |-> {},
   blInt |-> FALSE, log |-> {}, bl |-> FALSE, devInt |-> FALSE, pwDis |-> TRUE, route |-> {},
   rte |-> [p \in 0..(RxsPorts - 1) |-> [k |-> "port", ports |-> {0}]], tgt |-> [tt |-> "dev8", did |-> 0], timer |-> 0]

(* rxs_event_read_dev_regs, rxs_event_read_port_regs and the functions *)
(* that write them, in order.                                          *)
RxsDevRegs == <<"logEn", "ttl", "rstInt", "rstPw", "emInt", "emPw", "blInt">>
RxsPortRegs == <<"ctl", "rateEn", "dlt", "plmCtl", "plmPw", "plmInt", "den", "tlmPw", "tlmInt", "pbmPw", "pbmInt">>
RxsRegSet == {RxsDevRegs[i] : i \in DOMAIN RxsDevRegs} \cup {RxsPortRegs[i] : i \in DOMAIN RxsPortRegs}
RxsReadDev(d) == [RegRead(d) EXCEPT !.w = [f \in RxsRegSet |-> IF f \in DOMAIN d.hw THEN d.hw[f] ELSE d.hw.p[0][f]]]
RxsReadPort(d, p) == [RegRead(d) EXCEPT !.w = [f \in RxsRegSet |-> IF f \in DOMAIN d.hw THEN @[f] ELSE d.hw.p[p][f]]]
RxsWriteDev(d) == RegWrites(d, RxsDevRegs)
RxsWritePort(d, p) == ForEach(d, RxsPortRegs, LAMBDA x, f : RegWrite(x, [x.hw EXCEPT !.p[p][f] = x.w[f]]))

-----------------------------------------------------------------------------
(* rxs_event_cfg_get *)
RxsDetect(r, e) ==
  CASE e = "f_los" -> r.rateEn \cap {"OK2U", "DLT"} # {}
    [] e = "f_port_err" -> "PORT_ERR" \in r.plmInt \cup r.plmPw
    [] e = "f_2many_retx" -> "RTY" \in r.den.cnt
    [] e = "f_2many_pna" -> "PNA" \in r.den.cnt
    [] e = "f_err_rate" -> "PBM_FATAL" \in r.plmInt \cup r.plmPw
    [] e = "d_ttl" -> r.ttl # 0
    [] e = "d_rte" -> "LUT" \in r.tlmInt \cup r.tlmPw
    [] e = "d_log" -> r.logEn # {}
    [] e = "i_sig_det" -> "LINK_INIT" \in r.rateEn
    [] e = "i_rst_req" -> "SELF_RST" \notin r.plmCtl
    [] e = "i_init_fail" -> r.blInt
    [] OTHER -> FALSE
RxsInfo(r, e) ==
  CASE e = "f_los" /\ "DLT" \in r.rateEn -> r.dlt * RxsDltUnit
    [] e \in {"f_2many_retx", "f_2many_pna"} /\ RxsDetect(r, e) -> r.den.thr
    [] e = "d_ttl" /\ r.ttl # 0 -> (r.ttl \div 4 + 1) * RxsTtlUnit
    [] e = "d_log" /\ r.logEn # {} -> r.logEn
    [] OTHER -> 0

(* rxs_plm_set_notifn, rxs_ttl_err_set_notifn, rxs_rte_err_set_notifn,     *)
(* rxs_log_err_set_notifn: the registers i and w for interrupts and        *)
(* port-writes.                                                            *)
RxsNotifn(r, i, w, bits, n) == IF n = "0delta" THEN r ELSE [r EXCEPT ![i] = Switch(@, bits, ByInt(n)), ![w] = Switch(@, bits, ByPw(n))]
RxsPlmNotifn(r, bits, n) == RxsNotifn(r, "plmInt", "plmPw", bits, n)

(* A time of 0 makes the first loss of the link fatal. *)
RxsSetLos(d, ev, n) ==
  LET time == Capped((ev.info + RxsDltUnit - 1) \div RxsDltUnit)
      fatal == {"OK2U_F", "DLT_F", "DWNGD_F"}
      off == [d.w EXCEPT !.rateEn = @ \ {"DLT", "OK2U"}, !.plmCtl = @ \ fatal, !.dlt = 0]
      on == [off EXCEPT !.plmCtl = @ \cup fatal, !.ctl = @ \cup {"DROP"}, !.rateEn = @ \cup {IF ev.info = 0 THEN "OK2U" ELSE "DLT"},
                        !.dlt = IF ev.info = 0 THEN 0 ELSE time]
  IN  [d EXCEPT !.w = RxsPlmNotifn(IF ev.det = "on" THEN on ELSE off, RxsLos, n)]
RxsSetDenial(d, ev, n) ==
  LET bit == IF ev.e = "f_2many_retx" THEN "RTY" ELSE "PNA"
      left == d.w.den.cnt \ {bit}
      on == [d.w EXCEPT !.den = [cnt |-> @.cnt \cup {bit}, thr |-> Capped(ev.info)], !.plmCtl = @ \cup {"MAXD_F"}]
      off == [d.w EXCEPT !.den = [cnt |-> left, thr |-> IF left = {} THEN 0 ELSE @.thr], !.plmCtl = IF left = {} THEN @ \ {"MAXD_F"} ELSE @]
  IN  IF ev.det = "on" /\ ev.info = 0 THEN Fail(d, "INVALID")
      ELSE [d EXCEPT !.w = RxsPlmNotifn(IF ev.det = "on" THEN on ELSE off, {"MAX_DENIAL"}, n)]
OrNone(ev, n) == IF ev.det = "off" THEN "none" ELSE n
RxsSetErrRate(d, ev, n) == [d EXCEPT !.w = RxsPlmNotifn(@, {"PBM_FATAL"}, OrNone(ev, n))]
RxsSetTtlPort(d, ev, n) == [d EXCEPT !.w = RxsNotifn(@, "pbmInt", "pbmPw", {"TTL"}, OrNone(ev, n))]
RxsSetRte(d, ev, n) == [d EXCEPT !.w = RxsNotifn(@, "tlmInt", "tlmPw", {"LUT"}, OrNone(ev, n))]
RxsSetSigDet(d, ev, n) == [d EXCEPT !.w = RxsPlmNotifn([@ EXCEPT !.rateEn = Switch(@, {"LINK_INIT"}, ev.det = "on")], {"LINK_INIT"}, n)]
RxsSetRstReq(d, p, n) == [d EXCEPT !.w = RxsNotifn(@, "rstInt", "rstPw", {p}, n)]
RxsSetTtlDev(d, ev) ==
  LET units == (ev.info + RxsTtlUnit - 1) \div RxsTtlUnit
      time == IF units = 1 THEN 1 ELSE 4 * (Capped(units) - 1)
  IN  IF ev.det = "on" /\ ev.info = 0 THEN Fail(d, "INVALID") ELSE [d EXCEPT !.w.ttl = IF ev.det = "on" THEN time ELSE 0]
RxsSetLog(d, ev, n) ==
  LET errs == ev.info \cap RxsLogErrs
  IN  IF ev.det = "on" /\ errs = {} THEN Fail(d, "INVALID")
      ELSE [d EXCEPT !.w = RxsNotifn([@ EXCEPT !.logEn = IF ev.det = "on" THEN errs ELSE {}], "emInt", "emPw", {"LOG"}, OrNone(ev, n))]
RxsSetInitFail(d, ev, n) ==
  IF OrNone(ev, n) = "0delta" THEN Fail(d, "INVALID")
  ELSE [d EXCEPT !.w = RxsNotifn([@ EXCEPT !.blInt = ev.det = "on"], "emInt", "emPw", {"I2C"}, OrNone(ev, n))]

(* rxs_set_event_cfg: port errors and reset requests have no detection to  *)
(* switch, they are notified or not.                                       *)
RxsSetEvent(d, p, ev, n) ==
  CASE ev.e = "last" -> Fail(d, "INVALID")
    [] ev.det = "0delta" -> d
    [] ev.e = "f_los" /\ ev.det # "0delta" -> RxsSetLos(d, ev, n)
    [] ev.e = "f_port_err" /\ ev.det # "0delta" -> [d EXCEPT !.w = RxsPlmNotifn(@, {"PORT_ERR"}, n)]
    [] ev.e \in {"f_2many_retx", "f_2many_pna"} /\ ev.det # "0delta" -> RxsSetDenial(d, ev, n)
    [] ev.e = "f_err_rate" /\ ev.det # "0delta" -> RxsSetErrRate(d, ev, n)
    [] ev.e = "d_ttl" /\ ev.det # "0delta" -> RxsSetTtlPort(d, ev, n)
    [] ev.e = "d_rte" /\ ev.det # "0delta" -> RxsSetRte(d, ev, n)
    [] ev.e = "i_sig_det" /\ ev.det # "0delta" -> RxsSetSigDet(d, ev, n)
    [] ev.e = "i_rst_req" /\ ev.det # "0delta" -> RxsSetRstReq(d, p, n)
    [] OTHER -> d

(* rxs_rio_em_dev_rpt_ctl: the device reports nothing while ports change.  *)
RxsRptDev(d, n) ==
  Then(Then(RegRead(d), LAMBDA x : RegWrite(x, [x.hw EXCEPT !.devInt = ByInt(n)])), LAMBDA x : RegWrite(x, [x.hw EXCEPT !.pwDis = ~ByPw(n)]))
RxsRptPort(d, p, n) ==
  Then(Then(RegRead(d), LAMBDA x : RegWrite(x, [x.hw EXCEPT !.p[p].allInt = ByInt(n)])), LAMBDA x : RegWrite(x, [x.hw EXCEPT !.p[p].pwDis = ~ByPw(n)]))
RxsRptRead(d) == Then(RegRead(d), LAMBDA x : [x EXCEPT !.out.notfn = NotfnOf(x.hw.devInt, ~x.hw.pwDis)])
RxsRptCtl(d, l, n) ==
  LET a == Then(RxsRptDev(d, "none"), LAMBDA x : ForEach(x, RxsList(l), LAMBDA y, p : RxsRptPort(y, p, n)))
      b == IF n = "none" THEN a ELSE Then(a, LAMBDA x : RxsRptDev(x, n))
  IN  IF n = "last" \/ RxsList(l) = <<>> THEN Fail(d, "INVALID") ELSE Then(IF n = "0delta" THEN d ELSE b, RxsRptRead)

(* rxs_rio_em_cfg_set: whether the first port of the list is up decides    *)
(* for all of them.  Events of the device are set after the ports, once.   *)
RxsLast(evs, e) == {i \in DOMAIN evs : evs[i].e = e /\ \A j \in DOMAIN evs : evs[j].e = e => j <= i}
RxsSetDev(d, evs, n) ==
  LET One(x, e, F(_, _)) == IF RxsLast(evs, e) = {} THEN x
                            ELSE LET ev == evs[CHOOSE i \in RxsLast(evs, e) : TRUE] IN IF ev.det = "0delta" THEN x ELSE F(x, ev)
      a == One(d, "d_ttl", RxsSetTtlDev)
      b == Then(a, LAMBDA x : One(x, "d_log", LAMBDA y, ev : RxsSetLog(y, ev, n)))
  IN  Then(b, LAMBDA x : One(x, "i_init_fail", LAMBDA y, ev : RxsSetInitFail(y, ev, n)))
RxsSetPort(d, p, evs, n) ==
  LET Pass(x, on) == ForEach(x, evs, LAMBDA y, ev : IF (ev.det = "on") = on THEN RxsSetEvent(y, p, ev, n) ELSE y)
  IN  Then(Then(Then(RxsReadPort(d, p), LAMBDA x : Pass(x, FALSE)), LAMBDA x : Pass(x, TRUE)), LAMBDA x : RxsWritePort(x, p))
RxsCfgSet(d, l, n, evs) ==
  LET ps == RxsList(l)
      up == d.hw.p[ps[1]].up
      a == Then(Then(RegRead(d), RxsReadDev), LAMBDA x : IF up THEN ForEach(x, ps, LAMBDA y, p : RxsSetPort(y, p, evs, n)) ELSE x)
      b == IF up THEN Then(a, LAMBDA x : RxsSetDev(x, evs, n)) ELSE a
  IN  IF evs = <<>> \/ n = "last" \/ ps = <<>> THEN Fail(d, "INVALID")
      ELSE Then(Then(b, RxsWriteDev), LAMBDA x : RxsRptCtl(x, l, n))

(* rxs_rio_em_cfg_get: of a port that is not up it returns nothing. *)
RxsCfgGet(d, p, es) ==
  LET One(x, e) == IF e = "last" THEN Fail(x, "INVALID")
                   ELSE [x EXCEPT !.out.cfg = Append(@, [e |-> e, det |-> RxsDetect(x.w, e), info |-> RxsInfo(x.w, e)])]
      a == Then(RxsReadDev(d), LAMBDA x : RxsReadPort(x, p))
  IN  IF es = <<>> \/ p >= RxsPorts THEN Fail(d, "INVALID")
      ELSE Then(RegRead(d), LAMBDA x : IF x.hw.p[p].up THEN Then(ForEach(a, es, One), RxsRptRead) ELSE x)

-----------------------------------------------------------------------------
(* rxs_rio_em_get_int_stat_port and rxs_rio_em_get_pw_stat_port; plmEn,    *)
(* pbmEn and tlmEn say what causes an interrupt, or a port-write.          *)
RxsShown(r, plmEn, pbmEn, tlmEn, e) ==
  LET plm == r.plm \cap (plmEn \cup Unmaskable)
  IN  CASE e = "f_los" -> plm \cap RxsLos # {}
        [] e = "f_port_err" -> "PORT_ERR" \in plm
        [] e = "f_2many_retx" -> "MAX_DENIAL" \in plm /\ "RTY" \in r.den.cnt
        [] e = "f_2many_pna" -> "MAX_DENIAL" \in plm /\ "PNA" \in r.den.cnt /\ r.pna
        [] e = "f_err_rate" -> "PBM_FATAL" \in plm
        [] e = "d_ttl" -> "TTL" \in r.pbm \cap pbmEn
        [] e = "d_rte" -> "LUT" \in r.tlm \cap tlmEn
        [] e = "i_sig_det" -> "LINK_INIT" \in plm
        [] e = "i_rst_req" -> "RST_REQ" \in plm
        [] OTHER -> FALSE
RxsPortStat(d, p, plmEn, pbmEn, tlmEn) ==
  LET r == d.hw.p[p]
      a == ForEach(RegRead(d), <<"f_los", "f_port_err", "f_2many_retx", "f_2many_pna", "f_err_rate", "d_ttl", "d_rte", "i_sig_det", "i_rst_req">>,
                   LAMBDA x, e : AddIf(x, RxsShown(r, plmEn, pbmEn, tlmEn, e), p, e))
  IN  Then(a, LAMBDA x : Other(x, r.plm \ (plmEn \cup Unmaskable) # {} \/ r.tlm \ tlmEn # {} \/ r.pbm \ (pbmEn \cup {"FATAL"}) # {}))
RxsIntPort(d, p) == RxsPortStat(d, p, d.hw.p[p].plmInt, d.hw.p[p].pbmInt, d.hw.p[p].tlmInt)
RxsPwPort(d, p) == RxsPortStat(d, p, d.hw.p[p].plmPw, d.hw.p[p].pbmPw, d.hw.p[p].tlmPw)

(* get_dev_int_status and get_dev_pw_status; EM_INT_STAT and EM_PW_STAT    *)
(* show the enabled errors.  Port-writes do not tell of what is not        *)
(* enabled.                                                                *)
RxsEmStat(hw) == (IF hw.log \cap hw.logEn # {} THEN {"LOG"} ELSE {}) \cup (IF hw.bl /\ hw.blInt THEN {"I2C"} ELSE {})
RxsDevStat(d, en, pw) ==
  LET em == RxsEmStat(d.hw)
      One(x, bit, e, raw) == IF bit \in em \cap en THEN AddEvent(x, NoPort, e) ELSE Other(x, raw)
      a == One(RegRead(d), "LOG", "d_log", d.hw.log # {})
      b == Then(a, LAMBDA x : One(x, "I2C", "i_init_fail", d.hw.bl))
  IN  Other(b, ~pw /\ em \ en # {})

RxsIntStat(d, l) ==
  LET e == [d EXCEPT !.out = NoEvents]
  IN  IF d.room = 0 \/ RxsList(l) = <<>> THEN Fail(e, "INVALID")
      ELSE Then(ForEach(e, RxsList(l), RxsIntPort), LAMBDA x : RxsDevStat(x, x.hw.emInt, FALSE))

(* rxs_rio_em_get_pw_stat: the port that port-writes are sent for is last, *)
(* and the request to clear its pending port-write is the last event, also *)
(* when the status of the device could not be read.                        *)
RxsPwStat(d, l, pwp) ==
  LET e == [d EXCEPT !.out = NoEvents]
      ps == RxsList(l)
      last == \E i \in DOMAIN ps : ps[i] = pwp
      a == ForEach(e, SelectSeq(ps, LAMBDA p : p # pwp), RxsPwPort)
      b == IF last THEN Then(a, LAMBDA x : RxsPwPort(x, pwp)) ELSE a
  IN  IF d.room = 0 \/ ps = <<>> THEN Fail(e, "INVALID")
      ELSE IF Ok(b) THEN AddIf(RxsDevStat(b, b.hw.emPw, TRUE), last, pwp, "a_clr_pwpnd") ELSE b

(* rxs_rio_em_parse_pw: which of the denials it was the port-write does    *)
(* not say.                                                                *)
RxsPwBits == <<<<"f_los", RxsLos>>, <<"f_port_err", {"PORT_ERR"}>>, <<"f_2many_retx", {"MAX_DENIAL"}>>, <<"f_2many_pna", {"MAX_DENIAL"}>>,
               <<"f_err_rate", {"PBM_FATAL"}>>, <<"d_ttl", {"PBM_PW"}>>, <<"d_rte", {"TLM_PW"}>>, <<"d_log", {"LOG"}>>, <<"i_rst_req", {"RST_REQ"}>>,
               <<"i_sig_det", {"LINK_INIT"}>>, <<"i_init_fail", {"INIT_FAIL"}>>>>
RxsPw(hw, p) ==
  LET r == hw.p[p]
  IN  [port |-> p,
       bits |-> r.plm \cup (IF r.pbm \cap r.pbmPw # {} THEN {"PBM_PW"} ELSE {}) \cup (IF r.tlm \cap r.tlmPw # {} THEN {"TLM_PW"} ELSE {})
                \cup (IF hw.log # {} THEN {"LOG"} ELSE {}) \cup (IF hw.bl THEN {"INIT_FAIL"} ELSE {})]
RxsParsePw(d, pw) ==
  LET e == [d EXCEPT !.out = NoEvents]
      One(x, k) == AddIf(x, k[2] \cap pw.bits # {}, IF k[1] \in {"d_log", "i_init_fail"} THEN NoPort ELSE pw.port, k[1])
  IN  IF d.room = 0 \/ pw.port >= RxsPorts THEN Fail(e, "INVALID") ELSE ForEach(e, RxsPwBits, One)

-----------------------------------------------------------------------------
(* rxs_clr_events_sort_events: the list is accepted, and which ports are   *)
(* reset, have events to clear, have a port-write to clear.                *)
RxsPortEvents == {"d_ttl", "d_rte", "i_sig_det", "i_rst_req"}
RxsSortOk(evs) ==
  /\ \A i \in DOMAIN evs : /\ evs[i][2] \in Events \cup {"a_clr_pwpnd", "a_no_event"}
                           /\ evs[i][2] \in Fatal \cup RxsPortEvents \cup {"a_clr_pwpnd"} => evs[i][1] < RxsPorts
  /\ \A i, j \in DOMAIN evs : evs[i][2] = "a_clr_pwpnd" /\ evs[j][2] = "a_clr_pwpnd" => i = j
PortsOf(evs, es) == {evs[i][1] : i \in {j \in DOMAIN evs : evs[j][2] \in es}}

(* rxs_clr_events_soft_reset: the reset clears whatever the port shows. *)
RxsSoftReset(d, p) ==
  LET clean == [d.hw.p[p] EXCEPT !.det = {}, !.plm = {}, !.pbm = {}, !.tlm = {}, !.pna = FALSE, !.pwp = FALSE]
      a == Then(RegRead(d), LAMBDA x : RegWrite(x, [x.hw EXCEPT !.p[p] = [clean EXCEPT !.plmCtl = @ \cup {"SOFT_RST"}]]))
  IN  Then(Then(a, LAMBDA x : RegWrite(x, [x.hw EXCEPT !.p[p].plmCtl = @ \ {"SOFT_RST"}])), LAMBDA x : RegWrite(x, x.hw))

(* rxs_clr_events_clr_port *)
RxsClrEvent(d, p, e) ==
  CASE e = "d_ttl" -> RegWrite(d, [d.hw EXCEPT !.p[p].pbm = @ \ {"TTL"}])
    [] e = "d_rte" -> RegWrite(d, [d.hw EXCEPT !.p[p].tlm = @ \ {"LUT"}])
    [] e = "i_sig_det" -> RegWrite(d, [d.hw EXCEPT !.p[p].plm = @ \ {"LINK_INIT"}])
    [] e = "i_rst_req" -> Then(RegWrite(d, [d.hw EXCEPT !.p[p].plm = @ \ {"RST_REQ"}]), LAMBDA x : RegWrite(x, x.hw))
    [] e = "a_clr_pwpnd" -> Update(d, [d.hw EXCEPT !.p[p].pwp = FALSE])
    [] e = "a_no_event" -> d
    [] OTHER -> Fail(d, "INVALID")
RxsClrPort(d, p, evs) == ForEach(d, SelectSeq(evs, LAMBDA pe : pe[1] = p), LAMBDA x, pe : RxsClrEvent(x, p, pe[2]))

(* rxs_rio_em_clr_events, and what remains of the ports that had events. *)
RxsRemain(d, ps) ==
  LET s == IF ps = <<>> THEN RxsDevStat([d EXCEPT !.out = NoEvents, !.room = 1], d.hw.emInt, FALSE) ELSE RxsIntStat([d EXCEPT !.room = 1], ps)
      t == Then(s, LAMBDA x : IF ps = <<>> THEN RxsDevStat([x EXCEPT !.out = NoEvents], x.hw.emPw, TRUE) ELSE RxsPwStat(x, ps, d.extra))
      Some(o) == o.events # <<>> \/ o.other
  IN  [t EXCEPT !.room = d.room, !.out = [int |-> Ok(s) /\ Some(s.out), pw |-> Ok(t) /\ Some(t.out)]]
RxsClrEvents(d, evs) ==
  LET e == [d EXCEPT !.out = [int |-> FALSE, pw |-> FALSE]]
      reset == PortsOf(evs, Fatal)
      active == reset \cup PortsOf(evs, RxsPortEvents)
      pwPort == PortsOf(evs, {"a_clr_pwpnd"})
      One(x, p) == IF p \in reset THEN RxsSoftReset(x, p) ELSE RxsClrPort(x, p, evs)
      a == ForEach(e, SelectSeq(RxsAll, LAMBDA p : p \in active \ pwPort) \o SelectSeq(RxsAll, LAMBDA p : p \in pwPort), One)
      b == IF PortsOf(evs, {"i_init_fail"}) = {} THEN a ELSE Then(a, LAMBDA x : RegWrite(x, [x.hw EXCEPT !.bl = FALSE]))
      c == IF PortsOf(evs, {"d_log"}) = {} THEN b ELSE Then(b, LAMBDA x : RegWrite(x, [x.hw EXCEPT !.log = {}]))
  IN  IF evs = <<>> \/ ~RxsSortOk(evs) THEN Fail(e, "INVALID")
      ELSE Then(c, LAMBDA x : RxsRemain(x, SelectSeq(RxsAll, LAMBDA p : p \in active)))

-----------------------------------------------------------------------------
(* rxs_rio_em_create_events; events of the device are created at the end.  *)
RxsGen(d, p, f, bits) == RegWrite(d, [d.hw EXCEPT !.p[p][f] = @ \cup bits])
RxsWriteDet(d, p, errs) == RegWrite(d, [d.hw EXCEPT !.p[p].det = errs, !.p[p].plm = @ \cup (errs \cap {"DLT", "OK2U", "LINK_INIT"})])
RxsCreate(d, p, e) ==
  CASE e = "f_los" -> Then(Then(RegRead(d), LAMBDA x : RxsWriteDet(x, p, x.hw.p[p].det \cup {"DLT", "OK2U"})), LAMBDA x : RxsGen(x, p, "plm", {"DWNGD"}))
    [] e = "f_port_err" -> RxsGen(d, p, "plm", {"PORT_ERR"})
    [] e = "f_err_rate" -> RegWrite(d, [d.hw EXCEPT !.p[p].pbm = @ \cup {"FATAL"}, !.p[p].plm = @ \cup {"PBM_FATAL"}])
    [] e \in {"f_2many_retx", "f_2many_pna"} -> RxsGen(d, p, "plm", {"MAX_DENIAL"})
    [] e = "d_ttl" -> RxsGen(d, p, "pbm", {"TTL"})
    [] e = "d_rte" -> RxsGen(d, p, "tlm", {"LUT"})
    [] e = "i_sig_det" -> RxsWriteDet(d, p, {"LINK_INIT"})
    [] e = "i_rst_req" -> RxsGen(d, p, "plm", {"RST_REQ"})
    [] e \in {"a_clr_pwpnd", "a_no_event", "d_log", "i_init_fail"} -> d
    [] OTHER -> Fail(d, "INVALID")
RxsCreateEvents(d, evs) ==
  LET dev(e) == \E i \in DOMAIN evs : evs[i][1] >= RxsPorts /\ evs[i][2] = e
      One(x, pe) == CASE pe[1] < RxsPorts -> RxsCreate(x, pe[1], pe[2])
                      [] pe[1] >= RxsPorts /\ pe[2] \in {"d_log", "i_init_fail"} -> x
                      [] OTHER -> Fail(x, "INVALID")
      a == ForEach(d, evs, One)
      b == IF dev("d_log") THEN Then(a, LAMBDA x : RegWrite(x, [x.hw EXCEPT !.log = RxsLogErrs])) ELSE a
  IN  IF evs = <<>> THEN Fail(d, "INVALID") ELSE IF dev("i_init_fail") THEN Then(b, LAMBDA x : RegWrite(x, [x.hw EXCEPT !.bl = TRUE])) ELSE b

(* rxs_rio_em_cfg_pw: port-writes go where any port routes their target,   *)
(* found by probing the routing table of each.  Times are rounded up.      *)
RxsTimeUnit == 2
RxsCfgPw(d, in) ==
  LET routes == UNION {d.hw.rte[p].ports : p \in 0..(RxsPorts - 1)}
      probed == ForEach(d, RxsAll, LAMBDA x, p : LET y == RegRead(x) IN IF Ok(y) /\ x.hw.rte[p].k \notin {"port", "mc"} THEN Fail(y, "SW_FAILURE") ELSE y)
      a == Then(probed, LAMBDA x : IF routes = {} THEN Fail(x, "BAD_ROUTE_PORT") ELSE RegWrite(x, [x.hw EXCEPT !.route = routes]))
      tgt == [tt |-> in.tt, did |-> IF in.tt = "dev16" THEN in.did ELSE in.did % 256]
      b == Then(a, LAMBDA x : RegWrite(x, [x.hw EXCEPT !.tgt = tgt]))
      c == Then(Then(b, LAMBDA x : RegWrite(x, [x.hw EXCEPT !.timer = Capped((in.retx + RxsTimeUnit - 1) \div RxsTimeUnit)])), RegRead)
  IN  IF in.prio > 3 \/ in.tt \notin {"dev8", "dev16"} THEN Fail(d, "INVALID")
      ELSE [c EXCEPT !.out = [tt |-> c.hw.tgt.tt, did |-> c.hw.tgt.did, prio |-> 3, crf |-> TRUE, retx |-> c.hw.timer * RxsTimeUnit]]
=============================================================================
