------------------------------- MODULE EmCps -------------------------------
(***************************************************************************)
(* Error management of the CPS family (librio/src/CPS_EM.c).               *)
(*                                                                         *)
(* Registers of a port, hw.p[p]: ctl (PORT_X_CTL_1), rtEn, rate, cnt and   *)
(* thr (the error rate counter and its failure threshold), det and rpt     *)
(* (ERR_DET and its report enables), iDet, iRpt and iRt (IMPL_SPEC_ERR_DET *)
(* with its report and rate enables), lim and limEn (the limit of          *)
(* retries), lane, laneDet and laneOps (rate enable, errors and            *)
(* notification of its lanes, which are set alike), ops (PORT_X_OPS), stat *)
(* (ERR_STAT), ok (link trained), fast (above 3.125 Gbaud), st ("none"     *)
(* when no lane is assigned to the port, "down" or "up").  Of the device:  *)
(* logEn, logRpt, log, ttl, fatal (FATAL_ERR_PKT_MGT), i2c and aux (boot   *)
(* load checks), bl, ltOps and i2cOps, tgt, pri and timer (port-writes).   *)
(*                                                                         *)
(* d.extra is what the stack of the caller holds: port, the element after  *)
(* the last of a list of ports, and wr, the flag wr_dev_ctl_regs.          *)
(***************************************************************************)
EXTENDS EmBase

CONSTANTS CpsPorts, CpsTtlUnit

(* CPSGEN2_ERR_RATE_EVENT_EXCLUSIONS, CPSGEN2_ALL_LOG *)
CpsExcl == {"IMP_SPEC", "CS_NOT_ACC", "LR_ACKID_ILL"}
CpsAllLog == {"UNSUP", "UNS_RSP"}
CpsAllErrs == {RecErrs[i] : i \in DOMAIN RecErrs} \ CpsExcl
CpsList(l) == GetPortList(l, CpsPorts, {})
HasLanes(hw, p) == p # NoPort /\ hw.p[p].st # "none"
NoRate == [rr |-> 0, rb |-> "none"]

(* After a reset SET_ACKID is enabled. *)
CpsPortReset ==
  [ctl |-> {}, rtEn |-> {}, rate |-> NoRate, cnt |-> 0, thr |-> 0, det |-> {}, rpt |-> {}, iDet |-> {}, iRpt |-> {"SET_ACKID"}, iRt |-> {},
   lim |-> MaxThresh, limEn |-> FALSE, lane |-> FALSE, laneDet |-> FALSE, laneOps |-> {}, ops |-> {}, stat |-> {}, ok |-> TRUE,
   fast |-> FALSE, st |-> "up"]
CpsReset ==
  [p |-> [p \in 0..(CpsPorts - 1) |-> CpsPortReset], logEn |-> {}, logRpt |-> {}, log |-> {}, ttl |-> 0, fatal |-> TRUE, i2c |-> FALSE,
   aux |-> FALSE, bl |-> FALSE, ltOps |-> {}, i2cOps |-> {}, tgt |-> [tt |-> "dev8", did |-> 0], pri |-> 0, timer |-> 0]

(* The counter of errors that are counted; the port fails at the threshold. *)
CpsCount(r) ==
  [r EXCEPT !.cnt = Capped(@ + 1), !.stat = IF r.thr # 0 /\ r.cnt + 1 >= r.thr THEN @ \cup {"OUTPUT_FAIL"} ELSE @]
CpsUpdate(d, p, r) == Update(d, [d.hw EXCEPT !.p[p] = r])
CpsWrite(d, p, r) == RegWrite(d, [d.hw EXCEPT !.p[p] = r])

-----------------------------------------------------------------------------
(* cps_get_event_cfg_reg_vals: SET_ACKID says that the events of the port  *)
(* were never set up, they are cleared then.                               *)
CpsDevRegs == {"logEn", "ttl", "fatal", "i2c", "aux"}
CpsPortRegs == {"ctl", "rtEn", "rate", "thr", "rpt", "iRpt", "iRt", "lim", "limEn", "lane"}
CpsGetRegs(d, p) ==
  LET fresh == "SET_ACKID" \in d.hw.p[p].iRt \cup d.hw.p[p].iRpt
      r == [f \in CpsDevRegs \cup CpsPortRegs |->
              IF fresh /\ f \in {"iRt", "iRpt"} THEN {} ELSE IF f \in CpsDevRegs THEN d.hw[f] ELSE d.hw.p[p][f]]
  IN  [RegRead(d) EXCEPT !.w = [r |-> r, wrRate |-> FALSE, wrDev |-> @.wrDev, wrDet |-> fresh]]

(* cps_set_event_cfg_reg_vals *)
CpsSetRegs(d, p) ==
  LET w == d.w
      r == [w.r EXCEPT !.rpt = Switch(@, {"IMP_SPEC"}, w.r.iRpt # {})]
      Port(x, f) == RegWrite(x, [x.hw EXCEPT !.p[p][f] = r[f]])
      Dev(x, f) == RegWrite(x, [x.hw EXCEPT ![f] = r[f]])
      If(x, cond, F(_)) == IF Ok(x) /\ cond THEN F(x) ELSE x
      a == Then(Then(Port(d, "ctl"), LAMBDA x : Dev(x, "logEn")), LAMBDA x : RegWrite(x, [x.hw EXCEPT !.logRpt = r.logEn]))
      b == Then(Then(a, LAMBDA x : Dev(x, "ttl")), LAMBDA x : Port(x, "rtEn"))
      c == If(b, w.wrRate, LAMBDA x : RegWrite(x, [x.hw EXCEPT !.p[p].rate = r.rate, !.p[p].cnt = 0]))
      e == Then(c, LAMBDA x : ForEach(x, <<"thr", "rpt", "iRpt", "iRt", "limEn", "lim", "lane">>, Port))
      f == If(e, w.wrDev, LAMBDA x : ForEach(x, <<"fatal", "i2c", "aux">>, Dev))
      g == If(f, w.wrDet, LAMBDA x : RegWrite(x, [x.hw EXCEPT !.p[p].det = {}]))
  IN  If(g, w.wrDet, LAMBDA x : RegWrite(x, [x.hw EXCEPT !.p[p].iDet = {}]))

(* cps_em_f_los_ctl: what makes packets stop stays; the threshold is only  *)
(* changed when nothing else is counted.                                   *)
Stopping == {"STOP", "DROP"}
CpsSetLos(d, ev) ==
  LET on == ev.det = "on"
      a == [d.w.r EXCEPT !.lane = on, !.iRt = Switch(@, {"LOA"}, on)]
      b == IF on THEN [a EXCEPT !.iRpt = @ \cup {"ERR_RATE"}, !.rpt = @ \cup {"IMP_SPEC"}, !.ctl = @ \cup Stopping, !.rtEn = @ \cup {"IMP_SPEC"}]
                 ELSE a
      alone == b.iRt \subseteq {"LOA"} /\ b.rtEn \subseteq {"IMP_SPEC"}
  IN  [d EXCEPT !.w.wrRate = TRUE, !.w.r = IF alone THEN [b EXCEPT !.rate = NoRate, !.thr = IF on THEN 1 ELSE 0] ELSE b]

(* The parts of cps_set_event_en_cfg; values are cut to their field. *)
Cut(n) == n % (MaxThresh + 1)
CpsSetPortErr(d, on) ==
  [d EXCEPT !.w.r.rpt = Switch(@, {"LR_ACKID_ILL"}, on), !.w.r.iRpt = Switch(@, {"FATAL_TO"}, on), !.w.r.fatal = @ /\ ~on]
CpsSetRetx(d, ev) ==
  LET on == ev.det = "on"
  IN  IF on /\ Cut(ev.info) = 0 THEN Fail(d, "INVALID")
      ELSE [d EXCEPT !.w.r.iRpt = Switch(@, {"MANY_RETRY"}, on), !.w.r.lim = IF on THEN Cut(ev.info) ELSE MaxThresh, !.w.r.limEn = on]
CpsSetPna(d, ev) ==
  LET on == ev.det = "on"
      a == [d.w.r EXCEPT !.iRt = Switch(@, {"PNA"}, on), !.rpt = IF on THEN @ \cup {"IMP_SPEC"} ELSE @, !.ctl = IF on THEN @ \cup Stopping ELSE @]
      alone == on /\ a.rtEn \subseteq CpsExcl
  IN  IF alone /\ Cut(ev.info) = 0 THEN Fail(d, "INVALID")
      ELSE [d EXCEPT !.w.wrRate = TRUE, !.w.r = IF alone THEN [a EXCEPT !.rate = NoRate, !.thr = Cut(ev.info)] ELSE a]
CpsSetErrRate(d, ev) ==
  LET i == GetErrRateInfo(ev.info)
      kept == d.w.r.rtEn \cap CpsExcl
      r == IF ev.det = "on" THEN [d.w.r EXCEPT !.rtEn = (i.en \ CpsExcl) \cup kept, !.rate = i.rate, !.thr = i.thr, !.ctl = @ \cup Stopping]
                            ELSE [d.w.r EXCEPT !.rtEn = kept]
  IN  IF ev.det = "on" /\ ~i.ok THEN Fail(d, "INVALID") ELSE [d EXCEPT !.w.wrRate = TRUE, !.w.r = r]
CpsSetTtl(d, ev) ==
  LET on == ev.det = "on"
      ttl == Cut((ev.info + CpsTtlUnit - 1) \div CpsTtlUnit)
  IN  IF on /\ ttl = 0 THEN Fail(d, "INVALID")
      ELSE [d EXCEPT !.w.r.ttl = IF on THEN ttl ELSE 0, !.w.r.iRpt = Switch(@, {"TTL"}, on)]
CpsSetLog(d, ev) == [d EXCEPT !.w.r.logEn = IF ev.det = "on" THEN ev.info \cap CpsAllLog ELSE {}, !.w.wrDev = TRUE]

(* With em_info 0 a port that is up is not set to wait for a signal, and a *)
(* port that is not up goes on waiting.                                    *)
CpsSetSigDet(d, p, ev) ==
  LET on == ev.det = "on"
      a == IF ev.info = 0 THEN RegRead(d) ELSE d
  IN  IF ev.info = 0 /\ on = d.hw.p[p].ok THEN a ELSE [a EXCEPT !.w.r.iRpt = Switch(@, {"PORT_INIT"}, on)]
CpsSetInitFail(d, ev) == [d EXCEPT !.w.r.i2c = ev.det = "on", !.w.r.aux = ev.det = "on", !.w.wrDev = TRUE]

(* cps_set_event_en_cfg *)
CpsSetEvent(d, p, ev) ==
  CASE ev.e = "last" -> Fail(d, "INVALID")
    [] ev.e = "f_los" -> CpsSetLos(d, ev)
    [] ev.e = "f_port_err" -> CpsSetPortErr(d, ev.det = "on")
    [] ev.e = "f_2many_retx" -> CpsSetRetx(d, ev)
    [] ev.e = "f_2many_pna" -> CpsSetPna(d, ev)
    [] ev.e = "f_err_rate" -> CpsSetErrRate(d, ev)
    [] ev.e = "d_ttl" -> CpsSetTtl(d, ev)
    [] ev.e = "d_rte" -> [d EXCEPT !.w.r.iRpt = Switch(@, {"RTE"}, ev.det = "on")]
    [] ev.e = "d_log" -> CpsSetLog(d, ev)
    [] ev.e = "i_sig_det" -> CpsSetSigDet(d, p, ev)
    [] ev.e = "i_init_fail" -> CpsSetInitFail(d, ev)
    [] OTHER -> d

-----------------------------------------------------------------------------
(* cps_set_pw_cfg and cps_set_int_cfg: bit of the ports and their lanes,   *)
(* and of the device if there is more than one port.                       *)
CpsSetNotfn(d, ps, n, bit, on) ==
  LET Port(x, p) ==
        LET a == CpsUpdate(x, p, [x.hw.p[p] EXCEPT !.ops = Switch(@, {bit}, on)])
        IN  IF HasLanes(x.hw, p) THEN Then(a, LAMBDA y : CpsUpdate(y, p, [y.hw.p[p] EXCEPT !.laneOps = Switch(@, {bit}, on)])) ELSE x
      Dev(x) == Then(Update(x, [x.hw EXCEPT !.ltOps = Switch(@, {bit}, on)]), LAMBDA y : RegWrite(y, [y.hw EXCEPT !.i2cOps = Switch(@, {bit}, on)]))
  IN  CASE n = "last" -> Fail(d, "INVALID") [] n = "0delta" -> d
        [] OTHER -> Then(ForEach(d, ps, Port), LAMBDA x : IF Len(ps) > 1 THEN Dev(x) ELSE x)
CpsSetPwCfg(d, ps, n) == CpsSetNotfn(d, ps, n, "PW", ByPw(n))
CpsSetIntCfg(d, ps, n) == CpsSetNotfn(d, ps, n, "INT", ByInt(n))

(* cps_determine_notfn: the loop ends after the element that follows the   *)
(* list.                                                                   *)
CpsDetermineNotfn(d, ps) ==
  LET read == SelectSeq(Append(ps, d.extra.port), LAMBDA p : HasLanes(d.hw, p))
      ns == {NotfnOf("INT" \in d.hw.p[p].ops, "PW" \in d.hw.p[p].ops) : p \in {read[i] : i \in DOMAIN read}}
  IN  IF ns = {} THEN Fail([d EXCEPT !.out.notfn = "last"], "INVALID")
      ELSE Then(RegRead(d), LAMBDA x : [x EXCEPT !.out.notfn = IF Cardinality(ns) = 1 THEN CHOOSE n \in ns : TRUE ELSE "0delta"])

CpsSetPort(d, p, evs) ==
  LET Pass(x, det) == ForEach(x, evs, LAMBDA y, ev : IF ev.det = det THEN CpsSetEvent(y, p, ev) ELSE y)
  IN  Then(Then(Then(CpsGetRegs(d, p), LAMBDA x : Pass(x, "off")), LAMBDA x : Pass(x, "on")), LAMBDA x : CpsSetRegs(x, p))

(* CPS_rio_em_cfg_set *)
CpsCfgSet(d, l, n, evs) ==
  LET ps == CpsList(l)
      a == Then(RegRead([d EXCEPT !.w = [wrDev |-> d.extra.wr]]), LAMBDA x :
             ForEach(x, SelectSeq(ps, LAMBDA p : x.hw.p[p].st = "up"), LAMBDA y, p : CpsSetPort(y, p, evs)))
      b == Then(Then(a, LAMBDA x : CpsSetIntCfg(x, ps, n)), LAMBDA x : CpsSetPwCfg(x, ps, n))
  IN  IF ps = <<>> THEN Fail(d, "INVALID")
      ELSE Then([b EXCEPT !.out.notfn = n], LAMBDA x : IF n = "0delta" /\ Len(ps) = 1 THEN CpsDetermineNotfn(x, ps) ELSE x)

(* CPS_rio_em_dev_rpt_ctl *)
CpsRptCtl(d, l, n) ==
  LET ps == CpsList(l)
      a == Then(Then(RegRead(d), LAMBDA x : CpsSetIntCfg(x, ps, n)), LAMBDA x : CpsSetPwCfg(x, ps, n))
  IN  IF ps = <<>> THEN Fail(d, "INVALID")
      ELSE Then([a EXCEPT !.out.notfn = n], LAMBDA x : IF n = "0delta" /\ Len(ps) = 1 THEN CpsDetermineNotfn(x, ps) ELSE x)

(* CPS_rio_em_cfg_get: for i_sig_det it tests the bit of PORT_INIT in      *)
(* ERR_RPT_EN, where that bit is LR_ACKID_ILL.                             *)
CpsDetect(hw, p, e) ==
  LET r == hw.p[p]
  IN  CASE e = "f_los" -> r.lane
        [] e = "f_port_err" -> "FATAL_TO" \in r.iRpt \/ "LR_ACKID_ILL" \in r.rpt
        [] e = "f_2many_retx" -> "MANY_RETRY" \in r.iRpt
        [] e = "f_2many_pna" -> "PNA" \in r.iRt
        [] e = "f_err_rate" -> r.rtEn \ CpsExcl # {}
        [] e = "d_ttl" -> "TTL" \in r.iRpt
        [] e = "d_rte" -> "RTE" \in r.iRpt
        [] e = "d_log" -> hw.logEn # {}
        [] e = "i_sig_det" -> "LR_ACKID_ILL" \in r.rpt
        [] e = "i_init_fail" -> hw.i2c
        [] OTHER -> FALSE
CpsInfo(hw, p, e) ==
  LET r == hw.p[p]
  IN  CASE ~CpsDetect(hw, p, e) -> 0
        [] e \in {"f_los", "f_port_err"} /\ CpsDetect(hw, p, e) -> 1
        [] e = "f_2many_retx" /\ CpsDetect(hw, p, e) -> r.lim
        [] e = "f_2many_pna" /\ CpsDetect(hw, p, e) -> r.thr
        [] e = "f_err_rate" /\ CpsDetect(hw, p, e) -> ComputeErrRateInfo(r.rtEn \ CpsExcl, r.rate, r.thr)
        [] e = "d_ttl" /\ CpsDetect(hw, p, e) -> hw.ttl * CpsTtlUnit
        [] e = "d_log" /\ CpsDetect(hw, p, e) -> hw.logEn
        [] OTHER -> 0
CpsCfgGet(d, p, es) ==
  LET One(x, e) == IF e = "last" THEN Fail(x, "INVALID")
                   ELSE [x EXCEPT !.out.cfg = Append(@, [e |-> e, det |-> CpsDetect(x.hw, p, e), info |-> CpsInfo(x.hw, p, e)])]
  IN  IF p >= CpsPorts THEN Fail(d, "INVALID")
      ELSE Then(RegRead(d), LAMBDA x :
             IF x.hw.p[p].st # "up" THEN Fail(x, "NO_PORT") ELSE Then(ForEach(x, es, One), LAMBDA y : CpsDetermineNotfn(y, <<p>>)))

-----------------------------------------------------------------------------
(* Port-writes.  src and code are the two numbers that name an error, in   *)
(* the tables port_err_codes, lane_err_codes, i2c_err_codes and            *)
(* CPS_err_sources.                                                        *)
PortErrCodes == <<<<119, "f_los">>, <<139, "f_port_err">>, <<140, "f_port_err">>, <<170, "f_2many_retx">>, <<167, "f_err_rate">>,
                  <<164, "d_ttl">>, <<161, "d_rte">>, <<162, "d_rte">>, <<163, "d_rte">>, <<169, "d_rte">>, <<133, "i_sig_det">>>>
LaneErrCodes == <<<<96, "f_los">>, <<97, "f_los">>>>
I2cErrCodes == <<<<16, "i_init_fail">>, <<20, "i_init_fail">>>>
PortSources == <<42, 41, 52, 51, 50, 49, 60, 59, 58, 57, 61, 62, 28, 29, 39, 38, 37, 36>>

(* cps_find_event_code *)
FindCode(d, p, code, table) ==
  LET at == {i \in DOMAIN table : table[i][1] = code}
  IN  IF at = {} THEN Other(d, TRUE) ELSE [d EXCEPT !.out.events = <<<<p, table[CHOOSE i \in at : TRUE][2]>>>>]

(* cps_parse_std_pw: without an error number the port-write is a repeated *)
(* one.                                                                    *)
CpsParseStd(d, pw) ==
  LET repeated == pw.src = 0 /\ pw.code < 16
      port == IF "LR_ACKID_ILL" \in pw.det THEN [d EXCEPT !.out.events = <<<<pw.port, "f_port_err">>>>] ELSE d
  IN  CASE pw.log -> [d EXCEPT !.out.events = <<<<pw.port, "d_log">>>>]
        [] ~pw.log /\ pw.det # {} -> IF pw.src = 0 /\ pw.code = 0 THEN Other(port, pw.det \ {"LR_ACKID_ILL"} # {})
                                     ELSE FindCode(d, pw.port, pw.code, PortErrCodes)
        [] ~pw.log /\ pw.det = {} /\ ~repeated /\ pw.src < 16 -> FindCode(d, NoPort, pw.code, I2cErrCodes)
        [] ~pw.log /\ pw.det = {} /\ pw.src \in 64..111 -> FindCode(d, NoPort, pw.code, LaneErrCodes)
        [] OTHER -> Other(d, TRUE)

(* cps_parse_el_pw: of the two numbers the masks keep 6 and 8 bits, and    *)
(* the shifts then drop 4 of each.                                         *)
CpsParseEl(d, pw) ==
  LET src == (pw.src % 64) \div 16
      code == pw.code \div 16
      at == {i \in DOMAIN PortSources : PortSources[i] = src}
  IN  CASE at # {} -> FindCode(d, (CHOOSE i \in at : TRUE) - 1, code, PortErrCodes)
        [] at = {} /\ src \in 64..111 -> FindCode(d, NoPort, code, LaneErrCodes)
        [] at = {} /\ src = 0 -> FindCode(d, NoPort, code, I2cErrCodes)
        [] OTHER -> d

(* CPS_rio_em_parse_pw: the component tag says which format it is. *)
CpsParsePw(d, pw) ==
  LET e == [d EXCEPT !.out = NoEvents]
  IN  IF d.room = 0 \/ d.room > Cardinality(Events) THEN Fail(e, "INVALID") ELSE IF pw.std THEN CpsParseStd(e, pw) ELSE CpsParseEl(e, pw)

-----------------------------------------------------------------------------
(* The asserted events of a port (of CPS_rio_em_get_int_stat and           *)
(* CPS_rio_em_get_pw_stat, which do not look at how the port notifies);    *)
(* "loa" is the loss of alignment of a port that did not fail.             *)
CpsRaised(r, e) ==
  LET failed == "OUTPUT_FAIL" \in r.stat
  IN  CASE e = "f_los" -> failed /\ (r.laneDet \/ "LOA" \in r.iDet)
        [] e = "f_err_rate" -> failed /\ r.det \ CpsExcl # {}
        [] e = "f_2many_pna" -> failed /\ "PNA" \in r.iDet
        [] e = "loa" -> ~(failed /\ r.lane) /\ "LOA" \in r.iDet
        [] e = "f_port_err" -> "FATAL_TO" \in r.iDet \/ "LR_ACKID_ILL" \in r.det \/ "PORT_ERR" \in r.stat
        [] e = "f_2many_retx" -> "MANY_RETRY" \in r.iDet
        [] e = "d_ttl" -> "TTL" \in r.iDet
        [] e = "d_rte" -> "RTE" \in r.iDet
        [] e = "i_sig_det" -> "PORT_INIT" \in r.iDet
        [] OTHER -> FALSE
CpsEnabled(r, e) ==
  CASE e = "f_los" -> r.lane
    [] e = "f_err_rate" -> r.rtEn \ CpsExcl # {}
    [] e = "f_2many_pna" -> "PNA" \in r.iRt
    [] e = "loa" -> "LOA" \in r.iRt
    [] e = "f_port_err" -> "FATAL_TO" \in r.iRpt
    [] e = "f_2many_retx" -> "MANY_RETRY" \in r.iRpt
    [] e = "d_ttl" -> "TTL" \in r.iRpt
    [] e = "d_rte" -> "RTE" \in r.iRpt
    [] e = "i_sig_det" -> "PORT_INIT" \in r.iRpt
    [] OTHER -> FALSE
CpsChecked == {"ERR_RATE", "LOA", "PNA", "FATAL_TO", "MANY_RETRY", "TTL", "RTE", "PORT_INIT"}
CpsPortStat(d, p) ==
  LET r == d.hw.p[p]
      One(x, e) ==
        IF ~CpsRaised(r, e) THEN x
        ELSE IF CpsEnabled(r, e) THEN AddEvent(x, p, IF e = "loa" THEN "f_los" ELSE e) ELSE Other(x, TRUE)
      a == ForEach(RegRead(d), <<"f_los", "f_err_rate", "f_2many_pna", "loa", "f_port_err", "f_2many_retx", "d_ttl", "d_rte", "i_sig_det">>, One)
  IN  Then(a, LAMBDA x : Other(x, (r.iDet \ CpsChecked) \cap (r.iRpt \cup r.iRt) # {}))
CpsPwPortStat(d, p) ==
  Then(CpsPortStat(d, p), LAMBDA x : AddIf(x, x.out.events # d.out.events \/ "PWP" \in x.hw.p[p].stat, p, "a_clr_pwpnd"))

(* Events of the device come first. *)
CpsDevStat(d) ==
  LET One(x, cond, en, e) == IF ~cond THEN x ELSE IF en THEN AddEvent(x, NoPort, e) ELSE Other(x, TRUE)
      a == Then(RegRead(d), LAMBDA x : One(x, x.hw.log # {}, x.hw.logEn # {}, "d_log"))
  IN  Then(Then(a, RegRead), LAMBDA x : One(x, x.hw.bl, x.hw.aux, "i_init_fail"))
CpsUp(d, l) == SelectSeq(CpsList(l), LAMBDA p : d.hw.p[p].st = "up")
CpsStat(d, l, F(_, _)) ==
  LET e == [d EXCEPT !.out = NoEvents]
  IN  IF d.room = 0 \/ CpsList(l) = <<>> THEN Fail(e, "INVALID")
      ELSE Then(RegRead(e), LAMBDA x : Then(CpsDevStat(x), LAMBDA y : ForEach(y, CpsUp(x, l), F)))

CpsIntStat(d, l) == CpsStat(d, l, CpsPortStat)
CpsPwStat(d, l, pwp) == IF pwp >= CpsPorts /\ pwp # NoPort THEN Fail([d EXCEPT !.out = NoEvents], "INVALID") ELSE CpsStat(d, l, CpsPwPortStat)

-----------------------------------------------------------------------------
(* Events of the device have no port, all others have one. *)
CpsEventOk(pe) ==
  /\ pe[1] = NoPort \/ pe[1] < CpsPorts
  /\ pe[2] # "last"
  /\ (pe[1] = NoPort) = (pe[2] \in {"d_log", "i_init_fail"})

(* read_err_info: d.w.e are the registers of the ports and what is to be   *)
(* done with them, d.w.fail the local clear_port_fail.                     *)
CpsReadErr(d) ==
  [RegRead(d) EXCEPT !.w = [fail |-> FALSE,
     e |-> [p \in 0..(CpsPorts - 1) |-> LET r == d.hw.p[p]
              IN  [det |-> r.det, iDet |-> r.iDet, cnt |-> r.cnt, stat |-> r.stat, wr |-> FALSE, pwp |-> FALSE, ack |-> FALSE]]]]

(* write_err_info: of the errors only what changed is written, the status  *)
(* only if its copy lost PW_PNDG; every 1 written to it clears a bit.  To  *)
(* write the ackIDs sets SET_ACKID.                                        *)
CpsWriteErr(d, p) ==
  LET e == d.w.e[p]
      o == d.hw.p[p]
      If(x, cond, F(_)) == IF Ok(x) /\ cond THEN CpsWrite(x, p, F(x.hw.p[p])) ELSE x
      a == If(d, e.ack, LAMBDA r : [r EXCEPT !.iDet = @ \cup {"SET_ACKID"}])
      b == If(If(a, e.det # o.det, LAMBDA r : [r EXCEPT !.det = e.det]), e.iDet # o.iDet, LAMBDA r : [r EXCEPT !.iDet = e.iDet])
      c == If(If(b, e.wr /\ e.cnt # o.cnt, LAMBDA r : [r EXCEPT !.cnt = 0]), e.wr /\ e.stat # o.stat, LAMBDA r : [r EXCEPT !.stat = @ \ e.stat])
  IN  If(c, e.pwp, LAMBDA r : [r EXCEPT !.stat = @ \ (e.stat \cup {"PWP"})])

(* The switch of CPS_rio_em_clr_events. *)
CpsClrEvent(d, p, e) ==
  LET Drop(x, bits) == [x EXCEPT !.w.e[p].iDet = @ \ bits]
      Failed(x) == [x EXCEPT !.w.fail = TRUE]
  IN  CASE e = "f_los" -> Failed(Drop(CpsUpdate(d, p, [d.hw.p[p] EXCEPT !.laneDet = FALSE]), {"LOA", "ERR_RATE"}))
        [] e = "f_port_err" -> Failed([d EXCEPT !.w.e[p].iDet = {}, !.w.e[p].det = {}])
        [] e = "f_2many_retx" -> Failed(Update(Drop(d, {"MANY_RETRY"}), d.hw))
        [] e = "f_2many_pna" -> Failed(Drop(d, {"PNA"}))
        [] e = "f_err_rate" -> Failed([d EXCEPT !.w.e[p].det = @ \cap CpsExcl])
        [] e = "i_init_fail" -> Update(d, [d.hw EXCEPT !.bl = FALSE])
        [] e = "d_ttl" -> Drop(d, {"TTL"})
        [] e = "d_rte" -> Drop(d, {"RTE"})
        [] e = "d_log" -> Then(RegWrite(d, d.hw), LAMBDA x : RegWrite(x, [x.hw EXCEPT !.log = {}]))
        [] e = "i_sig_det" -> Drop(d, {"PORT_INIT"})
        [] e = "a_clr_pwpnd" -> [d EXCEPT !.w.e[p].pwp = TRUE]
        [] OTHER -> d

(* CPS_rio_em_clr_events: from the first event that made its port fail on, *)
(* the port of every event is made to work again.  An event without a port *)
(* is then outside of the array of ports: "STRAY".                         *)
CpsUnfail(d, p) ==
  IF ~d.w.fail THEN d
  ELSE IF p = NoPort THEN Fail(d, "STRAY")
  ELSE [d EXCEPT !.w.e[p] = [@ EXCEPT !.iDet = @ \ {"ERR_RATE"}, !.det = @ \ {"IMP_SPEC"}, !.cnt = 0, !.stat = @ \ {"PWP"}, !.wr = TRUE, !.ack = TRUE]]
CpsClrEvents(d, evs) ==
  LET e == [d EXCEPT !.out = [int |-> FALSE, pw |-> FALSE]]
      One(x, pe) == IF ~CpsEventOk(pe) THEN Fail(x, "INVALID") ELSE Then(CpsClrEvent(x, pe[1], pe[2]), LAMBDA y : CpsUnfail(y, pe[1]))
      a == Then(CpsReadErr(e), LAMBDA x : ForEach(x, evs, One))
  IN  IF evs = <<>> THEN Fail(e, "INVALID")
      ELSE Then(a, LAMBDA x : ForEach(x, SelectSeq(Count(CpsPorts), LAMBDA p : HasLanes(x.hw, p)), CpsWriteErr))

-----------------------------------------------------------------------------
(* cps_create_rate_event: as many errors as the threshold. *)
CpsRateErrors(r) == r.thr
CpsCreateRate(d, p, enabled, Detected(_)) ==
  Then(RegRead(d), LAMBDA x :
    IF ~enabled \/ x.hw.p[p].thr = 0 THEN Fail(x, "NOT_SUP_BY_CONFIG")
    ELSE ForEach(x, Count(CpsRateErrors(x.hw.p[p])), LAMBDA y, i : CpsWrite(y, p, CpsCount(Detected(y.hw.p[p])))))

(* cps_rio_em_create_events_rio_em_f_los, ..._f_port_err and the others.   *)
(* A link-request after the ackIDs were changed stops the port.            *)
CpsCreateLos(d, p) ==
  LET r == d.hw.p[p]
  IN  IF r.fast THEN CpsCreateRate(d, p, r.lane, LAMBDA q : [q EXCEPT !.laneDet = TRUE])
                ELSE CpsCreateRate(d, p, "LOA" \in r.iRt, LAMBDA q : [q EXCEPT !.iDet = @ \cup {"LOA"}])
CpsCreatePortErr(d, p) ==
  LET r == d.hw.p[p]
      a == CpsUpdate(RegRead(d), p, [r EXCEPT !.iDet = @ \cup {"SET_ACKID"}])
      b == Then(a, LAMBDA x : CpsUpdate(x, p, [x.hw.p[p] EXCEPT !.iDet = @ \ {"SET_ACKID"}]))
      c == Then(Then(b, LAMBDA x : CpsWrite(x, p, [x.hw.p[p] EXCEPT !.stat = @ \cup {"PORT_ERR"}])), RegRead)
  IN  IF d.left > 0 /\ "FATAL_TO" \notin r.iRpt THEN Fail(d, "NOT_SUP_BY_CONFIG")
      ELSE Then(c, LAMBDA x : CpsWrite(x, p, IF r.fast THEN [x.hw.p[p] EXCEPT !.iDet = {"FATAL_TO"}] ELSE [x.hw.p[p] EXCEPT !.det = {"LR_ACKID_ILL"}]))
CpsCreateRetx(d, p) ==
  Then(RegRead(d), LAMBDA x : IF "MANY_RETRY" \notin x.hw.p[p].iRpt THEN Fail(x, "NOT_SUP_BY_CONFIG")
                              ELSE CpsUpdate(x, p, [x.hw.p[p] EXCEPT !.iDet = @ \cup {"MANY_RETRY"}]))

(* These write the register with nothing but the new error. *)
CpsCreateOnly(d, p, enabled, err) ==
  Then(RegRead(d), LAMBDA x : IF ~enabled THEN Fail(x, "NOT_SUP_BY_CONFIG") ELSE CpsWrite(x, p, [x.hw.p[p] EXCEPT !.iDet = {err}]))
CpsCreateTtl(d, p) == CpsCreateOnly(d, p, d.hw.ttl # 0, "TTL")
CpsCreateRte(d, p) == CpsCreateOnly(d, p, "RTE" \in d.hw.p[p].iRpt, "RTE")
CpsCreateSigDet(d, p) == CpsCreateOnly(d, p, "PORT_INIT" \in d.hw.p[p].iRpt, "PORT_INIT")
CpsCreateLog(d) ==
  Then(RegRead(d), LAMBDA x : IF x.hw.logEn = {} THEN Fail(x, "NOT_SUP_BY_CONFIG") ELSE RegWrite(x, [x.hw EXCEPT !.log = CpsAllLog]))
CpsCreateInitFail(d) ==
  Then(RegRead(d), LAMBDA x : IF ~x.hw.i2c THEN Fail(x, "NOT_SUP_BY_CONFIG") ELSE RegWrite(x, [x.hw EXCEPT !.bl = TRUE]))

(* CPS_rio_em_create_events *)
CpsCreate(d, p, e) ==
  CASE e = "f_los" -> CpsCreateLos(d, p)
    [] e = "f_port_err" -> CpsCreatePortErr(d, p)
    [] e = "f_2many_retx" -> CpsCreateRetx(d, p)
    [] e = "f_2many_pna" -> CpsCreateRate(d, p, "PNA" \in d.hw.p[p].iRt, LAMBDA q : [q EXCEPT !.iDet = @ \cup {"PNA"}])
    [] e = "f_err_rate" -> CpsCreateRate(d, p, d.hw.p[p].rtEn \ CpsExcl # {}, LAMBDA q : [q EXCEPT !.det = @ \cup CpsAllErrs])
    [] e = "d_ttl" -> CpsCreateTtl(d, p)
    [] e = "d_rte" -> CpsCreateRte(d, p)
    [] e = "d_log" -> CpsCreateLog(d)
    [] e = "i_sig_det" -> CpsCreateSigDet(d, p)
    [] e = "i_rst_req" -> Fail(d, "FEATURE_NOT_SUPPORTED")
    [] e = "i_init_fail" -> CpsCreateInitFail(d)
    [] OTHER -> Fail(d, "INVALID")
CpsCreateEvents(d, evs) ==
  LET One(x, pe) == CASE ~CpsEventOk(pe) -> Fail(x, "INVALID")
                      [] CpsEventOk(pe) /\ pe[1] # NoPort /\ x.hw.p[pe[1]].st # "up" -> x
                      [] OTHER -> CpsCreate(x, pe[1], pe[2])
  IN  IF evs = <<>> THEN Fail(d, "INVALID") ELSE ForEach(RegRead(d), evs, One)

(* CPS_rio_em_cfg_pw *)
CpsCfgPw(d, in) ==
  LET tgt == [tt |-> in.tt, did |-> IF in.tt = "dev8" THEN in.did % 256 ELSE in.did]
      a == Then(RegWrite(d, [d.hw EXCEPT !.tgt = tgt]), LAMBDA x : RegWrite(x, [x.hw EXCEPT !.pri = in.prio]))
      b == Then(Then(a, LAMBDA x : RegWrite(x, [x.hw EXCEPT !.timer = in.retx])), RegRead)
  IN  IF in.prio > 3 THEN Fail(d, "INVALID")
      ELSE Then(b, LAMBDA x : [x EXCEPT !.out = [tt |-> x.hw.tgt.tt, did |-> x.hw.tgt.did, prio |-> x.hw.pri, crf |-> FALSE, retx |-> x.hw.timer]])
=============================================================================
