------------------------------ MODULE EmTsi57x ------------------------------
(***************************************************************************)
(* Error management of the Tsi57x (librio/src/Tsi57x_EM.c).  The ports     *)
(* 2 m and 2 m + 1 share the MAC m.                                        *)
(*                                                                         *)
(* Registers of a port, hw.p[p]: mode (SPX_MODE), indep (SPX_CTL_INDEP)    *)
(* and retry (its threshold), rtEn, rate, thr and cnt (the error rate      *)
(* counter), ctl (SPX_CTL), det (SPX_ERR_DET), stat (SPX_ERR_STATUS), int  *)
(* (SPX_INT_STATUS), rcs (SPX_CS_INT_STATUS), up and ok (powered up, link  *)
(* trained).  Of the device: mac[m] (the dead link timer), glob            *)
(* (GLOB_INT_ENABLE), bl and blInt (the boot load failure), log and logEn, *)
(* tgt, prio and timer (of port-writes).                                   *)
(*                                                                         *)
(* d.extra is the element after the last one of a list of ports on the     *)
(* stack of the caller, which nothing initialises.                         *)
(***************************************************************************)
EXTENDS EmBase

CONSTANTS T57Ports, T57DltUnit

(* EM_ERR_RATE_EVENT_EXCLUSIONS *)
T57Excl == {"DELIN", "CS_NOT_ACC", "IMP_SPEC"}
T57LogErrs == {"ILL_TRANS", "UNSUP"}
Mac(p) == p \div 2
Partner(p) == IF p % 2 = 0 THEN p + 1 ELSE p - 1
T57List(l) == GetPortList(l, T57Ports, {})
Powered(hw, l) == SelectSeq(T57List(l), LAMBDA p : hw.p[p].up)

T57Reset == [p |-> [p \in 0..(T57Ports - 1) |->
    [mode |-> {"SELF_RST", "PW_DIS"}, indep |-> {}, retry |-> 0, rtEn |-> {}, rate |-> [rr |-> 0, rb |-> "none"], thr |-> 0,
     cnt |-> 0, ctl |-> {}, det |-> {}, stat |-> {}, int |-> {}, rcs |-> FALSE, up |-> TRUE, ok |-> TRUE]],
  mac |-> [m \in 0..Mac(T57Ports - 1) |-> [en |-> FALSE, thr |-> 0]],
  glob |-> {}, bl |-> FALSE, blInt |-> FALSE, log |-> {}, logEn |-> {}, tgt |-> [tt |-> "dev8", did |-> 0], prio |-> 0, timer |-> 0]

(* A write to SPX_ERR_DET counts the errors that are counted; the port     *)
(* fails at the threshold.                                                 *)
Counted(r) == [r EXCEPT !.cnt = Capped(@ + 1), !.stat = IF r.thr # 0 /\ r.cnt + 1 >= r.thr THEN @ \cup {"OUTPUT_FAIL"} ELSE @]
WriteDet(r, errs) == LET s == [r EXCEPT !.det = errs] IN IF errs \cap r.rtEn # {} THEN Counted(s) ELSE s
UpdateP(d, p, r) == Update(d, [d.hw EXCEPT !.p[p] = r])

-----------------------------------------------------------------------------
(* Bits of GLOB_INT_ENABLE; that of a port is its number. *)
GlobRcs == 100
GlobI2c == 101

(* tsi57x_set_pw_cfg and tsi57x_set_int_cfg: the loops end after the       *)
(* element that follows the list.                                          *)
T57SetPwCfg(d, ps, n) ==
  LET One(x, p) == IF p = NoPort THEN Update(x, x.hw)
                   ELSE UpdateP(x, p, [x.hw.p[p] EXCEPT !.mode = Switch(@, {"PW_DIS"}, ~ByPw(n))])
  IN  CASE n = "last" -> Fail(d, "INVALID") [] n = "0delta" -> d
        [] OTHER -> ForEach(d, Append(ps, d.extra), One)

T57SetIntPort(r, n) ==
  IF ByInt(n) THEN [r EXCEPT !.mode = IF "RSVD1" \in r.indep THEN @ \cup {"RCS_INT_EN"} ELSE @, !.indep = @ \cup {"IRQ_EN"}]
              ELSE [r EXCEPT !.mode = @ \ {"RCS_INT_EN"}, !.indep = @ \ {"IRQ_EN"}]
T57SetIntCfg(d, ps, n) ==
  LET One(x, p) ==
        IF p = NoPort THEN Update(x, x.hw)
        ELSE LET r == T57SetIntPort(x.hw.p[p], n)
                 y == Then(Update(x, [x.hw EXCEPT !.p[p].mode = r.mode]), LAMBDA z : RegWrite(z, [z.hw EXCEPT !.p[p] = r]))
             IN  [y EXCEPT !.w.glob = Switch(@, {p}, ByInt(n)), !.w.rcs = @ \/ (ByInt(n) /\ "RSVD1" \in r.indep)]
      Top(x) ==
        LET a == IF d.extra # NoPort THEN x.w.glob
                 ELSE IF ByInt(n) THEN Switch(x.w.glob, {GlobRcs}, x.w.rcs) ELSE x.w.glob \ {GlobRcs, GlobI2c}
        IN  RegWrite(x, [x.hw EXCEPT !.glob = IF ByInt(n) THEN Switch(a, {GlobI2c}, x.hw.blInt) ELSE a])
      r == RegRead(d)
  IN  CASE n = "last" -> Fail(d, "INVALID") [] n = "0delta" -> d
        [] OTHER -> Then(ForEach([r EXCEPT !.w = [glob |-> d.hw.glob, rcs |-> FALSE]], Append(ps, d.extra), One), Top)

(* tsi57x_em_determine_notfn *)
T57Notfn(r) == NotfnOf("IRQ_EN" \in r.indep, "PW_DIS" \notin r.mode)
T57DetermineNotfn(d, p) == Then(RegRead(d), LAMBDA x : [x EXCEPT !.out.notfn = T57Notfn(x.hw.p[p])])

-----------------------------------------------------------------------------
(* tsi57x_enable_err_ctr *)
T57EnableErrCtr(d, p, en, mask, rate, thr) ==
  LET a == UpdateP(d, p, [d.hw.p[p] EXCEPT !.rtEn = (@ \ mask) \cup en])
      b == Then(a, LAMBDA x : RegWrite(x, [x.hw EXCEPT !.p[p].rate = rate, !.p[p].cnt = 0]))
      c == Then(b, LAMBDA x : RegWrite(x, [x.hw EXCEPT !.p[p].thr = thr]))
  IN  Then(c, LAMBDA x : UpdateP(x, p, [x.hw.p[p] EXCEPT !.ctl = @ \cup {"DROP"}]))

(* The dead link timer belongs to the MAC.  A time too short for it also   *)
(* makes single delineation errors fatal.  The threshold is cut to the     *)
(* width of its field.                                                     *)
T57SetLos(d, p, ev) ==
  LET time == ev.info \div T57DltUnit
      short == ev.det = "on" /\ time = 0
      dlt == IF ev.det = "on" THEN [en |-> TRUE, thr |-> (IF short THEN 1 ELSE time) % (MaxThresh + 1)] ELSE [en |-> FALSE, thr |-> 0]
      a == Update(d, [d.hw EXCEPT !.mac[Mac(p)] = dlt])
      thr(r) == IF r.rtEn \subseteq {"DELIN"} THEN 1 ELSE r.thr
  IN  Then(a, LAMBDA x :
        IF short THEN Then(RegRead(x), LAMBDA y : T57EnableErrCtr(y, p, {"DELIN"}, {"DELIN"}, y.hw.p[p].rate, thr(y.hw.p[p])))
        ELSE UpdateP(x, p, [x.hw.p[p] EXCEPT !.rtEn = @ \ {"DELIN"}]))

(* Events that the implementation specific error counts. *)
T57ImpSpec(d, p) ==
  Then(RegRead(d), LAMBDA x : T57EnableErrCtr(x, p, {"IMP_SPEC"}, {"IMP_SPEC"}, x.hw.p[p].rate, IF x.hw.p[p].thr = 0 THEN 1 ELSE x.hw.p[p].thr))
T57SetPortErr(d, p, ev) ==
  LET a == Then(RegRead(d), LAMBDA x : IF ev.det = "on" THEN T57ImpSpec(x, p) ELSE x)
  IN  Then(a, LAMBDA x : RegWrite(x, [x.hw EXCEPT !.p[p].indep = Switch(@, {"PORT_ERR_EN"}, ev.det = "on")]))
T57SetRetx(d, p, ev) ==
  LET on == ev.det = "on"
      a == Then(RegRead(d), LAMBDA x : CASE on /\ ev.info = 0 -> Fail(x, "INVALID") [] on /\ ev.info # 0 -> T57ImpSpec(x, p) [] ~on -> x)
  IN  Then(a, LAMBDA x : RegWrite(x, [x.hw EXCEPT !.p[p].indep = Switch(@, {"RETRY_EN"}, on), !.p[p].retry = IF on THEN Capped(ev.info) ELSE 0]))

(* The number of packet-not-accepted is cut to the width of its field. *)
T57SetPna(d, p, ev) ==
  IF ev.det = "on"
  THEN Then(RegRead(d), LAMBDA x : T57EnableErrCtr(x, p, {"CS_NOT_ACC"}, {"CS_NOT_ACC"}, x.hw.p[p].rate, ev.info % (MaxThresh + 1)))
  ELSE UpdateP(d, p, [d.hw.p[p] EXCEPT !.rtEn = @ \ {"CS_NOT_ACC"}])
T57SetErrRate(d, p, ev) ==
  LET i == GetErrRateInfo(ev.info)
      all == {RecErrs[k] : k \in DOMAIN RecErrs} \ T57Excl
  IN  IF ~i.ok THEN Fail(d, "INVALID")
      ELSE IF ev.det = "on" THEN Then(RegRead(d), LAMBDA x : T57EnableErrCtr(x, p, i.en \ T57Excl, all, i.rate, i.thr))
      ELSE UpdateP(d, p, [d.hw.p[p] EXCEPT !.rtEn = @ \cap T57Excl])
T57SetInitFail(d, ev) == Update(d, [d.hw EXCEPT !.blInt = ev.det = "on"])
T57SetLog(d, ev) == Update(d, [d.hw EXCEPT !.logEn = IF ev.det = "on" THEN ev.info \cap T57LogErrs ELSE {}])
T57SetRte(d, p, ev) == UpdateP(d, p, [d.hw.p[p] EXCEPT !.indep = Switch(@, {"ILL_TRANS_EN"}, ev.det = "on")])

(* With em_info 0 a port that is up is not set to wait for a signal, and a *)
(* port that is not up goes on waiting.                                    *)
T57SetSigDet(d, p, ev) ==
  LET on == ev.det = "on"
      s == IF ev.info = 0 THEN RegRead(d) ELSE d
      b == UpdateP(s, p, [s.hw.p[p] EXCEPT !.indep = Switch(@, {"LINK_INIT_EN"}, on)])
  IN  IF Ok(s) /\ ~(ev.info = 0 /\ on = d.hw.p[p].ok)
      THEN Then(b, LAMBDA x : IF on THEN UpdateP(x, p, [x.hw.p[p] EXCEPT !.ctl = @ \cup {"LOCKOUT"}]) ELSE x)
      ELSE s
T57SetRstReq(d, p, ev) ==
  UpdateP(d, p, [d.hw.p[p] EXCEPT !.mode = IF ev.det = "on" THEN (@ \ {"SELF_RST"}) \cup {"RCS_INT_EN"} ELSE @ \ {"RCS_INT_EN"}])

(* tsi57x_set_event_en_cfg *)
T57SetEvent(d, p, ev) ==
  CASE ev.e = "last" -> Fail(d, "INVALID")
    [] ev.e = "f_los" -> T57SetLos(d, p, ev)
    [] ev.e = "f_port_err" -> T57SetPortErr(d, p, ev)
    [] ev.e = "f_2many_retx" -> T57SetRetx(d, p, ev)
    [] ev.e = "f_2many_pna" -> T57SetPna(d, p, ev)
    [] ev.e = "f_err_rate" -> T57SetErrRate(d, p, ev)
    [] ev.e = "i_init_fail" -> T57SetInitFail(d, ev)
    [] ev.e = "d_log" -> T57SetLog(d, ev)
    [] ev.e = "d_rte" -> T57SetRte(d, p, ev)
    [] ev.e = "i_sig_det" -> T57SetSigDet(d, p, ev)
    [] ev.e = "i_rst_req" -> T57SetRstReq(d, p, ev)
    [] OTHER -> d

(* tsi57x_rio_em_cfg_set: per port, what is switched off, then what is     *)
(* switched on; then how the ports notify.                                 *)
T57CfgSet(d, l, n, evs) ==
  LET ps == T57List(l)
      Pass(x, p, det) == ForEach(x, evs, LAMBDA y, ev : IF ev.det = det THEN T57SetEvent(y, p, ev) ELSE y)
      Port(x, p) == Then(Pass(x, p, "off"), LAMBDA y : Pass(y, p, "on"))
      a == Then(RegRead(d), LAMBDA x : ForEach(x, Powered(d.hw, l), Port))
      b == Then(Then(a, LAMBDA x : T57SetIntCfg(x, ps, n)), LAMBDA x : T57SetPwCfg(x, ps, n))
  IN  IF ps = <<>> THEN Fail(d, "INVALID")
      ELSE Then([b EXCEPT !.out.notfn = n], LAMBDA x : IF n = "0delta" /\ l # ALL_PORTS THEN T57DetermineNotfn(x, l[1]) ELSE x)

(* tsi57x_rio_em_dev_rpt_ctl *)
T57RptCtl(d, l, n) ==
  LET ps == T57List(l)
      b == Then(T57SetIntCfg(d, ps, n), LAMBDA x : T57SetPwCfg(x, ps, n))
  IN  IF ps = <<>> THEN Fail(d, "INVALID")
      ELSE Then([b EXCEPT !.out.notfn = n], LAMBDA x : IF n = "0delta" /\ Len(ps) = 1 THEN T57DetermineNotfn(x, ps[1]) ELSE x)

(* tsi57x_rio_em_cfg_get *)
T57Detect(hw, p, e) ==
  LET r == hw.p[p]
  IN  CASE e = "f_los" -> hw.mac[Mac(p)].en
        [] e = "f_port_err" -> "PORT_ERR_EN" \in r.indep
        [] e = "f_2many_retx" -> "RETRY_EN" \in r.indep /\ r.retry # 0
        [] e = "f_2many_pna" -> "CS_NOT_ACC" \in r.rtEn
        [] e = "f_err_rate" -> r.rtEn \ T57Excl # {}
        [] e = "i_init_fail" -> hw.blInt
        [] e = "d_rte" -> "ILL_TRANS_EN" \in r.indep
        [] e = "d_log" -> hw.logEn # {}
        [] e = "i_sig_det" -> "LINK_INIT_EN" \in r.indep /\ "LOCKOUT" \in r.ctl
        [] e = "i_rst_req" -> "SELF_RST" \notin r.mode /\ "RSVD1" \in r.indep
        [] OTHER -> FALSE
T57Info(hw, p, e) ==
  LET r == hw.p[p]
  IN  CASE e = "f_err_rate" -> ComputeErrRateInfo(r.rtEn \ T57Excl, r.rate, r.thr)
        [] e # "f_err_rate" /\ ~T57Detect(hw, p, e) -> 0
        [] e = "f_los" /\ T57Detect(hw, p, e) -> IF "DELIN" \in r.rtEn THEN 1 ELSE hw.mac[Mac(p)].thr * T57DltUnit
        [] e = "f_2many_retx" /\ T57Detect(hw, p, e) -> r.retry
        [] e = "f_2many_pna" /\ T57Detect(hw, p, e) -> r.thr
        [] e = "d_log" /\ T57Detect(hw, p, e) -> hw.logEn
        [] OTHER -> 0
T57CfgGet(d, p, es) ==
  LET One(x, e) == IF e = "last" THEN Fail(x, "INVALID")
                   ELSE [x EXCEPT !.out.cfg = Append(@, [e |-> e, det |-> T57Detect(x.hw, p, e), info |-> T57Info(x.hw, p, e)])]
  IN  IF p >= T57Ports THEN Fail(d, "INVALID")
      ELSE Then(RegRead(d), LAMBDA x :
             IF ~x.hw.p[p].up THEN Fail(x, "NO_PORT") ELSE Then(ForEach(x, es, One), LAMBDA y : T57DetermineNotfn(y, p)))

-----------------------------------------------------------------------------
(* What the status registers of a port say.  A loss of signal and a port   *)
(* error show as the same bit and are told apart by the errors detected.   *)
T57Los(r) == ("DELIN" \in r.det /\ "OUTPUT_FAIL" \in r.stat) \/ ("PORT_ERR" \in r.stat /\ "LINK_TO" \notin r.det)
T57PortErr(r) == "PORT_ERR" \in r.stat /\ "LINK_TO" \in r.det
T57Failed(r) == "OUTPUT_FAIL" \in r.stat

(* The enabled events of a port, in the order in which they are looked for. *)
T57Shown(hw, p, e) ==
  LET r == hw.p[p]
  IN  CASE e = "f_los" -> T57Los(r) /\ hw.mac[Mac(p)].en
        [] e = "f_port_err" -> T57PortErr(r) /\ "PORT_ERR_EN" \in r.indep
        [] e = "f_2many_retx" -> "MAX_RETRY" \in r.int /\ "RETRY_EN" \in r.indep
        [] e = "f_2many_pna" -> T57Failed(r) /\ "CS_NOT_ACC" \in r.det \cap r.rtEn
        [] e = "f_err_rate" -> T57Failed(r) /\ (r.det \cap r.rtEn) \ T57Excl # {}
        [] e = "d_rte" -> "ILL_TRANS" \in r.int /\ "ILL_TRANS_EN" \in r.indep
        [] e = "i_sig_det" -> "LINK_INIT" \in r.int /\ "LINK_INIT_EN" \in r.indep
        [] e = "i_rst_req" -> r.rcs /\ "RSVD1" \in r.indep
        [] OTHER -> FALSE
T57Unshown(hw, p) ==
  LET r == hw.p[p]
  IN  \/ T57Los(r) /\ ~hw.mac[Mac(p)].en
      \/ T57PortErr(r) /\ "PORT_ERR_EN" \notin r.indep
      \/ "MAX_RETRY" \in r.int /\ "RETRY_EN" \notin r.indep
      \/ T57Failed(r) /\ r.det \ r.rtEn # {}
      \/ "ILL_TRANS" \in r.int /\ "ILL_TRANS_EN" \notin r.indep
      \/ "LINK_INIT" \in r.int /\ "LINK_INIT_EN" \notin r.indep

(* tsi57x_rio_em_get_int_stat.  The link partner's events of an odd port   *)
(* are reported with its own, unless all ports are looked at.              *)
T57IntPort(d, p, all) ==
  LET One(x, e) == LET y == AddIf(x, T57Shown(x.hw, p, e), p, e)
                   IN  AddIf(y, e \in {"f_los", "f_port_err"} /\ T57Shown(x.hw, p, e) /\ ~all /\ p % 2 = 1, Partner(p), "f_port_err")
      a == ForEach(RegRead(d), <<"f_los", "f_port_err", "f_2many_retx", "f_2many_pna", "f_err_rate", "d_rte", "i_sig_det", "i_rst_req">>, One)
  IN  Then(a, LAMBDA x : Other(x, T57Unshown(x.hw, p) \/ (x.hw.p[p].rcs /\ "RSVD1" \notin x.hw.p[p].indep)))
T57IntStat(d, l) ==
  LET ps == T57List(l)
      e == [d EXCEPT !.out = NoEvents]
      Dev(x) == LET y == Other(AddIf(x, x.hw.log \cap x.hw.logEn # {}, NoPort, "d_log"), x.hw.log # {} /\ x.hw.log \cap x.hw.logEn = {})
                IN  Other(AddIf(y, x.hw.bl /\ x.hw.blInt, NoPort, "i_init_fail"), x.hw.bl /\ ~x.hw.blInt)
  IN  IF d.room = 0 \/ ps = <<>> THEN Fail(e, "INVALID")
      ELSE LET a == Then(RegRead(e), LAMBDA x : ForEach(x, Powered(x.hw, l), LAMBDA y, p : T57IntPort(y, p, l = ALL_PORTS)))
           IN  Then(Then(a, RegRead), Dev)

(* tsi57x_rio_em_get_pw_stat: logical errors first, then the ports, then   *)
(* the port that port-writes leave by, with what is left of the array.     *)
T57PwPort(d, p) ==
  LET One(x, e) == AddIf(x, T57Shown(x.hw, p, e), p, e)
      a == ForEach(RegRead(d), <<"f_los", "f_2many_pna", "f_err_rate", "f_port_err", "f_2many_retx", "d_rte", "i_sig_det">>, One)
  IN  Then(a, LAMBDA x : Other(AddIf(x, x.out.events # d.out.events \/ "PWP" \in x.hw.p[p].stat, p, "a_clr_pwpnd"), T57Unshown(x.hw, p)))
T57PwPorts(d, l, pwp) ==
  LET e == [d EXCEPT !.out = NoEvents]
      Log(x) == Other(AddIf(x, x.hw.log # {} /\ x.hw.logEn # {}, NoPort, "d_log"), x.hw.log # {} /\ x.hw.logEn = {})
      Port(x, p) == IF p = pwp THEN x ELSE T57PwPort(x, p)
  IN  IF d.room = 0 \/ T57List(l) = <<>> \/ (pwp >= T57Ports /\ pwp # NoPort) THEN Fail(e, "INVALID")
      ELSE Then(Then(RegRead(e), Log), LAMBDA x : ForEach(x, Powered(x.hw, l), Port))
T57PwStat(d, l, pwp) ==
  LET a == T57PwPorts(d, l, pwp)
      o == a.out
      b == T57PwPorts([a EXCEPT !.room = @ - Len(o.events)], <<pwp>>, NoPort)
      both == IF b.out.events = <<>> THEN o
              ELSE [o EXCEPT !.events = @ \o b.out.events, !.too = b.out.too, !.other = @ \/ b.out.other]
  IN  IF ~Ok(a) \/ pwp = NoPort \/ o.too THEN a ELSE [b EXCEPT !.room = d.room, !.out = IF Ok(b) THEN both ELSE o]

(* tsi57x_rio_em_parse_pw, pw_parsing_info *)
T57PwBits == <<<<"f_los", "DELIN">>, <<"f_port_err", "PORT_ERR">>, <<"f_2many_retx", "MAX_RETRY">>, <<"d_rte", "ILL_TRANS">>,
               <<"d_log", "LOG">>, <<"i_sig_det", "LINK_INIT">>>>
T57Pw(hw, p) == [port |-> p, bits |-> hw.p[p].det \cup (hw.p[p].stat \cap {"PORT_ERR"}) \cup hw.p[p].int \cup (IF hw.log # {} THEN {"LOG"} ELSE {})]
T57ParsePw(d, pw) ==
  LET One(x, k) == AddIf(x, k[2] \in pw.bits, IF k[1] = "d_log" THEN NoPort ELSE pw.port, k[1])
      e == [d EXCEPT !.out = NoEvents]
  IN  IF d.room = 0 \/ d.room > Cardinality(Events) THEN Fail(e, "INVALID")
      ELSE Other(ForEach(e, T57PwBits, One), pw.bits \ ({"IMP_SPEC"} \cup {T57PwBits[i][2] : i \in DOMAIN T57PwBits}) # {})

-----------------------------------------------------------------------------
(* Events of the device have no port, all others have one. *)
T57EventOk(pe) ==
  /\ pe[1] = NoPort \/ pe[1] < T57Ports
  /\ (pe[1] = NoPort) = (pe[2] \in {"d_log", "i_init_fail"})
  /\ pe[2] \in Events \cup {"a_clr_pwpnd", "a_no_event"}


(* tsi57x_rio_em_clr_events.  Whatever made the port fail, all that        *)
(* SPX_ERR_STATUS shows is cleared, except that a port-write is pending;   *)
(* to clear that also clears the rest.                                     *)
T57ClearPortFail(d, p) ==
  LET a == Then(d, LAMBDA x : RegWrite(x, x.hw))
      b == Then(a, LAMBDA x : UpdateP(x, p, [x.hw.p[p] EXCEPT !.cnt = 0]))
  IN  Then(b, LAMBDA x : UpdateP(x, p, [x.hw.p[p] EXCEPT !.stat = @ \cap {"PWP"}]))
T57ClearDet(d, p, keep(_)) == UpdateP(d, p, WriteDet(d.hw.p[p], {b \in d.hw.p[p].det : keep(b)}))
T57ClearInt(d, p, bit) == RegWrite(d, [d.hw EXCEPT !.p[p].int = @ \ {bit}])
T57ClrEvent(d, p, e) ==
  CASE e = "f_los" -> T57ClearPortFail(T57ClearDet(d, p, LAMBDA b : b # "DELIN"), p)
    [] e = "f_port_err" -> T57ClearPortFail(d, p)
    [] e = "f_2many_retx" ->
         LET a == Then(T57ClearInt(d, p, "MAX_RETRY"), LAMBDA x : T57ClearDet(x, p, LAMBDA b : b # "IMP_SPEC")) IN T57ClearPortFail(a, p)
    [] e = "f_2many_pna" -> T57ClearPortFail(T57ClearDet(d, p, LAMBDA b : b # "CS_NOT_ACC"), p)
    [] e = "f_err_rate" -> T57ClearPortFail(T57ClearDet(d, p, LAMBDA b : b \in T57Excl), p)
    [] e = "i_init_fail" -> RegWrite(d, [d.hw EXCEPT !.bl = FALSE])
    [] e = "d_rte" -> T57ClearInt(d, p, "ILL_TRANS")
    [] e = "d_log" -> RegWrite(d, [d.hw EXCEPT !.log = {}])
    [] e = "i_sig_det" -> T57ClearInt(d, p, "LINK_INIT")
    [] e = "i_rst_req" -> Then(RegWrite(d, d.hw), LAMBDA x : RegWrite(x, [x.hw EXCEPT !.p[p].rcs = FALSE]))
    [] e = "a_clr_pwpnd" -> UpdateP(d, p, [d.hw.p[p] EXCEPT !.stat = {}])
    [] OTHER -> d
T57ClrEvents(d, evs) ==
  LET One(x, pe) == IF T57EventOk(pe) THEN T57ClrEvent(x, pe[1], pe[2]) ELSE Fail(x, "INVALID")
      e == [d EXCEPT !.out = [int |-> FALSE, pw |-> FALSE]]
  IN  IF evs = <<>> THEN Fail(e, "INVALID") ELSE ForEach(e, evs, One)

(* tsi57x_create_rate_event: as many errors as the threshold. *)
T57CreateRate(d, p, errs) ==
  LET r == d.hw.p[p]
      One(x, i) == UpdateP(x, p, WriteDet(x.hw.p[p], x.hw.p[p].det \cup errs))
  IN  Then(RegRead(d), LAMBDA x :
        IF errs \cap r.rtEn = {} \/ r.thr = 0 THEN Fail(x, "NOT_SUP_BY_CONFIG") ELSE ForEach(x, Count(r.thr), One))

(* tsi57x_rio_em_create_events; SPX_INT_GEN sets what SPX_INT_STATUS shows. *)
T57GenInt(d, p, bit) == Then(RegRead(d), LAMBDA x : RegWrite(x, [x.hw EXCEPT !.p[p].int = @ \cup {bit}]))
T57Create(d, p, e) ==
  CASE e \in {"f_port_err", "d_ttl", "i_rst_req"} -> Fail(d, "FEATURE_NOT_SUPPORTED")
    [] e = "f_los" -> UpdateP(d, p, WriteDet(d.hw.p[p], d.hw.p[p].det \cup {"DELIN"}))
    [] e = "f_2many_retx" -> T57GenInt(d, p, "MAX_RETRY")
    [] e = "f_2many_pna" -> T57CreateRate(d, p, {"CS_NOT_ACC"})
    [] e = "f_err_rate" -> T57CreateRate(d, p, {RecErrs[i] : i \in DOMAIN RecErrs} \ T57Excl)
    [] e = "d_rte" -> T57GenInt(d, p, "ILL_TRANS")
    [] e = "d_log" -> RegWrite(d, [d.hw EXCEPT !.log = T57LogErrs])
    [] e = "i_sig_det" -> T57GenInt(d, p, "LINK_INIT")
    [] e = "i_init_fail" -> RegWrite(d, [d.hw EXCEPT !.bl = TRUE])
    [] OTHER -> Fail(d, "INVALID")
T57CreateEvents(d, evs) ==
  LET One(x, pe) == CASE ~T57EventOk(pe) -> Fail(x, "INVALID")
                      [] T57EventOk(pe) /\ pe[1] # NoPort /\ ~(pe[1] = NoPort \/ x.hw.p[pe[1]].up) -> x
                      [] OTHER -> T57Create(x, pe[1], pe[2])
  IN  IF evs = <<>> THEN Fail(d, "INVALID") ELSE ForEach(RegRead(d), evs, One)

(* tsi57x_rio_em_cfg_pw: the next longer of the repetition times there     *)
(* are, in multiples of the shortest, which is PwUnit.                     *)
PwUnit == 2
T57Timer(t) == CASE t <= 0 -> 0 [] t \in {1, 2} -> t [] t \in {3, 4} -> 4 [] t > 4 -> 8
T57CfgPw(d, in) ==
  LET id == IF in.tt = "dev16" THEN in.did ELSE in.did % 256
      time == IF in.retx = 0 THEN 0 ELSE IF in.retx < PwUnit THEN 1 ELSE T57Timer(in.retx \div PwUnit)
      a == Then(RegWrite(d, [d.hw EXCEPT !.tgt = [tt |-> in.tt, did |-> id]]), RegRead)
      b == ForEach(a, Count(T57Ports), LAMBDA x, p : Update(x, [x.hw EXCEPT !.prio = in.prio]))
      c == Then(Then(b, LAMBDA x : RegWrite(x, [x.hw EXCEPT !.timer = time])), RegRead)
  IN  IF in.prio > 3 THEN Fail(d, "INVALID")
      ELSE [c EXCEPT !.out = [tt |-> in.tt, did |-> id, prio |-> in.prio, crf |-> FALSE, retx |-> c.hw.timer * PwUnit]]
=============================================================================
