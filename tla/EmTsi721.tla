------------------------------ MODULE EmTsi721 ------------------------------
(***************************************************************************)
(* Error management of the Tsi721 (librio/src/Tsi721_EM.c), built with     *)
(* interrupt support.                                                      *)
(*                                                                         *)
(* Registers: plm (PLM_STATUS), plmInt and plmPw (its enables), err, rtEn, *)
(* rate and thr (SP_ERR_DET, SP_RATE_EN, SP_ERR_RATE, SP_ERR_THRESH),      *)
(* dlt, soft (PLM_IMP_SPEC_CTL), den (PLM_DENIAL_CTL: cnt and thr), ctl    *)
(* (SP_CTL), mode (DEVCTL), log and logEn (LOCAL_ERR_DET, LOCAL_ERR_EN),   *)
(* emInt and emPw (EM_INT_ENABLE, EM_PW_ENABLE), rst (EM_RST_PORT_STAT),   *)
(* rstInt, rstPw, bl and blInt (the boot load failure of the I2C block),   *)
(* allInt, devInt, allPw, devPw (the enables of the device), pwp           *)
(* (PORT_W_P), tgt, ctlPw (the target and the timer of port-writes).       *)
(***************************************************************************)
EXTENDS EmBase

CONSTANTS DltUnit           \* em_info of one step of the dead link timer

(* TSI721_ERR_RATE_EVENT_EXCLUSIONS *)
T721Excl == {"IMP_SPEC"}

T721Reset == [plm |-> {}, plmInt |-> {}, plmPw |-> {}, err |-> {}, rtEn |-> {},
  rate |-> [rr |-> 0, rb |-> "none"], thr |-> 0, dlt |-> 0, soft |-> FALSE, selfRst |-> TRUE,
  den |-> [cnt |-> {}, thr |-> 0], ctl |-> {}, mode |-> "both",
  log |-> {}, logEn |-> {}, emInt |-> {}, emPw |-> {}, rst |-> FALSE, rstInt |-> FALSE, rstPw |-> FALSE,
  bl |-> FALSE, blInt |-> FALSE, allInt |-> FALSE, devInt |-> FALSE, allPw |-> FALSE, devPw |-> FALSE,
  pwp |-> FALSE, tgt |-> [tt |-> "dev8", did |-> 0], ctlPw |-> 0]

(* EM_INT_STAT and EM_PW_STAT are computed by the device. *)
T721EmStat(hw) == (IF hw.log \cap hw.logEn # {} THEN {"LOCALOG"} ELSE {}) \cup (IF hw.rst THEN {"RCS"} ELSE {})

-----------------------------------------------------------------------------
(* tsi721_plm_set_notifn, tsi721_localog_set_notifn *)
T721PlmNotifn(r, bits, n) ==
  IF n = "0delta" THEN r ELSE [r EXCEPT !.plmInt = Switch(@, bits, ByInt(n)), !.plmPw = Switch(@, bits, ByPw(n))]
T721LogNotifn(r, n) ==
  IF n = "0delta" THEN r ELSE [r EXCEPT !.emInt = Switch(@, {"LOCALOG"}, ByInt(n)), !.emPw = Switch(@, {"LOCALOG"}, ByPw(n))]

(* The time is rounded up, to what the register holds at most. *)
T721SetLos(d, ev, n) ==
  LET time == Capped((ev.info + DltUnit - 1) \div DltUnit)
  IN  IF ev.det = "on" /\ ev.info = 0 THEN Fail(d, "INVALID")
      ELSE [d EXCEPT !.w = T721PlmNotifn([@ EXCEPT !.dlt = IF ev.det = "on" THEN time ELSE 0], {"DLT"}, n)]

(* Retries and packet-not-accepted share a threshold and a status bit. *)
T721SetDenial(d, ev, n) ==
  LET bit == IF ev.e = "f_2many_retx" THEN "RTY" ELSE "PNA"
      den == d.w.den
      off == den.cnt \ {bit}
      new == IF ev.det = "on" THEN [cnt |-> den.cnt \cup {bit}, thr |-> Capped(ev.info)]
             ELSE [cnt |-> off, thr |-> IF off = {} THEN 0 ELSE den.thr]
  IN  IF ev.det = "on" /\ ev.info = 0 THEN Fail(d, "INVALID")
      ELSE [d EXCEPT !.w = T721PlmNotifn([@ EXCEPT !.den = new], {"MAX_DENIAL"}, n)]

T721SetErrRate(d, ev, n) ==
  LET i == GetErrRateInfo(ev.info)
      kept == d.w.rtEn \cap T721Excl
      new == IF ev.det = "off"
             THEN [d.w EXCEPT !.rtEn = kept, !.thr = 0, !.rate = [rr |-> 0, rb |-> "none"]]
             ELSE [d.w EXCEPT !.rtEn = (i.en \ T721Excl) \cup kept, !.thr = i.thr, !.rate = i.rate, !.ctl = @ \cup {"DROP"}]
  IN  IF ~i.ok \/ i.thr = 0 THEN Fail(d, "INVALID") ELSE [d EXCEPT !.w = T721PlmNotifn(new, {"OUTPUT_FAIL"}, n)]

T721SetLog(d, ev, n) ==
  IF ev.det = "off" THEN [d EXCEPT !.w = T721LogNotifn([@ EXCEPT !.logEn = {}], "none")]
  ELSE IF ev.info = {} THEN Fail(d, "INVALID")
  ELSE [d EXCEPT !.w = T721LogNotifn([@ EXCEPT !.logEn = ev.info], n)]

(* A port that waits for a signal is locked out. *)
T721SetSigDet(d, ev, n) ==
  [d EXCEPT !.w = T721PlmNotifn([@ EXCEPT !.ctl = Switch(@, {"LOCKOUT"}, ev.det = "on")], {"LINK_INIT"}, n)]

T721SetRstReq(d, n) == IF n = "0delta" THEN d ELSE [d EXCEPT !.w.rstInt = ByInt(n), !.w.rstPw = ByPw(n)]
T721SetInitFail(d, n) == IF n \in {"none", "int", "both"} THEN [d EXCEPT !.w.blInt = ByInt(n)] ELSE d

(* tsi721_set_event_cfg; "last" stands for the values past the last one. *)
T721SetEvent(d, ev, n) ==
  CASE ev.det = "last" \/ ev.e = "last" -> Fail(d, "INVALID")
    [] ev.det = "0delta" /\ ev.e # "last" -> d
    [] ev.det \in {"on", "off"} /\ ev.e # "last" ->
         CASE ev.e = "f_los" -> T721SetLos(d, ev, n)
           [] ev.e = "f_port_err" -> [d EXCEPT !.w = T721PlmNotifn(@, {"PORT_ERR"}, n)]
           [] ev.e \in {"f_2many_retx", "f_2many_pna"} -> T721SetDenial(d, ev, n)
           [] ev.e = "f_err_rate" -> T721SetErrRate(d, ev, n)
           [] ev.e = "d_log" -> T721SetLog(d, ev, n)
           [] ev.e = "i_sig_det" -> T721SetSigDet(d, ev, n)
           [] ev.e = "i_rst_req" -> T721SetRstReq(d, n)
           [] ev.e = "i_init_fail" -> T721SetInitFail(d, n)
           [] OTHER -> d

(* tsi721_event_write_regs, in the order of the writes *)
T721WriteRegs(d) ==
  RegWrites(d, <<"dlt", "plmPw", "den", "rtEn", "rate", "thr", "ctl", "rstPw", "emPw", "logEn",
                 "plmInt", "blInt", "rstInt", "emInt">>)

(* tsi721_rio_em_dev_rpt_ctl *)
T721RptRead(d) ==
  LET a == RegRead(d)
      hw == a.hw
  IN  IF Ok(a) THEN [a EXCEPT !.out.notfn = NotfnOf(hw.devInt /\ hw.allInt, hw.devPw /\ hw.allPw)] ELSE a
T721RptCtl(d, l, n) ==
  LET on == [d.hw EXCEPT !.devInt = ByInt(n), !.allInt = ByInt(n), !.devPw = ByPw(n), !.allPw = ByPw(n)]
      a == Then(RegRead(d), LAMBDA x :
             RegWrites([x EXCEPT !.w = on], <<"allInt", "emInt", "devInt", "allPw", "emPw", "devPw">>))
  IN  CASE GetPortList(l, 1, {}) = <<>> -> Fail(d, "INVALID")
        [] GetPortList(l, 1, {}) # <<>> /\ n = "last" -> Fail(d, "INVALID")
        [] OTHER -> Then(IF n = "0delta" THEN d ELSE a, T721RptRead)

T721GetRegs(d) == LET r == RegRead(d) IN IF Ok(r) THEN [r EXCEPT !.w = r.hw] ELSE r

(* tsi721_rio_em_cfg_set: all that is switched off, then all that is       *)
(* switched on; the registers are written at the end.                      *)
T721CfgSet(d, l, n, evs) ==
  LET Pass(x, on) == ForEach(x, evs, LAMBDA y, ev : IF (ev.det = "on") = on THEN T721SetEvent(y, ev, n) ELSE y)
  IN  IF evs = <<>> \/ n = "last" \/ GetPortList(l, 1, {}) = <<>> THEN Fail(d, "INVALID")
      ELSE Then(Then(Then(Then(T721GetRegs(d), LAMBDA x : Pass(x, FALSE)), LAMBDA x : Pass(x, TRUE)),
             T721WriteRegs), LAMBDA x : T721RptCtl(x, ALL_PORTS, n))

(* tsi721_get_event_cfg *)
T721Detect(r, e) ==
  CASE e = "f_los" -> r.dlt # 0
    [] e = "f_port_err" -> "PORT_ERR" \in r.plmInt \cup r.plmPw
    [] e = "f_2many_retx" -> "RTY" \in r.den.cnt
    [] e = "f_2many_pna" -> "PNA" \in r.den.cnt
    [] e = "f_err_rate" -> r.rtEn \ T721Excl # {} /\ r.thr # 0
    [] e = "d_log" -> r.logEn # {}
    [] e = "i_sig_det" -> "LOCKOUT" \in r.ctl
    [] e = "i_rst_req" -> ~r.selfRst
    [] e = "i_init_fail" -> r.blInt
    [] OTHER -> FALSE
T721Info(r, e) ==
  CASE e = "f_los" -> r.dlt * DltUnit
    [] e \in {"f_2many_retx", "f_2many_pna"} -> IF T721Detect(r, e) THEN r.den.thr ELSE 0
    [] e = "f_err_rate" -> ComputeErrRateInfo(r.rtEn, r.rate, r.thr)
    [] e = "d_log" -> r.logEn
    [] OTHER -> 0
T721CfgGet(d, p, es) ==
  LET One(x, e) == IF e = "last" THEN Fail(x, "INVALID")
                   ELSE [x EXCEPT !.out.cfg = Append(@, [e |-> e, det |-> T721Detect(x.hw, e), info |-> T721Info(x.hw, e)])]
  IN  IF p # 0 \/ es = <<>> THEN Fail(d, "INVALID")
      ELSE Then(Then(RegRead(d), LAMBDA x : ForEach(x, es, One)), LAMBDA x : T721RptCtl(x, ALL_PORTS, "0delta"))

-----------------------------------------------------------------------------
(* The status bits that both kinds of notification report; en and emEn are *)
(* the enables, with the bits of a reset request if that is enabled.       *)
T721PlmStat(d, en) ==
  LET hw == d.hw
      s == hw.plm \cap en
      a == AddIf(AddIf(d, "DLT" \in s, 0, "f_los"), "PORT_ERR" \in s, 0, "f_port_err")
      b == AddIf(a, "MAX_DENIAL" \in s /\ "RTY" \in hw.den.cnt, 0, "f_2many_retx")
      c == AddIf(b, "MAX_DENIAL" \in s /\ "PNA" \in hw.den.cnt, 0, "f_2many_pna")
      counted == (hw.err \cap hw.rtEn) \ T721Excl # {}
      e == AddIf(c, "OUTPUT_FAIL" \in s /\ counted, 0, "f_err_rate")
  IN  Other(e, "OUTPUT_FAIL" \in s /\ ~counted /\ hw.err \ T721Excl # {})
T721EmEvents(d, en, emEn) ==
  LET s == T721EmStat(d.hw) \cap emEn
      a == IF "LOCALOG" \in s THEN AddEvent(d, 0, "d_log") ELSE Other(d, d.hw.log # {})
      b == AddIf(a, "LINK_INIT" \in d.hw.plm \cap en, 0, "i_sig_det")
  IN  AddIf(b, "RCS" \in s, 0, "i_rst_req")

StatOk(d, l) == d.room # 0 /\ GetPortList(l, 1, {}) # <<>>

(* tsi721_rio_em_get_int_stat *)
T721IntStat(d, l) ==
  LET en == d.hw.plmInt \cup (IF d.hw.rstInt THEN {"RST_REQ"} ELSE {})
      emEn == d.hw.emInt \cup (IF d.hw.rstInt THEN {"RCS"} ELSE {})
  IN  IF ~StatOk(d, l) THEN Fail(d, "INVALID")
      ELSE Then(RegRead([d EXCEPT !.out = NoEvents]), LAMBDA x :
             LET y == T721EmEvents(T721PlmStat(x, en), en, emEn)
             IN  Other(AddIf(y, x.hw.bl /\ x.hw.blInt, 0, "i_init_fail"), (x.hw.bl /\ ~x.hw.blInt) \/ x.hw.plm \ en # {}))

(* tsi721_rio_em_get_pw_stat *)
T721PwStat(d, l) ==
  LET en == d.hw.plmPw \cup (IF d.hw.rstPw THEN {"RST_REQ"} ELSE {})
      emEn == d.hw.emPw \cup (IF d.hw.rstPw THEN {"RCS"} ELSE {})
  IN  IF ~StatOk(d, l) THEN Fail(d, "INVALID")
      ELSE Then(RegRead([d EXCEPT !.out = NoEvents]), LAMBDA x :
             Other(T721EmEvents(T721PlmStat(x, en), en, emEn), x.hw.plm \ en # {}))

(* tsi721_rio_em_parse_pw, of the port-write that the device sent: imp is  *)
(* its implementation specific word.                                       *)
T721ParsePw(d, pw) ==
  LET a == AddIf(AddIf(d, "DLT" \in pw.imp, 0, "f_los"), "PORT_ERR" \in pw.imp, 0, "f_port_err")
      b == AddIf(a, "MAX_DENIAL" \in pw.imp, 0, "f_2many_retx")
      c == AddIf(b, "MAX_DENIAL" \in pw.imp /\ "CS_NOT_ACC" \in pw.err, 0, "f_2many_pna")
      e == AddIf(c, "OUTPUT_FAIL" \in pw.imp /\ pw.err \ T721Excl # {}, 0, "f_err_rate")
      f == AddIf(e, pw.log # {} \/ "LOCALOG" \in pw.imp, 0, "d_log")
      g == AddIf(AddIf(f, "LINK_INIT" \in pw.imp, 0, "i_sig_det"), pw.imp \cap {"RST_REQ", "RCS"} # {}, 0, "i_rst_req")
  IN  IF d.room = 0 THEN Fail(d, "INVALID")
      ELSE IF pw.port # 0 THEN Fail(d, "NO_PORT")
      ELSE Other(g, pw.err \cap T721Excl # {})

(* The port-write of a device whose events are hw's. *)
T721Pw(hw) == [port |-> 0, err |-> hw.err, log |-> hw.log,
               imp |-> (hw.plm \cap hw.plmPw) \cup (T721EmStat(hw) \cap (hw.emPw \cup (IF hw.rstPw THEN {"RCS"} ELSE {})))]

-----------------------------------------------------------------------------

(* tsi721_soft_reset_prep and tsi721_soft_reset_register_restore *)
T721Prep(d) ==
  LET a == Update(d, [d.hw EXCEPT !.ctl = @ \cup {"LOCKOUT"}])
      b == Then(a, LAMBDA x : Update(x, [x.hw EXCEPT !.mode = "srio"]))
  IN  Then(b, LAMBDA x : Update([x EXCEPT !.w = d.hw], [x.hw EXCEPT !.soft = TRUE]))
T721Restore(d) == RegWrites(d, <<"soft", "mode", "ctl">>)

(* tsi721_clr_events_soft_reset: the events that are cleared while the     *)
(* port is in reset.                                                       *)
T721ClearFailed(d) ==
  LET a == Then(Update(d, d.hw), LAMBDA x : Update(x, [x.hw EXCEPT !.err = @ \cap T721Excl]))
      b == Then(a, LAMBDA x : IF x.hw.err # {} THEN x
             ELSE Then(Update(x, x.hw), LAMBDA y : RegWrite(y, [y.hw EXCEPT !.plm = @ \ {"OUTPUT_FAIL"}])))
  IN  b
T721SoftReset(d, evs) ==
  LET One(x, ev) ==
        CASE ev[2] = "f_los" -> RegWrite(x, [x.hw EXCEPT !.plm = @ \ {"DLT"}])
          [] ev[2] = "f_port_err" -> RegWrite(x, [x.hw EXCEPT !.plm = @ \ {"PORT_ERR"}])
          [] ev[2] \in {"f_2many_pna", "f_err_rate"} -> T721ClearFailed(x)
          [] OTHER -> x
  IN  Then(Then(T721Prep(d), LAMBDA x : ForEach(x, evs, One)), T721Restore)

(* tsi721_rio_em_clr_events *)
T721Clear(d, ev) ==
  CASE ev[2] \in {"f_2many_retx", "f_2many_pna"} -> RegWrite(d, [d.hw EXCEPT !.plm = @ \ {"MAX_DENIAL"}])
    [] ev[2] = "d_log" -> RegWrite(d, [d.hw EXCEPT !.log = {}])
    [] ev[2] = "i_sig_det" -> RegWrite(d, [d.hw EXCEPT !.plm = @ \ {"LINK_INIT"}])
    [] ev[2] = "i_rst_req" -> Then(RegWrite(d, [d.hw EXCEPT !.plm = @ \ {"RST_REQ"}]), LAMBDA x :
                                   RegWrite(x, [x.hw EXCEPT !.rst = FALSE]))
    [] ev[2] = "i_init_fail" -> RegWrite(d, [d.hw EXCEPT !.bl = FALSE])
    [] ev[2] = "a_clr_pwpnd" -> Update(d, [d.hw EXCEPT !.pwp = FALSE])
    [] OTHER -> d
T721ClrOk(evs) == evs # <<>> /\ \A i \in DOMAIN evs : evs[i][1] = 0 /\ evs[i][2] # "last"
T721NeedSoftReset(evs) == \E i \in DOMAIN evs : evs[i][2] \in {"f_los", "f_port_err", "f_err_rate"}
T721ClrEvents(d, evs) ==
  LET a == Then(IF T721NeedSoftReset(evs) THEN T721SoftReset(d, evs) ELSE d, LAMBDA x : ForEach(x, evs, T721Clear))
      i == Then(a, LAMBDA x : T721IntStat([x EXCEPT !.room = 1], <<0>>))
      p == Then(i, LAMBDA x : T721PwStat(x, <<0>>))
      remain(x) == x.out.events # <<>> \/ x.out.other
  IN  IF ~T721ClrOk(evs) THEN Fail(d, "INVALID")
      ELSE IF Ok(p) THEN [p EXCEPT !.out = [int |-> remain(i), pw |-> remain(p)]] ELSE p

(* tsi721_rio_em_create_events *)
T721Create(d, ev) ==
  LET Gen(x, bits) == RegWrite(x, [x.hw EXCEPT !.plm = @ \cup bits])
      Det(errs) == Update(d, [d.hw EXCEPT !.err = @ \cup errs])
      counted == d.hw.rtEn \ T721Excl
  IN  CASE ev[1] # 0 \/ ev[2] = "last" -> Fail(d, "INVALID")
        [] ev[2] = "f_los" -> Gen(d, {"DLT"})
        [] ev[2] = "f_port_err" -> Gen(d, {"PORT_ERR"})
        [] ev[2] = "f_err_rate" -> Then(Det(IF counted = {} THEN {"PKT_CRC"} ELSE counted), LAMBDA x : Gen(x, {"OUTPUT_FAIL"}))
        [] ev[2] = "f_2many_retx" -> Gen(d, {"MAX_DENIAL"})
        [] ev[2] = "f_2many_pna" -> Then(Det({"CS_NOT_ACC"}), LAMBDA x : Gen(x, {"MAX_DENIAL"}))
        [] ev[2] = "d_log" -> RegWrite(d, [d.hw EXCEPT !.log = {"ILL_TYPE", "ILL_ID"}])
        [] ev[2] = "i_sig_det" -> Gen(d, {"LINK_INIT"})
        [] ev[2] = "i_rst_req" -> RegWrite(d, [d.hw EXCEPT !.plm = @ \cup {"RST_REQ"}, !.rst = TRUE])
        [] ev[2] = "i_init_fail" -> RegWrite(d, [d.hw EXCEPT !.bl = TRUE])
        [] OTHER -> d
T721CreateEvents(d, evs) == IF evs = <<>> THEN Fail(d, "INVALID") ELSE ForEach(d, evs, T721Create)

(* tsi721_rio_em_cfg_pw; the times are multiples of 103 microseconds. *)
T721Timers == <<1, 2, 4, 8>>
T721Timer(t) ==
  IF t = 0 THEN 0
  ELSE IF t > 8 THEN 8 ELSE T721Timers[CHOOSE i \in 1..4 : T721Timers[i] >= t /\ \A j \in 1..(i - 1) : T721Timers[j] < t]
T721CfgPw(d, in) ==
  LET tgt == [tt |-> in.tt, did |-> IF in.tt = "dev8" THEN in.did % 256 ELSE in.did]
      a == Then(RegWrite(d, [d.hw EXCEPT !.tgt = tgt]), LAMBDA x : RegWrite(x, [x.hw EXCEPT !.ctlPw = T721Timer(in.retx)]))
      b == Then(Then(a, LAMBDA x : RegWrite(x, x.hw)), RegRead)
  IN  IF in.prio > 3 \/ in.tt \notin {"dev8", "dev16"} THEN Fail(d, "INVALID")
      ELSE IF Ok(b) THEN [b EXCEPT !.out = [tt |-> b.hw.tgt.tt, did |-> b.hw.tgt.did, prio |-> 3, crf |-> TRUE, retx |-> b.hw.ctlPw]]
      ELSE b
=============================================================================
