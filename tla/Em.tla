--------------------------------- MODULE Em ---------------------------------
(***************************************************************************)
(* The error management API (librio/src/RapidIO_Error_Management_API.c):   *)
(* one device of any of the families, its registers hw, and a caller that  *)
(* configures events, has them reported, clears them and creates them, in  *)
(* any order, while events occur.  Any register access may fail.           *)
(*                                                                         *)
(* held is the list of events that the last status call returned to the    *)
(* caller, who passes it to rio_em_clr_events in the same order.  left is  *)
(* the number of accesses of a call that succeed, extra what a call finds  *)
(* on the stack where nothing was stored.  last records the last call.     *)
(***************************************************************************)
EXTENDS EmTsi721, EmTsi57x, EmRxs, EmCps

CONSTANTS
  EvCfgs,       \* per family, the lists of events that are configured
  Created,      \* per family, the lists of events that are created
  SetLists,     \* lists of ports
  Rooms,        \* lengths of the caller's array of events
  SetNotfns,    \* kinds of notification that cfg_set is asked for
  Lefts,        \* numbers of accesses that succeed
  Budget,       \* the calls and occurrences of a behavior, cfg_set counted twice
  Rest,         \* how many of these are not cfg_set
  Late          \* how many of these precede a cfg_set

VARIABLES fam, hw, held, last, ops, rest
vars == <<fam, hw, held, last, ops, rest>>

Families == {"CPS", "TSI57X", "TSI721", "RXS", "STD"}
NumPorts == CASE fam = "CPS" -> CpsPorts [] fam = "TSI57X" -> T57Ports [] fam = "RXS" -> RxsPorts [] OTHER -> 1
Ports == 0..(NumPorts - 1)
Garbage == CASE fam = "CPS" -> {[port |-> NoPort, wr |-> FALSE], [port |-> NumPorts - 1, wr |-> TRUE]}
             [] fam = "TSI57X" -> {NoPort, NumPorts - 1}
             [] fam = "RXS" -> {NoPort, 0}
             [] OTHER -> {NoPort}

(* The routines of the API: DSF_rio_em_... for a device without a driver,  *)
(* which only accepts what an endpoint has nothing to do for.              *)
CfgSet(d, l, n, evs) ==
  CASE fam = "CPS" -> CpsCfgSet(d, l, n, evs) [] fam = "TSI57X" -> T57CfgSet(d, l, n, evs)
    [] fam = "TSI721" -> T721CfgSet(d, l, n, evs) [] fam = "RXS" -> RxsCfgSet(d, l, n, evs) [] fam = "STD" -> Fail(d, "STUBBED")
CfgGet(d, p, es) ==
  CASE fam = "CPS" -> CpsCfgGet(d, p, es) [] fam = "TSI57X" -> T57CfgGet(d, p, es)
    [] fam = "TSI721" -> T721CfgGet(d, p, es) [] fam = "RXS" -> RxsCfgGet(d, p, es) [] fam = "STD" -> Fail(d, "STUBBED")
StdOnlyEndpoint(d) == IF d.hw.switch THEN Fail(d, "STUBBED") ELSE d
RptCtl(d, l, n) ==
  CASE fam = "CPS" -> CpsRptCtl(d, l, n) [] fam = "TSI57X" -> T57RptCtl(d, l, n)
    [] fam = "TSI721" -> T721RptCtl(d, l, n) [] fam = "RXS" -> RxsRptCtl(d, l, n) [] fam = "STD" -> StdOnlyEndpoint(d)
CfgPw(d, in) ==
  CASE fam = "CPS" -> CpsCfgPw(d, in) [] fam = "TSI57X" -> T57CfgPw(d, in)
    [] fam = "TSI721" -> T721CfgPw(d, in) [] fam = "RXS" -> RxsCfgPw(d, in) [] fam = "STD" -> StdOnlyEndpoint(d)
ParsePw(d, pw) ==
  CASE fam = "CPS" -> CpsParsePw(d, pw) [] fam = "TSI57X" -> T57ParsePw(d, pw)
    [] fam = "TSI721" -> T721ParsePw(d, pw) [] fam = "RXS" -> RxsParsePw(d, pw) [] fam = "STD" -> Fail(d, "STUBBED")
GetIntStat(d, l) ==
  CASE fam = "CPS" -> CpsIntStat(d, l) [] fam = "TSI57X" -> T57IntStat(d, l)
    [] fam = "TSI721" -> T721IntStat(d, l) [] fam = "RXS" -> RxsIntStat(d, l) [] fam = "STD" -> Fail(d, "STUBBED")
GetPwStat(d, l, pwp) ==
  CASE fam = "CPS" -> CpsPwStat(d, l, pwp) [] fam = "TSI57X" -> T57PwStat(d, l, pwp)
    [] fam = "TSI721" -> T721PwStat(d, l) [] fam = "RXS" -> RxsPwStat(d, l, pwp) [] fam = "STD" -> Fail(d, "STUBBED")
ClrEvents(d, evs) ==
  CASE fam = "CPS" -> CpsClrEvents(d, evs) [] fam = "TSI57X" -> T57ClrEvents(d, evs)
    [] fam = "TSI721" -> T721ClrEvents(d, evs) [] fam = "RXS" -> RxsClrEvents(d, evs) [] fam = "STD" -> Fail(d, "STUBBED")
CreateEvents(d, evs) ==
  CASE fam = "CPS" -> CpsCreateEvents(d, evs) [] fam = "TSI57X" -> T57CreateEvents(d, evs)
    [] fam = "TSI721" -> T721CreateEvents(d, evs) [] fam = "RXS" -> RxsCreateEvents(d, evs) [] fam = "STD" -> Fail(d, "STUBBED")

-----------------------------------------------------------------------------
Always == 9999
Whole == 99                             \* an array that is long enough
Start(left, room, extra) ==
  [hw |-> hw, rc |-> "SUCCESS", left |-> left, w |-> [wrDev |-> FALSE], room |-> room, extra |-> extra,
   out |-> [events |-> <<>>, too |-> FALSE, other |-> FALSE, notfn |-> "none", cfg |-> <<>>]]
Ask == Start(Always, Whole, CHOOSE x \in Garbage : TRUE)
NotHeld == [kind |-> "none", events |-> <<>>]

(* What the device would report, and what is detected. *)
Status(kind, d, l, pwp) == IF kind = "int" THEN GetIntStat(d, l) ELSE GetPwStat(d, l, pwp)
Elems(s) == {s[i] : i \in DOMAIN s}
Reported(kind) == Elems(Status(kind, Ask, ALL_PORTS, 0).out.events)
Detect(h, p, e) ==
  CASE fam = "CPS" -> CpsDetect(h, p, e) [] fam = "TSI57X" -> T57Detect(h, p, e) [] fam = "TSI721" -> T721Detect(h, e)
    [] fam = "RXS" -> RxsDetect([f \in RxsRegSet |-> IF f \in DOMAIN h THEN h[f] ELSE h.p[p][f]], e)
    [] fam = "STD" -> FALSE
Notifies(h, p) ==
  CASE fam = "CPS" -> NotfnOf("INT" \in h.p[p].ops, "PW" \in h.p[p].ops)
    [] fam = "TSI57X" -> T57Notfn(h.p[p])
    [] fam = "TSI721" -> NotfnOf(h.devInt /\ h.allInt, h.devPw /\ h.allPw)
    [] fam = "RXS" -> NotfnOf(h.devInt /\ h.p[p].allInt, ~h.pwDis /\ ~h.p[p].pwDis)
    [] fam = "STD" -> "none"
Listed(l) == Elems(GetPortList(l, NumPorts, {}))

Calls(call, d, more) ==
  /\ hw' = d.hw
  /\ last' = [call |-> call, rc |-> d.rc, clean |-> d.left > 999, more |-> more]
  /\ UNCHANGED fam
Costs(n, r) == /\ ops + n <= Budget /\ rest + r <= Rest
               /\ ops' = ops + n /\ rest' = rest + r

DoCfgSet(l, n, evs, left, extra) ==
  /\ rest <= Late /\ Costs(2, 0)
  /\ Calls("set", CfgSet(Start(left, 0, extra), l, n, evs), [ports |-> Listed(l), notfn |-> n, evs |-> evs])
  /\ UNCHANGED held
DoCfgGet(p, es, left, extra) ==
  \E d \in {CfgGet(Start(left, 0, extra), p, es)} :
    Costs(3, 1) /\ Calls("get", d, d.out.cfg) /\ UNCHANGED held
DoRptCtl(l, n, left, extra) ==
  /\ Costs(2, 1)
  /\ Calls("rpt", RptCtl(Start(left, 0, extra), l, n), [ports |-> Listed(l), notfn |-> n, evs |-> <<>>])
  /\ UNCHANGED held
DoCfgPw(in, left) ==
  \E d \in {CfgPw(Start(left, 0, CHOOSE x \in Garbage : TRUE), in)} :
    Costs(3, 1) /\ Calls("cfg_pw", d, [in |-> in, out |-> d.out]) /\ UNCHANGED held
DoParsePw(pw, room) ==
  \E d \in {ParsePw(Start(Always, room, NoPort), pw)} :
    Costs(2, 1) /\ Calls("parse", d, [pw |-> pw, out |-> d.out]) /\ UNCHANGED held
DoStatus(kind, l, room, pwp) ==
  \E d \in {Status(kind, Start(Always, room, NoPort), l, pwp)} :
    /\ Costs(1, 1)
    /\ Calls(kind, d, [out |-> d.out, room |-> room,
                       whole |-> Status(kind, Start(Always, Whole, NoPort), l, pwp).out])
    /\ held' = IF Ok(d) THEN [kind |-> kind, events |-> d.out.events] ELSE NotHeld
DoClrEvents(left, extra) ==
  /\ held.events # <<>>
  /\ Costs(1, 1)
  /\ \E d \in {ClrEvents(Start(left, 0, extra), held.events)} :
       Calls("clr", d, [out |-> d.out, held |-> held])
  /\ held' = NotHeld
DoCreate(evs, left) ==
  /\ Costs(1, 1)
  /\ Calls("create", CreateEvents(Start(left, 0, NoPort), evs), evs)
  /\ UNCHANGED held

(* Something occurs that a port detects and that the API cannot create, or *)
(* creates otherwise: the link partner stops to answer, it asks for a      *)
(* reset, or one of several errors; or the device sends a port-write.      *)
T57Occurs(r) == {[r EXCEPT !.stat = @ \cup {"PORT_ERR"}, !.det = @ \cup {"LINK_TO"}], [r EXCEPT !.rcs = TRUE], [r EXCEPT !.stat = @ \cup {"PORT_ERR"}]}
CpsOccurs(r) == {[r EXCEPT !.stat = @ \cup {"PORT_ERR"}, !.iDet = @ \cup {"FATAL_TO"}], [r EXCEPT !.iDet = @ \cup {"TTL"}], [r EXCEPT !.iDet = @ \cup {"RTE"}]}
RxsOccurs(r) == {[r EXCEPT !.plm = @ \cup {"MAX_DENIAL"}, !.pna = TRUE], [r EXCEPT !.plm = @ \cup {"DLT"}]}
PwSent(r) == IF fam = "RXS" THEN [r EXCEPT !.pwp = TRUE] ELSE [r EXCEPT !.stat = @ \cup {"PWP"}]
Occurs(p) ==
  /\ fam \in {"CPS", "TSI57X", "RXS"}
  /\ Costs(1, 1)
  /\ \E r \in CASE fam = "CPS" -> CpsOccurs(hw.p[p]) [] fam = "TSI57X" -> T57Occurs(hw.p[p]) [] fam = "RXS" -> RxsOccurs(hw.p[p]) :
       hw' = [hw EXCEPT !.p[p] = IF ByPw(Notifies(hw, p)) THEN PwSent(r) ELSE r]
  /\ last' = [call |-> "occurs"]
  /\ UNCHANGED <<fam, held>>

(* The port-write that a device sends. *)
PwOf(p) ==
  CASE fam = "CPS" -> [std |-> TRUE, port |-> p, log |-> FALSE, det |-> hw.p[p].det, src |-> 42, code |-> IF "RTE" \in hw.p[p].iDet THEN 161 ELSE 164]
    [] fam = "TSI57X" -> T57Pw(hw, p) [] fam = "TSI721" -> T721Pw(hw) [] fam = "RXS" -> RxsPw(hw, p) [] fam = "STD" -> [port |-> p]

Boot == CASE fam = "CPS" -> {[CpsReset EXCEPT !.p[0].fast = f, !.p[1].st = s] : f \in BOOLEAN, s \in {"up", "none"}}
          [] fam = "TSI57X" -> {[T57Reset EXCEPT !.p[1].up = u, !.p[0].ok = u] : u \in BOOLEAN}
          [] fam = "TSI721" -> {T721Reset}
          [] fam = "RXS" -> {[RxsReset EXCEPT !.p[1].up = u] : u \in BOOLEAN}
          [] fam = "STD" -> {[switch |-> s] : s \in BOOLEAN}
Init == /\ fam \in Families
        /\ hw \in Boot
        /\ held = NotHeld
        /\ last = [call |-> "none"]
        /\ ops = 0 /\ rest = 0

SomePw == {[tt |-> "dev8", did |-> 300, prio |-> 3, retx |-> 3], [tt |-> "dev16", did |-> 300, prio |-> 4, retx |-> 0]}
Next ==
  /\ ops < Budget
  /\ \/ \E l \in SetLists, n \in SetNotfns, evs \in EvCfgs[fam], left \in Lefts, x \in Garbage : DoCfgSet(l, n, evs, left, x)
     \/ \E l \in SetLists, n \in Notfns \cup {"last"}, left \in Lefts, x \in Garbage : DoRptCtl(l, n, left, x)
     \/ \E p \in 0..1, es \in {<<"f_los", "i_sig_det">>, <<"last">>}, x \in Garbage : DoCfgGet(p, es, Always, x)
     \/ \E in \in SomePw, left \in Lefts : DoCfgPw(in, left)
     \/ \E l \in SetLists, room \in Rooms : DoStatus("int", l, room, NoPort)
     \/ \E l \in SetLists, room \in Rooms, pwp \in {0, NoPort} : DoStatus("pw", l, room, pwp)
     \/ \E left \in Lefts, x \in Garbage : DoClrEvents(left, x)
     \/ \E evs \in Created[fam], left \in Lefts : DoCreate(evs, left)
     \/ \E p \in Ports : Occurs(p)
     \/ \E p \in Ports, room \in Rooms : DoParsePw(PwOf(p), room)
Spec == Init /\ [][Next]_vars

-----------------------------------------------------------------------------
Done(call) == last.call = call /\ last.rc = "SUCCESS" /\ last.clean


(* A status call fills the array with the first of the events there are,   *)
(* and says so if there are more.                                          *)
StatusWhole ==
  \A kind \in {"int", "pw"} :
    Done(kind) =>
      LET o == last.more.out
          w == last.more.whole.events
      IN  /\ o.events = SubSeq(w, 1, Len(o.events))
          /\ Len(o.events) = Len(w) \/ Len(o.events) = last.more.room
          /\ o.too = (Len(w) > last.more.room)


(* The events of the device, and the timer that the ports of a MAC share. *)
Shared(e) == e \in {"d_log", "i_init_fail"} \/ (fam = "RXS" /\ e = "d_ttl") \/ (fam = "TSI57X" /\ e = "f_los")

=============================================================================
