------------------------------- MODULE MCPc -------------------------------
EXTENDS Pc

Conf(up, pw, ls, iseq, xdis, lock, nmtc, inv) ==
  [avail |-> TRUE, up |-> up, pw |-> pw, ls |-> ls, iseq |-> iseq, fc |-> "rx",
   xdis |-> xdis, lock |-> lock, nmtc |-> nmtc, swap |-> "none", inv |-> inv]
Slow == Conf(TRUE, "1x", 1, "one", FALSE, FALSE, TRUE, {})
Quick == Conf(TRUE, "1x", 2, "dflt", FALSE, FALSE, TRUE, {0})
Wide == Conf(TRUE, "4x", 4, "two", FALSE, FALSE, FALSE, {3})
Wide57 == Conf(TRUE, "4x", 2, "one", FALSE, FALSE, TRUE, {3})
Two == Conf(TRUE, "2x", 3, "one", FALSE, FALSE, TRUE, {})
Off == Conf(FALSE, "1x", 1, "one", FALSE, FALSE, TRUE, {})
Closed == Conf(TRUE, "1x_l1", 1, "one", TRUE, TRUE, FALSE, {})
Locked == Conf(TRUE, "1x_l0", 2, "one", FALSE, TRUE, FALSE, {})
TenG == Conf(TRUE, "2x", 5, "three", FALSE, FALSE, TRUE, {})
Idle1Ten == [TenG EXCEPT !.iseq = "one"]

Oob == [oob |-> TRUE, acc |-> 0]
Via(p) == [oob |-> FALSE, acc |-> p]
MCAccess == [f \in Families |->
  CASE f = "CPS" -> {Oob, Via(0), Via(12)} [] f = "TSI721" -> {Oob, Via(0)}
    [] f = "TSI57X" -> {Oob, Via(0), Via(1)} [] f = "RXS" -> {Oob, Via(0), Via(3)} [] f = "STD" -> {Oob, Via(0)}]

One(p, c) == <<[pnum |-> p, c |-> c]>>
Pairs(P, Q, C, D) == {One(p, c) \o One(q, e) : p \in P, q \in Q, c \in C, e \in D}
Lists == [f \in Families |->
  CASE f = "CPS" -> {One(12, c) : c \in {Slow, Wide, Off, Closed}} \cup {One(0, c) : c \in {Two, Closed, TenG}}
                    \cup Pairs({0, 8}, {12, 16}, {Slow, Two}, {Quick})
    [] f = "TSI721" -> {One(0, c) : c \in {Two, Locked, Quick, Closed}}
    [] f = "TSI57X" -> {One(p, c) : p \in {0, 1, 2}, c \in {Slow, Off, Locked}} \cup {One(2, Wide57), One(0, Two), One(4, Slow)}
                    \cup Pairs({2}, {3}, {Slow, Off}, {Slow, Quick, Locked}) \cup Pairs({0}, {2}, {Slow}, {Slow, Off})
    [] f = "RXS" -> {One(p, c) : p \in {0, 1, 3}, c \in {Slow, TenG, Off}} \cup {One(1, Wide), One(0, Wide), One(0, Idle1Ten)}
                    \cup Pairs({0}, {1}, {Slow, TenG}, {Slow, TenG, Off}) \cup Pairs({2}, {3}, {TenG}, {Locked})
    [] f = "STD" -> {One(0, c) : c \in {Slow, Locked, Off}} \cup Pairs({0}, {1}, {Two}, {Closed})]
Stacks == [f \in Families |-> IF f = "RXS" THEN {{}, {0, 1, 2, 3}}
                              ELSE IF f = "STD" THEN {<<>>, <<1>>, <<0, 1>>, <<7>>} ELSE {{}}]
Req(all, l, lrto, a, s) == [all |-> all, pc |-> l, lrto |-> lrto, oob |-> a.oob, acc |-> a.acc, stack |-> s]
MCRequests == [f \in Families |->
  {Req(FALSE, l, 60000, a, s) : l \in Lists[f], a \in MCAccess[f], s \in Stacks[f]}
    \cup {Req(TRUE, One(0, c), 3, a, s) : c \in {Quick, Off}, a \in MCAccess[f], s \in Stacks[f]}]

Bad == {"PORT_ERR", "OES", "IES"}
MCLinks == {Link(TRUE, "4x", {}), Link(FALSE, "l0", {}), Link(TRUE, "lr", Bad), Link(TRUE, "l0", {"MUTE", "FAIL"}),
            Link(TRUE, "l0", {"ACKID"}), Link(TRUE, "l0", {"IES", "STUCK"})}
MCResets == {[lp |-> TRUE, keep |-> TRUE, all |-> TRUE], [lp |-> TRUE, keep |-> FALSE, all |-> TRUE],
             [lp |-> FALSE, keep |-> TRUE, all |-> FALSE], [lp |-> TRUE, keep |-> FALSE, all |-> FALSE]}
MCPartners == {[clrlp |-> FALSE, lp |-> "none"], [clrlp |-> TRUE, lp |-> "CPS"], [clrlp |-> TRUE, lp |-> "1616"]}
MCPolicies == {[accept |-> TRUE, part |-> FALSE, mtc |-> FALSE, rst |-> "device"],
               [accept |-> FALSE, part |-> TRUE, mtc |-> TRUE, rst |-> "int"]}
MCLefts == {4, 9, 9999}
MCMaxOps == [f \in Families |-> IF f = "CPS" THEN 1 ELSE 2]

Good(P) == [p \in P |-> Link(TRUE, "l0", {})]
Ctl(out) == [dis |-> FALSE, lock |-> FALSE, in |-> FALSE, out |-> out, ovr |-> "none", mecs |-> FALSE]
Cps(dev, quad, P, plls) ==
  [dev |-> dev, quad |-> quad, pll |-> [x \in plls |-> [div |-> FALSE, down |-> FALSE]],
   lane |-> [l \in CpsLanes |-> [rate |-> 1, sel |-> FALSE, dis |-> FALSE, inv |-> FALSE, mon |-> FALSE]],
   ctl |-> [p \in P |-> Ctl(dev # "SPS1616")], ops |-> [p \in P |-> [fcdis |-> FALSE, filt |-> FALSE]],
   idle2 |-> [p \in P |-> FALSE], drop |-> [p \in P |-> TRUE],
   ign |-> {}, nomc |-> {}, prst |-> FALSE, lrto |-> 16777215,
   link |-> [p \in P |-> IF p = 8 THEN Link(TRUE, "lr", Bad) ELSE Link(p # 16, "l0", {})], hit |-> {}, lprst |-> {}]
T721(boot) ==
  [boot |-> boot, ctl |-> [dis |-> FALSE, lock |-> FALSE, en |-> TRUE, ovr |-> "none"], ls |-> 3, swap |-> "none",
   self |-> "device", mode |-> "hot", rint |-> FALSE, rpw |-> FALSE, filt |-> FALSE, lrto |-> 0, fresh |-> FALSE,
   drop |-> [p \in {0} |-> FALSE], link |-> Good({0}), hit |-> {}, lprst |-> {}]
T57(down) ==
  [dloop |-> (0 :> [mode1x |-> TRUE, x4 |-> FALSE, x1 |-> FALSE, swap |-> FALSE, clk |-> 1]) @@
             (1 :> [mode1x |-> ~down, x4 |-> FALSE, x1 |-> down, swap |-> FALSE, clk |-> 1]),
   lane |-> [m \in T57Macs |-> {}], regs |-> [p \in T57Ports |-> [T57ResetRegs EXCEPT !.rest = "own"]],
   glob |-> [rcs |-> FALSE, mcs |-> FALSE], drop |-> [p \in T57Ports |-> TRUE], lrto |-> 0, link |-> Good(T57Ports), hit |-> {}, lprst |-> {}]
RxsPort(p) == [down |-> FALSE, ctl |-> [dis |-> FALSE, lock |-> FALSE, en |-> TRUE, ovr |-> "none"], baud |-> 1,
  idle |-> "dflt", swap |-> "none", inv |-> {}, route |-> RxsPorts, mtc |-> TRUE]
Rxs(quad) ==
  [max |-> [p \in RxsPorts |-> IF p \in {2, 3} \/ ~quad THEN 2 ELSE IF p = 0 THEN 4 ELSE 0], regs |-> [p \in RxsPorts |-> RxsPort(p)],
   rst |-> [p \in RxsPorts |-> "none"], infer |-> RxsPorts, rint |-> {}, rpw |-> {}, filt |-> {}, mecs |-> {},
   lrto |-> 0, busy |-> IF quad THEN {2} ELSE {}, drop |-> [p \in RxsPorts |-> FALSE], link |-> Good(RxsPorts), hit |-> {}, lprst |-> {}]
Std(sw) ==
  [unavl |-> IF sw THEN {1} ELSE {}, ctl |-> [p \in StdPorts |-> [dis |-> FALSE, lock |-> FALSE, en |-> TRUE, ovr |-> "none", mecs |-> FALSE]],
   ls |-> [p \in StdPorts |-> 1], idle2 |-> [p \in StdPorts |-> FALSE], lrto |-> 0, switch |-> sw, link |-> Good(StdPorts), hit |-> {}, lprst |-> {}]
Device(f, S) == {[fam |-> f, hw |-> h] : h \in S}
MCDevices == Device("CPS", {Cps("CPS1848", q, {0, 8, 12, 16}, {0, 3, 8}) : q \in {0, 1, 2}} \cup {Cps("SPS1616", 1, 0..3, {0})})
  \cup Device("TSI721", {T721(TRUE), T721(FALSE)})
  \cup Device("TSI57X", {T57(TRUE), T57(FALSE)}) \cup Device("RXS", {Rxs(TRUE), Rxs(FALSE)}) \cup Device("STD", {Std(TRUE), Std(FALSE)})
=============================================================================
