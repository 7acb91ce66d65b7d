------------------------------- MODULE PcCps -------------------------------
(***************************************************************************)
(* Port configuration of the CPS and SPS switches (librio/src/CPS_PC.c).   *)
(*                                                                         *)
(* A quadrant is modelled: ports, lanes and PLLs of different quadrants    *)
(* have nothing in common.  Quadrant 0 of a CPS1848 without port 4, which  *)
(* has four lanes and a PLL to itself in every configuration, and quadrant *)
(* 0 of an SPS1616.                                                        *)
(*                                                                         *)
(* Registers: quad (QUAD_CFG), pll (PLL_X_CTL_1), lane (LANE_X_CTL: rate,  *)
(* sel, dis; LANE_X_CTL_1_ROOT: inv; LANE_X_STATUS_4: mon), ctl            *)
(* (PORT_X_CTL_1), ops (PORT_X_OPS), idle2 (in PORT_X_ERR_STAT), ign       *)
(* (PORT_X_STATUS_AND_CTL of a 1616), prst (PORT_RST_CTL of DEVICE_CTL_1), *)
(* filt (the mask of the maintenance packet filter).  link is the state of *)
(* the links; hit and lprst collect the ports that a call resets, disables *)
(* or locks out, and those whose link partner it resets.                   *)
(***************************************************************************)
EXTENDS PcBase

INVALID_PLL == NONE
Rel(n, first, pll, others) == [n |-> n, first |-> first, pll |-> pll, others |-> others]
NoRel == Rel(0, 0, INVALID_PLL, <<>>)

(* For each port and quadrant configuration: number of lanes, first lane, *)
(* PLL, and the other ports that depend on the PLL.                       *)
cps1848_cfg ==
  (0 :> <<Rel(4, 0, 0, <<>>), Rel(2, 0, 0, <<12>>), Rel(2, 0, 0, <<12>>), Rel(2, 0, 0, <<12, 16>>)>>) @@
  (8 :> <<Rel(4, 32, 8, <<>>), Rel(4, 32, 8, <<>>), Rel(2, 32, 8, <<16>>), Rel(4, 32, 8, <<>>)>>) @@
  (12 :> <<Rel(0, 0, 0, <<>>), Rel(2, 2, 0, <<0>>), Rel(2, 2, 0, <<0>>), Rel(1, 2, 0, <<0, 16>>)>>) @@
  (16 :> <<Rel(0, 0, 3, <<>>), Rel(0, 0, 3, <<>>), Rel(2, 34, 8, <<8>>), Rel(1, 3, 0, <<0, 12>>)>>)
sps1616_cfg ==
  (0 :> <<Rel(4, 0, 0, <<>>), Rel(2, 0, 0, <<2>>), Rel(2, 0, 0, <<2, 3>>), Rel(1, 0, 0, <<1, 2, 3>>)>>) @@
  (1 :> <<NoRel, NoRel, NoRel, Rel(1, 1, 0, <<0, 2, 3>>)>>) @@
  (2 :> <<NoRel, Rel(2, 2, 0, <<0>>), Rel(1, 2, 0, <<0, 3>>), Rel(1, 2, 0, <<0, 1, 3>>)>>) @@
  (3 :> <<NoRel, NoRel, Rel(1, 3, 0, <<0, 2>>), Rel(1, 3, 0, <<0, 1, 2>>)>>)

(* init_sw_pi: the tables of a device. *)
Sps(hw) == hw.dev = "SPS1616"
CpsPorts(hw) == IF Sps(hw) THEN DOMAIN sps1616_cfg ELSE DOMAIN cps1848_cfg
CpsRel(hw, p, v) == (IF Sps(hw) THEN sps1616_cfg ELSE cps1848_cfg)[p][v + 1]
LanesOf(r) == r.first..(r.first + r.n - 1)
CpsLanes == (0..3) \cup (32..35)
PllLanes(r) == LET s == r.first - (r.first % 4) IN s..(s + 3)

(* Speeds of one group come from one setting of the PLL. *)
SpeedGroup(ls) == IF ls \in {0, 1, 3} THEN 0 ELSE IF ls \in {2, 4} THEN 1 ELSE 2
Rate(ls) == IF ls = 0 THEN 0 ELSE IF ls \in {1, 2} THEN 1 ELSE 2

-----------------------------------------------------------------------------
(* Registers whose write has an effect of its own. *)
WriteCtl(d, p, c) ==
  RegWrite(d, [d.hw EXCEPT !.ctl[p] = c, !.hit = IF c.dis \/ c.lock THEN @ \cup {p} ELSE @])
WriteReset(d, S) ==
  RegWrite(d, [d.hw EXCEPT !.hit = @ \cup S,
                 !.link = [p \in DOMAIN @ |-> IF p \in S THEN Cleared(@[p]) ELSE @[p]]])
WriteCtlTwice(d, p, c) == Then(WriteCtl(d, p, c), LAMBDA e : WriteCtl(e, p, c))
Disabled(c) == [c EXCEPT !.dis = TRUE]

(* Link response timeouts are in units of 100 nsec, the register counts *)
(* units of 352 nsec in 24 bits.                                        *)
CpsSetLrto(d, lrto) ==
  LET v == (lrto * 25) \div 88
      r == IF v > 16777215 THEN 16777215 ELSE IF v = 0 THEN 1 ELSE v
  IN  RegWrite(d, [d.hw EXCEPT !.lrto = r])
CpsGetLrto(hw) == (hw.lrto * 88) \div 25

-----------------------------------------------------------------------------
(* rio_pc_get_config *)
CpsPortWidth(n, ovr) ==
  CASE n = 1 -> "1x"
    [] n = 2 -> (CASE ovr \in {"none", "2x"} -> "2x" [] ovr = "l0" -> "1x_l0" [] OTHER -> "1x_l1")
    [] n = 4 -> (CASE ovr = "none" -> "4x" [] ovr = "2x" -> "2x" [] ovr = "l0" -> "1x_l0" [] OTHER -> "1x_l2")

CpsPc(hw, p) ==
  LET r == CpsRel(hw, p, hw.quad)
      up == (\A l \in LanesOf(r) : ~hw.lane[l].dis) /\ ~hw.pll[r.pll].down
      last == hw.lane[r.first + r.n - 1]
      fast == IF Sps(hw) THEN last.sel ELSE hw.pll[r.pll].div
      c == hw.ctl[p]
  IN  IF r.n = 0 \/ ~up THEN NoPc(r.n > 0)
      ELSE [avail |-> TRUE, up |-> TRUE, pw |-> CpsPortWidth(r.n, c.ovr),
            ls |-> IF fast THEN <<LS_LAST, 2, 4>>[last.rate + 1] ELSE <<0, 1, 3>>[last.rate + 1],
            iseq |-> IF hw.idle2[p] THEN "two" ELSE "one",
            fc |-> IF hw.ops[p].fcdis THEN "rx" ELSE "tx",
            xdis |-> c.dis, lock |-> c.lock,
            nmtc |-> c.in /\ (Sps(hw) => c.out), swap |-> "none",
            inv |-> {l - r.first : l \in {k \in LanesOf(r) : hw.lane[k].inv}}]

-----------------------------------------------------------------------------
(* rio_pc_set_config: checks.  d.w.sorted has the ports to configure. *)
BadParm(c) == c.avail /\ (\/ c.pw \notin PWs \/ c.ls = LS_LAST \/ c.swap # "none"
                          \/ c.iseq = "three")

(* Some quadrant configuration gives every port its lanes, and ports on *)
(* one PLL speeds of one group.                                         *)
LanesSuffice(hw, s, S, v) == \A p \in S : CpsRel(hw, p, v).n >= PwLanes(s[p].pw)
PllAgrees(hw, s, v) ==
  \A p \in DOMAIN s : s[p].up =>
    \A i \in DOMAIN CpsRel(hw, p, v).others :
      LET o == CpsRel(hw, p, v).others[i]
      IN  o \in DOMAIN s /\ s[o].up /\ CpsRel(hw, o, v).pll = CpsRel(hw, p, v).pll
            => SpeedGroup(s[o].ls) = SpeedGroup(s[p].ls)
CpsConflict(hw, s) ==
  /\ s # <<>>
  /\ \A v \in 0..3 : ~ /\ \A p \in DOMAIN s : CpsRel(hw, p, v).pll # INVALID_PLL
                       /\ LanesSuffice(hw, s, DOMAIN s, v)
                       /\ Sps(hw) \/ PllAgrees(hw, s, v)

(* The registers read.  Those of the ports not to be configured are not *)
(* read: what is written of them is arbitrary, Junk stands for it.      *)
Junk == [dis |-> TRUE, lock |-> TRUE, in |-> FALSE, out |-> FALSE, ovr |-> "lr", mecs |-> FALSE]
CpsRegs(hw, s) ==
  [quad |-> hw.quad, pll |-> hw.pll, lane |-> hw.lane, rst |-> {}, ops |-> hw.ops, idle2 |-> hw.idle2,
   ctl |-> [p \in CpsPorts(hw) |-> IF p \in DOMAIN s THEN hw.ctl[p] ELSE Junk]]

InitParmsCheckConflict(d, in) ==
  LET all == ByPort(in, CpsPorts(d.hw))
      s == [p \in {q \in DOMAIN all : all[q].avail} |-> all[p]]
      r == CpsRegs(d.hw, s)
  IN  IF ~(DOMAIN all \subseteq CpsPorts(d.hw)) \/ (\E p \in DOMAIN all : BadParm(all[p]))
         \/ CpsConflict(d.hw, s)
      THEN Fail(d, "INVALID_PARAMETER")
      ELSE Then(RegRead(d), LAMBDA a :
             [a EXCEPT !.w = [sorted |-> s, regs |-> r, chg |-> r, master |-> NONE,
                              curr |-> [p \in CpsPorts(d.hw) |-> CpsPc(d.hw, p)]]])

-----------------------------------------------------------------------------
(* rio_pc_set_config: the changes.  The quadrant configuration is kept if *)
(* it has the lanes; ports without lanes in a new one are dropped.        *)
ComputeQuadConfig(d) ==
  LET s == d.w.sorted
      cur == d.w.chg.quad
      fits == {v \in (0..3) \ {cur} : LanesSuffice(d.hw, s, {p \in DOMAIN s : s[p].up}, v)}
      v == CHOOSE v \in fits : \A u \in fits : v <= u
  IN  IF LanesSuffice(d.hw, s, DOMAIN s, cur) THEN d
      ELSE IF fits = {} THEN Fail(d, "SW_FAILURE")
      ELSE [d EXCEPT !.w.chg.quad = v, !.w.chg.rst = DOMAIN s,
                     !.w.sorted = [p \in {q \in DOMAIN s : CpsRel(d.hw, q, v).n > 0} |-> s[p]]]

(* The lanes of a port that is powered up take their values of reset. *)
ComputeBaudrate(d, p) ==
  LET c == d.w.sorted[p]
      r == CpsRel(d.hw, p, d.w.chg.quad)
      fresh == ~d.w.curr[p].up
      fast == SpeedGroup(c.ls) = 1
      Baud(l) == [rate |-> Rate(c.ls), mon |-> c.ls >= 3, inv |-> l.inv /\ ~fresh,
                  dis |-> l.dis /\ ~fresh,
                  sel |-> IF Sps(d.hw) THEN fast ELSE l.sel /\ ~fresh]
      old == d.w.chg.lane
      a == [d EXCEPT !.w.chg.lane = [l \in CpsLanes |-> IF l \in LanesOf(r) THEN Baud(old[l])
                                                        ELSE old[l]]]
  IN  IF r.n = 0 \/ SpeedGroup(c.ls) = 2 THEN Fail(d, "SW_FAILURE")
      ELSE IF Sps(d.hw) \/ d.w.chg.pll[r.pll].div = fast THEN a
      ELSE IF d.w.regs.pll[r.pll] # d.w.chg.pll[r.pll] THEN Fail(d, "SW_FAILURE")
      ELSE [a EXCEPT !.w.chg.pll[r.pll].div = fast]

Override(n, pw) ==
  CASE n = 1 -> "none"
    [] pw \in {"1x", "1x_l0"} -> "l0"
    [] pw \in {"1x_l1", "1x_l2"} -> "lr"
    [] n = 4 /\ pw = "2x" -> "2x"
    [] OTHER -> "none"

ComputeLaneswap(d, p) ==
  LET c == d.w.sorted[p]
      r == CpsRel(d.hw, p, d.w.chg.quad)
  IN  IF r.n = 2 /\ c.pw = "4x" THEN Fail(d, "INVALID_PARAMETER")
      ELSE [d EXCEPT
             !.w.chg.lane = [l \in CpsLanes |-> IF l \in LanesOf(r)
                               THEN [@[l] EXCEPT !.inv = (l - r.first) \in c.inv] ELSE @[l]],
             !.w.chg.ctl[p] = [@ EXCEPT !.dis = c.xdis, !.lock = c.lock, !.in = c.nmtc,
                                 !.out = c.nmtc \/ ~Sps(d.hw), !.ovr = Override(r.n, c.pw)],
             !.w.chg.idle2[p] = IF c.iseq = "dflt" THEN @ ELSE c.iseq = "two",
             !.w.chg.ops[p].fcdis = IF c.fc = "last" THEN @ ELSE c.fc = "rx"]

ComputePowerdown(d, p) ==
  LET r == CpsRel(d.hw, p, d.w.chg.quad)
      up == d.w.sorted[p].up
      lanes == [l \in CpsLanes |-> IF l \in LanesOf(r) THEN [d.w.chg.lane[l] EXCEPT !.dis = ~up]
                                   ELSE d.w.chg.lane[l]]
      idle == \A l \in PllLanes(r) : lanes[l].dis
  IN  IF r.n = 0 THEN Fail(d, "SW_FAILURE")
      ELSE [d EXCEPT !.w.chg.lane = lanes,
                     !.w.chg.pll[r.pll].down = IF up THEN FALSE ELSE @ \/ idle,
                     !.w.chg.ctl[p].dis = @ \/ ~up]

ComputeChanges(d) ==
  LET Ups(a) == {p \in DOMAIN a.w.sorted : a.w.sorted[p].up}
  IN  Then(Then(Then(ComputeQuadConfig(d),
           LAMBDA a : ForPorts(a, Ups(a), ComputeBaudrate)),
           LAMBDA a : ForPorts(a, Ups(a), ComputeLaneswap)),
           LAMBDA a : ForPorts(a, DOMAIN a.w.sorted, ComputePowerdown))

-----------------------------------------------------------------------------
(* The port that the device is accessed through stays as it is: a change  *)
(* of the quadrant configuration that moves its lanes is taken back, with *)
(* the changes of the ports that share its PLL.                           *)
PreserveLanes(d, m) ==
  LET r == CpsRel(d.hw, m, d.w.regs.quad)
      back == IF d.w.chg.pll[r.pll] # d.w.regs.pll[r.pll] THEN PllLanes(r) ELSE LanesOf(r)
  IN  [d EXCEPT !.w.chg.pll[r.pll] = d.w.regs.pll[r.pll],
                !.w.chg.lane = [l \in CpsLanes |->
                   IF l \in back THEN [d.w.regs.lane[l] EXCEPT !.mon = d.w.chg.lane[l].mon]
                   ELSE d.w.chg.lane[l]]]

PreserveHostPort(d, in) ==
  LET m == in.acc
      r == CpsRel(d.hw, m, d.w.regs.quad)
      n == CpsRel(d.hw, m, d.w.chg.quad)
      keeps == n.first = r.first /\ n.n = r.n /\ n.pll = r.pll
      gone == {m} \cup {n.others[i] : i \in DOMAIN n.others}
      s == d.w.sorted
      Host(a) == [PreserveLanes(a, m) EXCEPT
                    !.w.master = m,
                    !.w.chg.ctl[m] = [@ EXCEPT !.dis = FALSE, !.lock = FALSE,
                                               !.ovr = d.w.regs.ctl[m].ovr],
                    !.w.chg.idle2[m] = d.w.regs.idle2[m], !.w.chg.ops[m] = d.w.regs.ops[m]]
  IN  IF in.oob \/ r.n = 0 THEN d
      ELSE Then(RegRead(d), LAMBDA a :
             IF ~a.hw.link[m].ok \/ "PORT_ERR" \in a.hw.link[m].err
                \/ a.hw.ctl[m].lock \/ a.hw.ctl[m].dis THEN a
             ELSE IF keeps THEN Host([a EXCEPT !.w.chg.rst = @ \ {m}])
             ELSE Host([a EXCEPT !.w.chg.quad = d.w.regs.quad, !.w.chg.rst = {},
                                 !.w.sorted = [p \in DOMAIN s \ gone |-> s[p]]]))

-----------------------------------------------------------------------------
(* rio_pc_set_config: the writes.  Those of a new quadrant configuration. *)
WriteQuad(d) ==
  LET w == d.w
      S == DOMAIN w.sorted
  IN  IF w.regs.quad = w.chg.quad THEN d
      ELSE Then(Then(Then(
             ForPorts(d, S \ {w.master}, LAMBDA a, p : WriteCtl(a, p, Disabled(w.regs.ctl[p]))),
             LAMBDA a : RegWrite(a, [a.hw EXCEPT !.quad = w.chg.quad])),
             LAMBDA a : WriteReset(a, w.chg.rst)),
             LAMBDA a : ForPorts(a, S, LAMBDA b, p : WriteCtlTwice(b, p, w.regs.ctl[p])))

(* The control and the inversion of a lane, where they change. *)
WriteLane(d, l) ==
  LET r == d.w.regs.lane[l]
      c == d.w.chg.lane[l]
      rate == [c EXCEPT !.inv = r.inv, !.mon = r.mon]
      W(a, v) == Then(RegWrite(a, [a.hw EXCEPT !.lane[l] = [v EXCEPT !.mon = a.hw.lane[l].mon]]),
                      LAMBDA b : [b EXCEPT !.w.regs.lane[l] = v])
      a == IF rate = r THEN d ELSE W(d, rate)
  IN  IF c.inv = r.inv THEN a ELSE Then(a, LAMBDA b : W(b, [rate EXCEPT !.inv = c.inv]))
WriteLanes(d, r) == ForPorts(d, LanesOf(r), WriteLane)

WritePll(d, pll) ==
  Then(RegWrite(d, [d.hw EXCEPT !.pll[pll] = d.w.chg.pll[pll]]),
       LAMBDA a : [a EXCEPT !.w.regs.pll[pll] = d.w.chg.pll[pll]])

(* A port that depends on the PLL is disabled and reset with it. *)
DisableDependent(d, o) ==
  IF o = d.w.master THEN d
  ELSE LET a == IF o \in DOMAIN d.w.sorted THEN d
                ELSE [RegRead(d) EXCEPT !.w.regs.ctl[o] = d.hw.ctl[o]]
       IN  Then(a, LAMBDA b : WriteCtl(b, o, Disabled(b.w.regs.ctl[o])))

PllChanged(d, pll) == d.w.regs.pll[pll] # d.w.chg.pll[pll]

(* PLL, lanes and idle sequence of a disabled port: a PLL is slowed down *)
(* before its lanes change and sped up after.                            *)
UpdateRates(d, p, r, deps) ==
  LET sps == Sps(d.hw)
      s1 == IF ~PllChanged(d, r.pll) \/ d.w.chg.pll[r.pll].div THEN d
            ELSE IF sps /\ d.w.regs.pll[r.pll].div THEN Fail(d, "SW_FAILURE")
            ELSE WritePll(d, r.pll)
      s2 == Then(s1, LAMBDA a : WriteLanes(a, r))
      s3 == ForEach(s2, SelectSeq(deps, LAMBDA o : o \in DOMAIN d.w.sorted /\ o # d.w.master),
                    LAMBDA a, o : WriteLanes(a, CpsRel(a.hw, o, a.w.chg.quad)))
      s4 == Then(s3, LAMBDA a :
              IF ~PllChanged(a, r.pll) THEN a
              ELSE IF sps THEN Fail(a, "SW_FAILURE") ELSE WritePll(a, r.pll))
  IN  Then(s4, LAMBDA a :
        IF a.w.regs.idle2[p] = a.w.chg.idle2[p] THEN a
        ELSE RegWrite(a, [a.hw EXCEPT !.idle2[p] = a.w.chg.idle2[p], !.link[p] = Cleared(@)]))

(* A change of PLL, lanes or idle sequence: the port and those that *)
(* depend on its PLL are disabled, changed and reset.               *)
ChangePort(d, p, r, dep) ==
  LET deps == IF dep THEN r.others ELSE <<>>
      other == {deps[i] : i \in DOMAIN deps}
      a == Then(ForEach(d, deps, DisableDependent), LAMBDA x :
             IF p = x.w.master THEN x ELSE WriteCtl(x, p, Disabled(x.w.regs.ctl[p])))
      b == Then(a, LAMBDA x : UpdateRates(x, p, r, deps))
      c == Then(b, LAMBDA x : WriteReset(x, {p} \cup (other \ {x.w.master})))
      e == ForEach(c, deps, LAMBDA x, o : WriteCtl(x, o, x.w.regs.ctl[o]))
  IN  Then(e, LAMBDA x : WriteCtl(x, p, x.w.regs.ctl[p]))

(* Clock compensation monitoring is set for the lanes last visited: those *)
(* of the last dependent port, if there is one.                           *)
WriteMonitors(d, r, dep) ==
  LET vis == SelectSeq(IF dep THEN r.others ELSE <<>>,
                       LAMBDA o : o \in DOMAIN d.w.sorted /\ o # d.w.master)
      m == IF vis = <<>> THEN r ELSE CpsRel(d.hw, vis[Len(vis)], d.w.chg.quad)
  IN  ForPorts(d, {l \in LanesOf(m) : d.w.regs.lane[l].mon # d.w.chg.lane[l].mon},
        LAMBDA a, l : RegWrite(a, [a.hw EXCEPT !.lane[l].mon = a.w.chg.lane[l].mon]))

WritePort(d, p) ==
  LET r == CpsRel(d.hw, p, d.w.chg.quad)
      dep == PllChanged(d, r.pll)
      regs == d.w.regs
      chg == d.w.chg
      change == \/ dep \/ regs.idle2[p] # chg.idle2[p]
                \/ \E l \in LanesOf(r) : regs.lane[l] # [chg.lane[l] EXCEPT !.mon = regs.lane[l].mon]
  IN  Then(Then(Then(IF change THEN ChangePort(d, p, r, dep) ELSE d,
        LAMBDA a : WriteMonitors(a, r, dep)),
        LAMBDA a : WriteCtlTwice(a, p, chg.ctl[p])),
        LAMBDA a : IF regs.ops[p] = chg.ops[p] THEN a
                   ELSE RegWrite(a, [a.hw EXCEPT !.ops[p] = chg.ops[p]]))

WriteChanges(d) == Then(WriteQuad(d), LAMBDA a : ForPorts(a, DOMAIN a.w.sorted, WritePort))

CpsSetConfig(d, in) ==
  LET a == Then(RegRead(d), LAMBDA b : InitParmsCheckConflict(b, in))
      b == Then(Then(a, RegRead), LAMBDA e : CpsSetLrto(e, in.lrto))
      c == Then(Then(b, ComputeChanges), LAMBDA e : PreserveHostPort(e, in))
  IN  Then(Then(c, WriteChanges), RegRead)

-----------------------------------------------------------------------------
(* rio_pc_get_status: what prevents packet exchange counts as an error. *)
CpsStatus(hw, p) ==
  LET r == CpsRel(hw, p, hw.quad)
      k == hw.link[p]
      err == k.err \cap {"PORT_ERR", "RETRY"} # {} \/ ("FAIL" \in k.err /\ hw.drop[p])
  IN  IF r.n = 0 \/ ~k.ok THEN [ok |-> FALSE, pw |-> "last", err |-> FALSE, ist |-> FALSE, ost |-> FALSE]
      ELSE [ok |-> TRUE, err |-> err, ist |-> "IES" \in k.err, ost |-> "OES" \in k.err,
            pw |-> CASE k.w = "l0" -> IF r.n = 1 THEN "1x" ELSE "1x_l0"
                     [] k.w = "lr" -> IF r.n = 2 THEN "1x_l1" ELSE "1x_l2"
                     [] OTHER -> k.w]

(* A reset request to the link partner. *)
WriteLmReset(d, p) == RegWrite(d, [d.hw EXCEPT !.lprst = @ \cup {p}])

(* DEVICE_SOFT_RESET: every port is reset, its controls are those of reset. *)
CpsSoftReset(hw) ==
  LET P == CpsPorts(hw)
  IN  [hw EXCEPT !.hit = P, !.ign = {}, !.nomc = {}, !.prst = FALSE,
         !.ctl = [p \in P |-> [dis |-> FALSE, lock |-> FALSE, in |-> FALSE, out |-> ~Sps(hw),
                               ovr |-> "none", mecs |-> FALSE]],
         !.ops = [p \in P |-> [fcdis |-> FALSE, filt |-> FALSE]],
         !.idle2 = [p \in P |-> FALSE], !.lrto = 16777215,
         !.pll = [x \in DOMAIN @ |-> [div |-> FALSE, down |-> FALSE]],
         !.lane = [l \in CpsLanes |-> [rate |-> 1, sel |-> FALSE, dis |-> FALSE, inv |-> FALSE,
                                       mon |-> FALSE]],
         !.link = [p \in P |-> Cleared(@[p])]]

(* rio_pc_reset_port: the link partner is reset whatever reset_lp says. *)
CpsResetPort(d, in) ==
  LET P == CpsPorts(d.hw)
      S == IF in.all THEN P ELSE {in.port}
      a == RegRead(d)
  IN  IF ~(S \subseteq P) \/ (~in.oob /\ in.acc \notin P) THEN Fail(d, "INVALID_PARAMETER")
      ELSE IF in.all /\ in.lp /\ ~in.keep
      THEN Then(Then(a, LAMBDA b : ForPorts(b, S, WriteLmReset)),
                LAMBDA b : RegWrite(b, CpsSoftReset(b.hw)))
      ELSE Then(a, LAMBDA b : ForPorts(b, IF in.oob THEN S ELSE S \ {in.acc},
             LAMBDA c, p : Then(WriteLmReset(c, p), LAMBDA e : WriteReset(e, {p}))))

(* rio_pc_reset_link_partner *)
CpsResetLinkPartner(d, p, resync) ==
  LET c == d.hw.ctl[p]
      a == Then(RegRead(d), LAMBDA b : IF ~b.hw.link[p].ok THEN b
                                       ELSE Then(WriteLmReset(b, p), RegRead))
  IN  IF p \notin CpsPorts(d.hw) THEN Fail(d, "INVALID_PARAMETER")
      ELSE Then(a, LAMBDA b :
             IF ~b.hw.link[p].ok \/ ~resync THEN b
             ELSE Then(Then(RegRead(b), LAMBDA e : WriteCtl(e, p, Disabled(c))),
                       LAMBDA e : WriteCtlTwice(e, p, c)))

(* rio_pc_clr_errs: the port is reset.  lp is the kind of link partner: *)
(* none, another vendor, a CPS or a 1616.                               *)
CpsClrErrs(d, p, clrlp, lp) ==
  Then(RegRead(d), LAMBDA a :
    LET rlp == a.hw.link[p].ok /\ clrlp /\ lp \in {"CPS", "1616"}
    IN  IF rlp /\ lp = "1616" THEN Fail(a, "STUBBED")
        ELSE CpsResetPort(a, [all |-> FALSE, port |-> p, oob |-> TRUE, acc |-> NONE,
                              keep |-> TRUE, lp |-> rlp]))

(* Reset requests are ignored by the ports of a 1616; the other devices *)
(* can at most confine them to the port.                                *)
SetIntPwIgnoreReset(d, S) ==
  IF Sps(d.hw)
  THEN ForPorts(d, S, LAMBDA a, p : Then(RegRead(a),
         LAMBDA b : RegWrite(b, [b.hw EXCEPT !.ign = @ \cup {p}])))
  ELSE Then(RegRead(d), LAMBDA b : RegWrite(b, [b.hw EXCEPT !.prst = TRUE]))

CpsResetPolicy(d, S, rst) ==
  CASE rst \in {"device", "port"} ->
         Then(RegRead(d), LAMBDA b : RegWrite(b, [b.hw EXCEPT !.prst = (rst = "port")]))
    [] rst \in {"int", "pw", "ignore"} -> SetIntPwIgnoreReset(d, S)
    [] OTHER -> Fail(d, "INVALID_PARAMETER")

CpsDevResetConfig(d, rst) == CpsResetPolicy(d, CpsPorts(d.hw), rst)

(* rio_pc_secure_port, for the ports that are available and powered up. *)
CpsSecurePort(d, S, in) ==
  LET Mecs(a, p) == IF ~Sps(a.hw) THEN a
        ELSE Then(RegRead(a), LAMBDA b : RegWrite(b,
               [b.hw EXCEPT !.nomc = IF in.accept THEN @ \ {p} ELSE @ \cup {p}]))
      Part(a, p) == Then(RegRead(a), LAMBDA b : WriteCtl(b, p, [b.hw.ctl[p] EXCEPT !.mecs = in.part]))
      Mask(a, p) == Then(RegWrite(a, a.hw), LAMBDA b : RegWrite(b, b.hw))
      Filt(a, p) == Then(RegRead(a), LAMBDA b : RegWrite(b, [b.hw EXCEPT !.ops[p].filt = ~in.mtc]))
      One(a, p) == Then(Then(Then(Then(Mecs(a, p), LAMBDA b : Part(b, p)),
                     LAMBDA b : CpsResetPolicy(b, {p}, in.rst)),
                     LAMBDA b : Mask(b, p)), LAMBDA b : Filt(b, p))
      up == {p \in S : CpsPc(d.hw, p).up}
  IN  Then(RegRead(d), LAMBDA a : ForPorts(a, up, One))
=============================================================================
