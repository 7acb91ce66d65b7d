------------------------------- MODULE RtCps -------------------------------
(***************************************************************************)
(* Routing tables of the CPS switches (librio/src/CPS_RT.c).               *)
(*                                                                         *)
(* hw.dflt is the default route register, hw.dev[q], hw.dom[q] and         *)
(* hw.mc[q] the tables and masks of port q, hw.self the ports that return  *)
(* multicast packets to their sender.  A write on all ports goes to the    *)
(* broadcast registers and is one register access.  The register           *)
(* RIO_DOMAIN is 0 and is only ever written with 0.                        *)
(***************************************************************************)
EXTENDS RtTable

CPS_USE_DEVICE_TABLE == 221
CPS_USE_DEFAULT_ROUTE == 222
CPS_NO_ROUTE == 223
CPS_MC_BASE == 64
CPS_BAD == -1           \* RIO_ERR_INVALID_PARAMETER

CpsStdToCps(v) ==
  CASE v = DFLT_PORT -> CPS_USE_DEFAULT_ROUTE
    [] v = DROP -> CPS_NO_ROUTE
    [] v = LVL_G0 -> CPS_USE_DEVICE_TABLE
    [] IsPort(v) /\ v < NumPorts -> v
    [] IsMcMsk(v) /\ v < 1024 /\ GetMcMsk(v) < DevMasks -> CPS_MC_BASE + GetMcMsk(v)
    [] OTHER -> CPS_BAD

CpsCpsToStd(c) ==
  CASE c = CPS_USE_DEFAULT_ROUTE -> DFLT_PORT
    [] c = CPS_NO_ROUTE -> DROP
    [] c = CPS_USE_DEVICE_TABLE -> LVL_G0
    [] c < NumPorts -> c
    [] c \in CPS_MC_BASE..(CPS_MC_BASE + DevMasks - 1) -> McMsk(c - CPS_MC_BASE)
    [] OTHER -> CPS_BAD

-----------------------------------------------------------------------------
(* cps_read_mc_masks: the masks the device lacks are given back, the *)
(* others are read from port p and are unused so far.                *)
CpsReadMcMasks(d, p) ==
  LET lacking == [i \in 1..(MaxMasks - DevMasks) |-> DevMasks + i - 1]
      freed == ForEach(d, lacking,
                 LAMBDA a, m : [a EXCEPT !.rt = DeallocMcMask(@, McMsk(m))])
  IN  ForEach(freed, Count(DevMasks), LAMBDA a, m :
        Then(RegRead(a), LAMBDA b :
          [b EXCEPT !.rt.mc[m] = [NoMask(FALSE) EXCEPT !.mask = b.hw.mc[p][m] \cap Ports]]))

(* cps_read_rte_entries: the default route, the domain table except its *)
(* entry 0, which always selects the device table, then the device      *)
(* table.  first is the first domain that selects the device table.     *)
CpsReadDom(d, p) ==
  ForEach([d EXCEPT !.rt.dom[0] = [val |-> LVL_G0, chg |-> FALSE]],
    Tail(Count(GrpSz)), LAMBDA a, i :
      Then(RegRead([a EXCEPT !.rt.dom[i].chg = FALSE]), LAMBDA b :
        LET v == CpsCpsToStd(b.hw.dom[p][i])
        IN  IF v = CPS_BAD THEN Fail(b, "INVALID")
            ELSE [b EXCEPT !.rt.dom[i].val =
                    IF v \in {LVL_G0, DFLT_PORT, DROP} \cup Ports THEN v ELSE DROP]))

CpsReadDev(d, p) ==
  LET doms == {i \in Idx \ {0} : CpsCpsToStd(d.hw.dom[p][i]) = LVL_G0}
      first == IF doms = {} THEN 0 ELSE CHOOSE i \in doms : \A j \in doms : i <= j
  IN  ForEach(d, Count(GrpSz), LAMBDA a, i :
        Then(RegRead([a EXCEPT !.rt.dev[i].chg = FALSE]), LAMBDA b :
          LET v == CpsCpsToStd(b.hw.dev[p][i])
              m == GetMcMsk(v)
              c == IF IsMcMsk(v) /\ ~b.rt.mc[m].in_use
                   THEN [b EXCEPT !.rt.mc[m].tt = "dev16", !.rt.mc[m].in_use = TRUE,
                                  !.rt.mc[m].did = first * 256 + i]
                   ELSE b
          IN  IF v = CPS_BAD THEN Fail(b, "INVALID")
              ELSE [c EXCEPT !.rt.dev[i].val =
                      IF v \in {DFLT_PORT, DROP} \cup Ports \/ IsMcMsk(v)
                      THEN v ELSE DROP]))

CpsReadRteEntries(d, p) ==
  Then(Then(RegRead(d), LAMBDA a :
         CpsReadDom([a EXCEPT !.rt.dflt = IF a.hw.dflt \in Ports THEN a.hw.dflt ELSE DROP], p)),
       LAMBDA b : CpsReadDev(b, p))

-----------------------------------------------------------------------------
(* cps_program_mc_mask. *)
CpsProgramMcMask(d, p, all) ==
  ForEach(d, Count(DevMasks), LAMBDA a, m :
    IF ~(a.rt.mc[m].chg \/ all) THEN a
    ELSE IF ~(a.rt.mc[m].mask \subseteq Ports) THEN Fail(a, "INVALID")
    ELSE Then(RegWrite(a, [a.hw EXCEPT !.mc = [q \in Ports |->
                 IF q \in On(p) THEN [@[q] EXCEPT ![m] = a.rt.mc[m].mask] ELSE @[q]]]),
              LAMBDA b : [b EXCEPT !.rt.mc[m].chg = FALSE]))

(* An entry of the domain or of the device table is checked, translated *)
(* and written, and is then no longer changed.                          *)
CpsProgramDom(d, p, all) ==
  ForEach(d, Count(GrpSz), LAMBDA a, i :
    LET e == a.rt.dom[i]
    IN  IF ~(e.chg \/ all) THEN a
        ELSE IF e.val \notin {LVL_G0, DFLT_PORT, DROP} \cup Ports THEN Fail(a, "INVALID")
        ELSE Then(RegWrite(a, [a.hw EXCEPT !.dom = [q \in Ports |->
                    IF q \in On(p) THEN [@[q] EXCEPT ![i] = CpsStdToCps(e.val)] ELSE @[q]]]),
                  LAMBDA b : [b EXCEPT !.rt.dom[i].chg = FALSE]))

CpsProgramDevEarly(d, p, all) ==
  ForEach(d, Count(GrpSz), LAMBDA a, i :
    LET e == a.rt.dev[i]
    IN  IF ~(e.chg \/ all) THEN a
        ELSE RegWrite([a EXCEPT !.rt.dev[i].chg = FALSE], [a.hw EXCEPT !.dev = [q \in Ports |->
               IF q \in On(p) THEN [@[q] EXCEPT ![i] = CpsStdToCps(e.val)] ELSE @[q]]]))
CpsProgramDev(d, p, all) ==
  ForEach(d, Count(GrpSz), LAMBDA a, i :
    LET e == a.rt.dev[i]
    IN  IF ~(e.chg \/ all) THEN a
        ELSE IF \/ CpsStdToCps(e.val) = CPS_BAD
                \/ ~IsMcMsk(e.val) /\ e.val \notin {DFLT_PORT, DROP} \cup Ports
        THEN Fail(a, "INVALID")
        ELSE Then(RegWrite(a, [a.hw EXCEPT !.dev = [q \in Ports |->
                    IF q \in On(p) THEN [@[q] EXCEPT ![i] = CpsStdToCps(e.val)] ELSE @[q]]]),
                  LAMBDA b : [b EXCEPT !.rt.dev[i].chg = FALSE]))

(* cps_program_rte_entries: the default route, RIO_DOMAIN, the tables. *)
CpsProgramRteEntries(d, p, all) ==
  LET c == CpsStdToCps(d.rt.dflt)
  IN  IF c = CPS_BAD THEN Fail(d, "INVALID")
      ELSE Then(Then(Then(RegWrite(d, [d.hw EXCEPT !.dflt = c]),
                          LAMBDA a : RegWrite(a, a.hw)),
                     LAMBDA b : CpsProgramDom(b, p, all)),
                LAMBDA e : CpsProgramDev(e, p, all))

CpsSetCommon(d, p, all) ==
  IF ~PortOk(p) \/ d.rt.dflt \notin Ports \cup {DROP} THEN Fail(d, "INVALID")
  ELSE Then(CpsProgramMcMask(d, p, all), LAMBDA a : CpsProgramRteEntries(a, p, all))

CpsSetAll(d, p) == CpsSetCommon(d, p, TRUE)
CpsSetChanged(d, p) == CpsSetCommon(d, p, FALSE)

-----------------------------------------------------------------------------
(* CPS_rio_rt_initialize: with hw the bit for multicast to oneself is *)
(* cleared on every port and the whole table is written.              *)
CpsInitialize(d, p, dflt, val, hw) ==
  LET filled == [d EXCEPT !.rt = Filled(dflt, val, DevMasks)]
      ports == IF p = ALL THEN Count(NumPorts) ELSE <<p>>
      ops == ForEach(filled, ports, LAMBDA a, q :
               Then(RegRead(a), LAMBDA b : RegWrite(b, [b.hw EXCEPT !.self = @ \ {q}])))
  IN  IF \/ dflt \notin Ports \cup {DROP}
         \/ val \notin Ports \cup {DFLT_PORT, DROP}
         \/ ~PortOk(p)
      THEN Fail(d, "INVALID")
      ELSE IF hw THEN Then(ops, LAMBDA a : CpsSetChanged(a, p)) ELSE filled

CpsProbeAll(d, p) ==
  LET q == IF p = ALL THEN 0 ELSE p
  IN  IF ~PortOk(p) THEN Fail(d, "INVALID")
      ELSE Then(CpsReadMcMasks(d, q), LAMBDA a : CpsReadRteEntries(a, q))

(* CPS_rio_rt_probe; the registers for the time to live, the trace and *)
(* the filters only set flags of the answer.                           *)
CpsCheckPortForDiscard(st, dflt) == PortDiscards(st, dflt)

CpsProbe(t, st, p, tt, did) ==
  LET mc == CheckMulticast(t, p, tt, did)
  IN  IF ~PortOk(p) THEN NoRoute
      ELSE IF mc.value # ALL THEN mc
      ELSE ProbeUnicast(t, st, tt, did, CpsCheckPortForDiscard)

-----------------------------------------------------------------------------
CpsChangeRte(d, dom, i, v) ==
  IF v \notin Ports \cup {LVL_G0, DFLT_PORT, DROP} \/ (v = LVL_G0 /\ ~dom)
  THEN Fail(d, "INVALID")
  ELSE IF dom /\ i = 0 THEN d
  ELSE IF dom THEN [d EXCEPT !.rt.dom[i] = Changed(@, v)]
  ELSE [d EXCEPT !.rt.dev[i] = Changed(@, v)]

(* cps_tidy_routing_table: the mask of device entry i is given back if *)
(* no other device entry selects it.                                   *)
CpsTidy(t, i) ==
  LET v == t.dev[i].val
  IN  IF IsMcMsk(v) /\ \A j \in Idx \ {i} : t.dev[j].val # v
      THEN DeallocMcMask(t, v) ELSE t

(* CPS_rio_rt_change_mc_mask; info is the mask wanted, CPS_MAX_PORTS is *)
(* the number of ports of the largest CPS.                              *)
CPS_MAX_PORTS == NumPorts + 1

CpsMaskUser(t, v, info) ==
  LET dom == DomIdx(info.did)
      dev == DevIdx(info.did)
      t1 == IF info.tt = "dev16" /\ dom # 0 /\ t.dom[dom].val # LVL_G0
            THEN [t EXCEPT !.dom[dom] = [val |-> LVL_G0, chg |-> TRUE]] ELSE t
  IN  IF t1.dev[dev].val = v THEN t1
      ELSE [CpsTidy(t1, dev) EXCEPT !.dev[dev] = [val |-> v, chg |-> TRUE]]

CpsChangeMcMask(d, v, info) ==
  LET m == GetMcMsk(v) % 256            \* uint8_t chg_idx
      chg == \/ d.rt.mc[m].chg
             \/ d.rt.mc[m].mask # info.mask \/ d.rt.mc[m].in_use # info.in_use
      t == CpsMaskUser([d.rt EXCEPT !.mc[m].chg = chg], v, info)
  IN  IF \/ info.did > LastDev16
         \/ info.did > LastDev8 /\ info.tt = "dev8"
         \/ \E q \in info.mask : q >= CPS_MAX_PORTS
      THEN Fail(d, "INVALID")
      ELSE IF ~info.in_use
      THEN IF GetMcMsk(v) >= MaxMasks THEN Fail(d, "INVALID")
           ELSE [d EXCEPT !.rt = DeallocMcMask(@, v)]
      ELSE IF m >= DevMasks THEN Fail(d, "INVALID")
      ELSE [d EXCEPT !.rt = [t EXCEPT !.mc[m].in_use = TRUE, !.mc[m].did = info.did,
                                      !.mc[m].tt = info.tt,
                                      !.mc[m].mask = info.mask \cap Ports]]
=============================================================================
