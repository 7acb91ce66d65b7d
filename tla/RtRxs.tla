------------------------------- MODULE RtRxs -------------------------------
(***************************************************************************)
(* Routing tables of the RXS switches (librio/src/RXS_RT.c).               *)
(*                                                                         *)
(* The device takes routes as they are encoded in the table, and has as    *)
(* many masks as the table.  hw.dflt, hw.dev[q], hw.dom[q] and hw.mc[q]    *)
(* are the registers of port q; a write on all ports goes to the broadcast *)
(* registers.  A mask is changed by setting bits and by clearing bits.     *)
(***************************************************************************)
EXTENDS RtTable

(* rxs_chk_and_corr_rtv: a value that cannot be used where it stands is *)
(* corrected to DROP and changed.                                       *)
RxsBadRtv(v, dom, dflt) ==
  \/ v >= 1024
  \/ IsPort(v) /\ v % 256 >= NumPorts
  \/ IsLvlGrp(v) /\ (~dom \/ dflt \/ v # LVL_G0)
  \/ v = DFLT_PORT /\ dflt
  \/ RtvType(v) = 3 /\ v \notin {DROP, DFLT_PORT}

RxsChkAndCorr(v, dom, dflt) ==
  IF RxsBadRtv(v, dom, dflt) THEN [val |-> DROP, chg |-> TRUE]
  ELSE [val |-> v, chg |-> FALSE]

RxsChkDfltRte(v) == RxsBadRtv(v, FALSE, TRUE)
RxsChkDomRte(v) == RxsBadRtv(v, TRUE, FALSE)
RxsChkDevRte(v) == RxsBadRtv(v, FALSE, FALSE)

-----------------------------------------------------------------------------
(* rxs_program_mc_masks: on all ports bits are set, then all others are *)
(* cleared; on one port only the bits that differ are touched.          *)
RxsMask(hw, p, m, set, clear) ==
  [hw EXCEPT !.mc = [q \in Ports |->
     IF q \in On(p) THEN [@[q] EXCEPT ![m] = (@ \cup set) \ clear] ELSE @[q]]]

RxsWriteMask(d, p, m) ==
  LET mask == d.rt.mc[m].mask
      cur == IF p = ALL THEN {} ELSE d.hw.mc[p][m]
      set == mask \ cur
      clear == (IF p = ALL THEN Ports ELSE cur) \ mask
      got == IF p = ALL THEN d ELSE RegRead(d)
      written == Then(got, LAMBDA a :
        IF set = {} THEN a ELSE RegWrite(a, RxsMask(a.hw, p, m, set, {})))
      cleared == Then(written, LAMBDA a :
        IF clear = {} THEN a ELSE RegWrite(a, RxsMask(a.hw, p, m, {}, clear)))
  IN  Then(cleared, LAMBDA a : [a EXCEPT !.rt.mc[m].chg = FALSE])

RxsProgramMcMasks(d, p, all) ==
  ForEach(d, Count(MaxMasks), LAMBDA a, m :
    IF ~(a.rt.mc[m].chg \/ all) THEN a
    ELSE IF ~(a.rt.mc[m].mask \subseteq Ports) THEN Fail(a, "INVALID")
    ELSE RxsWriteMask(a, p, m))

(* rxs_program_rte_entries: the default route and the two tables. *)
RxsProgramDom(d, p, all) ==
  ForEach(d, Count(GrpSz), LAMBDA a, i :
    IF ~(a.rt.dom[i].chg \/ all) THEN a
    ELSE Then(RegWrite(a, [a.hw EXCEPT !.dom = [q \in Ports |->
                IF q \in On(p) THEN [@[q] EXCEPT ![i] = a.rt.dom[i].val] ELSE @[q]]]),
              LAMBDA b : [b EXCEPT !.rt.dom[i].chg = FALSE]))

RxsProgramDev(d, p, all) ==
  ForEach(d, Count(GrpSz), LAMBDA a, i :
    IF ~(a.rt.dev[i].chg \/ all) THEN a
    ELSE IF IsLvlGrp(a.rt.dev[i].val) THEN Fail(a, "INVALID")
    ELSE Then(RegWrite(a, [a.hw EXCEPT !.dev = [q \in Ports |->
                IF q \in On(p) THEN [@[q] EXCEPT ![i] = a.rt.dev[i].val] ELSE @[q]]]),
              LAMBDA b : [b EXCEPT !.rt.dev[i].chg = FALSE]))

RxsProgramRteEntries(d, p, all) ==
  Then(Then(RegWrite(d, [d.hw EXCEPT !.dflt = d.rt.dflt]),
            LAMBDA a : RxsProgramDom(a, p, all)),
       LAMBDA b : RxsProgramDev(b, p, all))

RxsSetCommon(d, p, all) ==
  IF ~PortOk(p) \/ RxsChkDfltRte(d.rt.dflt) THEN Fail(d, "INVALID")
  ELSE Then(RxsProgramMcMasks(d, p, all), LAMBDA a : RxsProgramRteEntries(a, p, all))

RxsSetAll(d, p) == RxsSetCommon(d, p, TRUE)
RxsSetChanged(d, p) == RxsSetCommon(d, p, FALSE)

RxsInitialize(d, p, dflt, val, hw) ==
  LET filled == [d EXCEPT !.rt = Filled(dflt, val, MaxMasks)]
  IN  IF RxsChkDfltRte(dflt) \/ RxsChkDevRte(val) \/ ~PortOk(p) THEN Fail(d, "INVALID")
      ELSE IF hw THEN RxsSetChanged(filled, p) ELSE filled

-----------------------------------------------------------------------------
(* rxs_rio_rt_probe: the tables tell whether the route is a mask; every *)
(* port of a mask is checked, and a port that discards leaves the mask. *)
RxsCheckMulticast(t, p, rte) ==
  LET mc == t.mc[GetMcMsk(rte)]
      others == (mc.mask \cap Ports) \ {p}
      R(valid, ports, why) == [value |-> rte, valid |-> valid, ports |-> ports, why |-> why]
  IN  IF ~mc.in_use \/ mc.mask \cap Ports = {} THEN R(FALSE, {}, "mc_empty")
      ELSE IF others = {} THEN R(FALSE, {}, "mc_one_bit")
      ELSE R(TRUE, others, "not")

RxsCheckRouting(t, p, tt, did) ==
  LET dom == t.dom[DomIdx(did)].val
      viaDev == tt = "dev8" \/ dom = LVL_G0
      rte == IF viaDev THEN t.dev[DevIdx(did)].val ELSE dom
      dflt == rte = DFLT_PORT
      phys == IF dflt THEN t.dflt ELSE rte
      R(valid, why) == [value |-> rte, valid |-> valid, ports |-> {}, why |-> why]
  IN  CASE \/ tt = "dev16" /\ RxsChkDomRte(dom)
           \/ viaDev /\ RxsChkDevRte(rte) -> [NoRoute EXCEPT !.why = "invalid"]
        [] rte = DROP -> R(FALSE, "deliberately")
        [] dflt /\ RxsChkDfltRte(t.dflt) -> R(FALSE, "dflt_invalid")
        [] dflt /\ t.dflt = DROP -> R(FALSE, "dflt_deliberately")
        [] IsMcMsk(phys) -> [RxsCheckMulticast(t, p, phys) EXCEPT !.value = rte]
        [] OTHER -> R(TRUE, "not")

(* st.imp stands for loopback, a fatal buffer error or a maximum denial. *)
RxsCheckPortForDiscard(st, dflt) ==
  IF PortDiscards(st, dflt) = "not" /\ st.imp THEN "imp_spec" ELSE PortDiscards(st, dflt)

(* The reason is never reset between the ports of a mask, so a port that *)
(* follows one that discards is taken to discard, too.                   *)
RxsLive(st, ports) ==
  {q \in ports : \A k \in ports : k <= q => RxsCheckPortForDiscard(st[k], FALSE) = "not"}

RxsCheckForDiscard(t, st, r) ==
  LET dflt == r.value = DFLT_PORT
      phys == IF dflt THEN t.dflt ELSE r.value
      why == RxsCheckPortForDiscard(st[phys], dflt)
      live == RxsLive(st, r.ports)
      down == {q \in r.ports : RxsCheckPortForDiscard(st[q], FALSE) # "not"}
      last == CHOOSE q \in down : \A k \in down : k <= q
  IN  IF IsPort(phys) THEN [r EXCEPT !.valid = why = "not", !.why = why]
      ELSE [r EXCEPT !.ports = live, !.valid = live # {},
                     !.why = IF down = {} THEN "not"
                             ELSE RxsCheckPortForDiscard(st[last], FALSE)]

RxsProbe(t, st, p, tt, did) ==
  LET r == RxsCheckRouting(t, p, tt, did)
  IN  IF ~PortOk(p) \/ (tt = "dev8" /\ did > LastDev8) THEN NoRoute
      ELSE IF r.valid THEN RxsCheckForDiscard(t, st, r) ELSE r

-----------------------------------------------------------------------------
(* rxs_rio_rt_probe_all: the table is filled with DROP, then the default *)
(* route and the entries of port q are read; an entry that selects a     *)
(* mask makes the mask used and reads it.                                *)
RxsReadDefaultRoute(d) ==
  Then(RegRead(d), LAMBDA a :
    [a EXCEPT !.rt.dflt = RxsChkAndCorr(a.hw.dflt, FALSE, TRUE).val])

RxsUpdateMcMsk(d, q, v, i) ==
  LET m == GetMcMsk(v)
      used == [d EXCEPT !.rt.mc[m] =
                 [@ EXCEPT !.in_use = TRUE, !.allocd = TRUE, !.chg = FALSE,
                           !.tt = "dev8", !.did = i]]
  IN  IF d.rt.mc[m].in_use THEN d
      ELSE Then(RegRead(used), LAMBDA a : [a EXCEPT !.rt.mc[m].mask = a.hw.mc[q][m]])

RxsReadRteEntries(d, q) ==
  LET Entry(a, i, e, b) == IF IsMcMsk(e.val) THEN RxsUpdateMcMsk(b, q, e.val, i) ELSE b
      Dev(a, i) == Then(RegRead([a EXCEPT !.rt.dev[i].chg = FALSE]), LAMBDA b :
                     LET e == RxsChkAndCorr(b.hw.dev[q][i], FALSE, FALSE)
                     IN  Entry(a, i, e, [b EXCEPT !.rt.dev[i] = e]))
      Dom(a, i) == Then(RegRead([a EXCEPT !.rt.dom[i].chg = FALSE]), LAMBDA b :
                     LET e == RxsChkAndCorr(b.hw.dom[q][i], TRUE, FALSE)
                     IN  Entry(a, i, e, [b EXCEPT !.rt.dom[i] = e]))
  IN  Then(ForEach(d, Count(GrpSz), Dev), LAMBDA a : ForEach(a, Count(GrpSz), Dom))

RxsProbeAll(d, p) ==
  LET q == IF p = ALL THEN 0 ELSE p
  IN  IF ~PortOk(p) THEN Fail(d, "INVALID")
      ELSE Then(Then(RxsInitialize(d, q, DROP, DROP, FALSE), RxsReadDefaultRoute),
                LAMBDA a : RxsReadRteEntries(a, q))

-----------------------------------------------------------------------------
(* rxs_tidy_routing_table: the mask of an entry is given back if no other *)
(* entry of either table selects it.                                      *)
RxsTidy(t, dom, i) ==
  LET v == IF dom THEN t.dom[i].val ELSE t.dev[i].val
  IN  IF /\ IsMcMsk(v)
         /\ \A j \in Idx : (dom \/ j # i) => t.dev[j].val # v
         /\ \A j \in Idx : (~dom \/ j # i) => t.dom[j].val # v
      THEN DeallocMcMask(t, v) ELSE t

RxsChangeRte(d, dom, i, v) ==
  LET old == IF dom THEN d.rt.dom[i].val ELSE d.rt.dev[i].val
      t == RxsTidy(d.rt, dom, i)
      e == [val |-> v, chg |-> TRUE]
  IN  IF dom /\ i = 0 THEN IF v = old THEN d ELSE Fail(d, "INVALID")
      ELSE IF \/ RxsBadRtv(v, dom, FALSE)
              \/ IsMcMsk(v) /\ ~d.rt.mc[GetMcMsk(v)].in_use
      THEN Fail(d, "INVALID")
      ELSE IF v = old THEN d
      ELSE IF dom THEN [d EXCEPT !.rt = [t EXCEPT !.dom[i] = e]]
      ELSE [d EXCEPT !.rt = [t EXCEPT !.dev[i] = e]]

(* rxs_rio_rt_change_mc_mask: a mask in use and allocated keeps its   *)
(* destination ID.                                                    *)
RxsMaskUser(t, v, info) ==
  LET To(e) == IF e.val = v THEN e ELSE [val |-> v, chg |-> TRUE]
  IN  IF info.tt = "dev16" /\ ~IsLvlGrp(t.dom[DomIdx(info.did)].val)
      THEN [t EXCEPT !.dom[DomIdx(info.did)] = To(@)]
      ELSE [t EXCEPT !.dev[DevIdx(info.did)] = To(@)]

RxsChangeMcMask(d, v, info) ==
  LET m == GetMcMsk(v)
      masked == IF d.rt.mc[m].mask = info.mask THEN d.rt
                ELSE [d.rt EXCEPT !.mc[m].mask = info.mask, !.mc[m].chg = TRUE]
      t == RxsMaskUser(masked, v, info)
  IN  IF \/ info.did > LastDev16
         \/ info.did > LastDev8 /\ info.tt = "dev8"
         \/ ~(info.mask \subseteq Ports)
         \/ m >= MaxMasks
      THEN Fail(d, "INVALID")
      ELSE IF ~info.in_use THEN [d EXCEPT !.rt = DeallocMcMask(@, v)]
      ELSE IF t.mc[m].in_use /\ t.mc[m].allocd THEN [d EXCEPT !.rt = t]
      ELSE [d EXCEPT !.rt = [t EXCEPT
              !.mc[m] = [did |-> info.did, tt |-> info.tt, mask |-> info.mask,
                         in_use |-> TRUE, allocd |-> TRUE, chg |-> TRUE]]]
=============================================================================
