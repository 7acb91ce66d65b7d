----------------------------- MODULE RtTsi57x ------------------------------
(***************************************************************************)
(* Routing tables of the Tsi57x switches (librio/src/Tsi57x_RT.c).         *)
(*                                                                         *)
(* Port q has a table hw.loc[q] for the destination IDs whose upper byte   *)
(* is hw.base[q], and a table hw.glob[q] for the upper byte of the others. *)
(* An entry is selected by a write of the destination ID and then read or  *)
(* written.  The device has one set of masks: hw.id[m] associates a mask   *)
(* with a destination ID, hw.msk[m] are its ports.  hw.flat are the ports  *)
(* in the mode without tables of two levels.                               *)
(***************************************************************************)
EXTENDS RtTable

HW_DFLT_RT == 255
HW_INVERTED == 256      \* HW_DFLT_RT, written with inverted parity: drops

(* The ports of a call, in the order of the driver's loops. *)
TsiPorts(p) == IF p = ALL THEN Count(NumPorts) ELSE <<p>>

(* An entry of the device's tables: destination ID dom * 256 + low. *)
TsiLut(hw, q, dom, low) == IF dom = hw.base[q] THEN hw.loc[q][low] ELSE hw.glob[q][dom]
TsiSetLut(hw, q, dom, low, v) ==
  IF dom = hw.base[q] THEN [hw EXCEPT !.loc[q][low] = v] ELSE [hw EXCEPT !.glob[q][dom] = v]

-----------------------------------------------------------------------------
(* tsi57x_read_mc_masks. *)
TsiReadMcMasks(d) ==
  LET lacking == [i \in 1..(MaxMasks - DevMasks) |-> DevMasks + i - 1]
      freed == ForEach(d, lacking,
                 LAMBDA a, m : [a EXCEPT !.rt = DeallocMcMask(@, McMsk(m))])
  IN  ForEach(freed, Count(DevMasks), LAMBDA a, m :
        Then(Then(RegRead(a), LAMBDA b :
               [b EXCEPT !.rt.mc[m] = [@ EXCEPT
                  !.allocd = FALSE, !.chg = FALSE, !.tt = b.hw.id[m].tt,
                  !.in_use = b.hw.id[m].en,
                  !.did = IF b.hw.id[m].tt = "dev16" THEN b.hw.id[m].did
                          ELSE b.hw.id[m].did % 256]]),
             LAMBDA c : Then(RegRead(c), LAMBDA e :
               [e EXCEPT !.rt.mc[m].mask = e.hw.msk[m]])))

(* program_mc_masks: masks that the device lacks must not be touched; a *)
(* mask is no longer changed before its two registers are written.      *)
TsiProgramMcMasks(d, all) ==
  LET Write(a, m) ==
        LET mc == a.rt.mc[m]
            b == [a EXCEPT !.rt.mc[m].chg = FALSE]
        IN  Then(RegWrite(b, [b.hw EXCEPT !.id[m] =
                                [did |-> mc.did, tt |-> mc.tt, en |-> mc.in_use]]),
                 LAMBDA c : RegWrite(c, [c.hw EXCEPT !.msk[m] = mc.mask]))
  IN  IF \E m \in DevMasks..(MaxMasks - 1) :
           d.rt.mc[m].in_use \/ d.rt.mc[m].chg \/ d.rt.mc[m].allocd
      THEN Fail(d, "INVALID")
      ELSE ForEach(d, Count(DevMasks), LAMBDA a, m :
             IF ~(a.rt.mc[m].mask \subseteq Ports) THEN Fail(a, "INVALID")
             ELSE IF all \/ a.rt.mc[m].chg THEN Write(a, m) ELSE a)

-----------------------------------------------------------------------------
(* tsi57x_read_rte_entries: an entry that drops packets reads as one that *)
(* takes the default route.                                               *)
TsiRead(d, q, dom, low) ==
  LET v == TsiLut(d.hw, q, dom, low)
  IN  IF v >= HW_DFLT_RT THEN DFLT_PORT ELSE v

TsiReadRteEntries(d, q) ==
  LET Dflt(a) == [a EXCEPT !.rt.dflt = IF a.hw.dflt = HW_DFLT_RT THEN DROP ELSE a.hw.dflt]
      Select(a) == RegWrite(a, a.hw)
      Dom(a, i) == Then(Then([a EXCEPT !.rt.dom[i].chg = FALSE], Select), LAMBDA b :
                     Then(RegRead(b), LAMBDA c :
                       [c EXCEPT !.rt.dom[i].val = TsiRead(c, q, i, 0)]))
      Base(a) == [a EXCEPT !.rt.dom[a.hw.base[q]].val = LVL_G0]
      Dev(a, i) == Then(Then([a EXCEPT !.rt.dev[i].chg = FALSE], Select), LAMBDA b :
                     Then(RegRead(b), LAMBDA c :
                       [c EXCEPT !.rt.dev[i].val = TsiRead(c, q, c.hw.base[q], i)]))
      doms == Then(Then(Then(RegRead(d), Dflt), RegRead),
                   LAMBDA a : ForEach(a, Count(GrpSz), Dom))
  IN  Then(Then(doms, Base), LAMBDA a : ForEach(a, Count(GrpSz), Dev))

(* program_rte_entries: the default route, the base on every port, the  *)
(* domain entries but the one that selects the device table, and the    *)
(* device entries at the base.                                          *)
TsiStdToHw(v) ==
  IF v = DFLT_PORT THEN HW_DFLT_RT ELSE IF v = DROP THEN HW_INVERTED ELSE v

TsiWriteEntry(d, p, dom, low, v) ==
  ForEach(d, TsiPorts(p), LAMBDA a, q :
    Then(RegWrite(a, a.hw), LAMBDA b :
      RegWrite(b, TsiSetLut(b.hw, q, dom, low, TsiStdToHw(v)))))

TsiProgramDom(d, p, all) ==
  ForEach(d, Count(GrpSz), LAMBDA a, i :
    LET v == a.rt.dom[i].val
        Done(b) == [b EXCEPT !.rt.dom[i].chg = FALSE]
    IN  IF ~(all \/ a.rt.dom[i].chg) THEN a
        ELSE IF v = LVL_G0 THEN Done(a)
        ELSE IF v \notin Ports \cup {DFLT_PORT, DROP} THEN Fail(a, "INVALID")
        ELSE Then(TsiWriteEntry(a, p, i, 0, v), Done))

TsiProgramDev(d, p, base, all) ==
  ForEach(d, Count(GrpSz), LAMBDA a, i :
    LET v == a.rt.dev[i].val
        Done(b) == [b EXCEPT !.rt.dev[i].chg = FALSE]
    IN  IF ~(all \/ a.rt.dev[i].chg) THEN a
        ELSE IF v \notin Ports \cup {DFLT_PORT, DROP} THEN Fail(a, "INVALID")
        ELSE Then(TsiWriteEntry(a, p, base, i, v), Done))

TsiProgramRteEntries(d, p, all) ==
  LET bases == {i \in Idx : d.rt.dom[i].val = LVL_G0}
      base == IF bases = {} THEN 0 ELSE CHOOSE i \in bases : TRUE
      dflt == RegWrite(d, [d.hw EXCEPT !.dflt =
                IF d.rt.dflt = DROP THEN HW_DFLT_RT ELSE d.rt.dflt])
      based == Then(dflt, LAMBDA a :
        IF \E i, j \in bases : i # j THEN Fail(a, "INVALID")
        ELSE ForEach(a, TsiPorts(p), LAMBDA b, q :
               RegWrite(b, [b.hw EXCEPT !.base[q] = base])))
  IN  Then(Then(based, LAMBDA a : TsiProgramDom(a, p, all)),
           LAMBDA a : TsiProgramDev(a, p, base, all))

-----------------------------------------------------------------------------
TsiSet(d, p, all) ==
  IF ~PortOk(p) \/ d.rt.dflt \notin Ports \cup {DROP} THEN Fail(d, "INVALID")
  ELSE Then(TsiProgramMcMasks(d, all), LAMBDA a : TsiProgramRteEntries(a, p, all))

TsiSetAll(d, p) == TsiSet(d, p, TRUE)
TsiSetChanged(d, p) == TsiSet(d, p, FALSE)

(* tsi57x_rio_rt_initialize: the default route of the table is set, with *)
(* hw the ports get tables of two levels, then the table is filled.  The *)
(* masks are only changed if all ports are initialised.                  *)
TsiInitialize(d, p, dflt, val, hw) ==
  LET set == [d EXCEPT !.rt.dflt = dflt]
      mode == ForEach(set, TsiPorts(p), LAMBDA a, q :
                Then(RegRead(a), LAMBDA b : RegWrite(b, [b.hw EXCEPT !.flat = @ \ {q}])))
      Fill(a) == [a EXCEPT !.rt = Filled(dflt, val, IF p = ALL THEN DevMasks ELSE 0)]
  IN  IF \/ dflt \notin Ports \cup {DFLT_PORT, DROP}
         \/ val \notin Ports \cup {DROP}
         \/ ~PortOk(p)
      THEN Fail(d, "INVALID")
      ELSE IF hw THEN Then(Then(mode, Fill), LAMBDA a : TsiSetChanged(a, p)) ELSE Fill(d)

TsiProbeAll(d, p) ==
  IF ~PortOk(p) THEN Fail(d, "INVALID")
  ELSE Then(TsiReadMcMasks(d), LAMBDA a : TsiReadRteEntries(a, IF p = ALL THEN 0 ELSE p))

TsiCheckPortForDiscard(st, dflt) == PortDiscards(st, dflt)

TsiProbe(t, st, p, tt, did) ==
  LET mc == CheckMulticast(t, p, tt, did)
  IN  IF ~PortOk(p) THEN NoRoute
      ELSE IF mc.value # ALL THEN mc
      ELSE ProbeUnicast(t, st, tt, did, TsiCheckPortForDiscard)

-----------------------------------------------------------------------------
(* tsi57x_rio_rt_change_rte: one domain entry selects the device table; *)
(* the one that did so before drops its packets.                        *)
TsiChangeRte(d, dom, i, v) ==
  LET t == [d.rt EXCEPT !.dom[i] = Changed(@, v)]
  IN  IF v \notin Ports \cup {LVL_G0, DFLT_PORT, DROP} \/ (v = LVL_G0 /\ ~dom)
      THEN Fail(d, "INVALID")
      ELSE IF ~dom THEN [d EXCEPT !.rt.dev[i] = Changed(@, v)]
      ELSE IF v # LVL_G0 THEN [d EXCEPT !.rt = t]
      ELSE [d EXCEPT !.rt = [t EXCEPT !.dom = [j \in Idx |->
              IF j # i /\ @[j].val = LVL_G0 THEN [val |-> DROP, chg |-> TRUE] ELSE @[j]]]]

(* tsi57x_rio_rt_change_mc_mask; TSI578_MAX_PORTS are the ports of the *)
(* largest Tsi57x.  The destination ID must not be that of another     *)
(* mask, used or not.                                                  *)
TSI578_MAX_PORTS == NumPorts + 1

TsiChangeMcMask(d, v, info) ==
  LET m == GetMcMsk(v)
      mc == d.rt.mc[m]
      new == [did |-> info.did, tt |-> info.tt, mask |-> info.mask,
              in_use |-> info.in_use, allocd |-> mc.allocd, chg |-> mc.chg]
  IN  IF \/ info.did > LastDev16
         \/ info.did > LastDev8 /\ info.tt = "dev8"
         \/ \E q \in info.mask : q >= TSI578_MAX_PORTS
      THEN Fail(d, "INVALID")
      ELSE IF \E k \in 0..(DevMasks - 1) \ {m % 256} :
                d.rt.mc[k].did = info.did /\ d.rt.mc[k].tt = info.tt
      THEN Fail(d, "ROUTE_ERROR")
      ELSE IF m >= DevMasks THEN d
      ELSE [d EXCEPT !.rt.mc[m] = [new EXCEPT !.chg = mc.chg \/ new # mc]]
=============================================================================
