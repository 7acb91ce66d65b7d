--------------------------------- MODULE Rt ---------------------------------
(***************************************************************************)
(* The routing table interface (librio/src/RapidIO_Routing_Table_API.c) of *)
(* a switch of one of three families, used to manage the table of one port *)
(* or the table of all ports.                                              *)
(*                                                                         *)
(* rt is the table in memory, hw the registers of the device.  Calls       *)
(* change rt, and rio_rt_set_all, rio_rt_set_changed and                   *)
(* rio_rt_initialize write it to the device; any register access may fail. *)
(***************************************************************************)
EXTENDS RtCps, RtRxs, RtTsi57x

CONSTANTS Fams,         \* driver families
          OnPorts,      \* values of set_on_port, of which one is used throughout
          Dflts, Vals,  \* arguments of rio_rt_initialize
          RteValues,    \* values for rio_rt_change_rte
          Infos,        \* masks for rio_rt_change_mc_mask
          Lefts,        \* register accesses that succeed in a call
          MaxOps        \* bound on the number of calls

VARIABLES fam,          \* dev_info->driver_family
          onp,          \* the port whose table is managed
          rt, hw,
          got,          \* how rt was obtained: none, init, probe
          last,         \* the last call and its return code
          ops           \* number of calls

vars == <<fam, onp, rt, hw, got, last, ops>>

-----------------------------------------------------------------------------
(* The device after reset; all packets are dropped. *)
HwReset(f) ==
  LET table(v) == [q \in Ports |-> [i \in Idx |-> v]]
      domains(g, v) == [q \in Ports |-> [i \in Idx |-> IF i = 0 THEN g ELSE v]]
      masks == [q \in Ports |-> [m \in Masks |-> {}]]
  IN  CASE f = "CPS" -> [dflt |-> CPS_NO_ROUTE, dev |-> table(CPS_NO_ROUTE),
                         dom |-> domains(CPS_USE_DEVICE_TABLE, CPS_NO_ROUTE),
                         mc |-> masks, self |-> Ports]
        [] f = "RXS" -> [dflt |-> DROP, dev |-> table(DROP),
                         dom |-> domains(LVL_G0, DROP), mc |-> masks]
        [] f = "TSI57X" -> [dflt |-> HW_DFLT_RT, loc |-> table(HW_DFLT_RT),
                            glob |-> table(HW_DFLT_RT), base |-> [q \in Ports |-> 0],
                            id |-> [m \in Masks |-> [did |-> 0, tt |-> "dev8", en |-> FALSE]],
                            msk |-> [m \in Masks |-> {}], flat |-> Ports]

(* The table in memory that was never filled. *)
NoTable == [dflt |-> 0, dev |-> [i \in Idx |-> [val |-> 0, chg |-> FALSE]],
            dom |-> [i \in Idx |-> [val |-> 0, chg |-> FALSE]],
            mc |-> [m \in Masks |-> NoMask(FALSE)]]

Init == /\ fam \in Fams /\ onp \in OnPorts
        /\ rt = NoTable /\ hw = HwReset(fam)
        /\ got = "none" /\ last = [call |-> "none", rc |-> "SUCCESS"] /\ ops = 0

(* A call that leaves the call state d. *)
Started(left) == [hw |-> hw, rt |-> rt, rc |-> "SUCCESS", left |-> left]
Returns(call, d) ==
  /\ ops < MaxOps /\ ops' = ops + 1
  /\ rt' = d.rt /\ hw' = d.hw /\ last' = [call |-> call, rc |-> d.rc]
  /\ UNCHANGED <<fam, onp>>

Initialize(dflt, val, upd, left) ==
  LET d == Started(left)
      r == CASE fam = "CPS" -> CpsInitialize(d, onp, dflt, val, upd)
             [] fam = "RXS" -> RxsInitialize(d, onp, dflt, val, upd)
             [] fam = "TSI57X" -> TsiInitialize(d, onp, dflt, val, upd)
  IN  /\ Returns("initialize", r)
      /\ got' = IF Ok(r) THEN "init" ELSE got

ProbeAll(left) ==
  LET d == Started(left)
      r == CASE fam = "CPS" -> CpsProbeAll(d, onp)
             [] fam = "RXS" -> RxsProbeAll(d, onp)
             [] fam = "TSI57X" -> TsiProbeAll(d, onp)
  IN  /\ Returns("probe_all", r)
      /\ got' = IF Ok(r) THEN "probe" ELSE "none"

SetAll(left) ==
  LET d == Started(left)
      r == CASE fam = "CPS" -> CpsSetAll(d, onp)
             [] fam = "RXS" -> RxsSetAll(d, onp)
             [] fam = "TSI57X" -> TsiSetAll(d, onp)
  IN  got # "none" /\ Returns("set_all", r) /\ UNCHANGED got

SetChanged(left) ==
  LET d == Started(left)
      r == CASE fam = "CPS" -> CpsSetChanged(d, onp)
             [] fam = "RXS" -> RxsSetChanged(d, onp)
             [] fam = "TSI57X" -> TsiSetChanged(d, onp)
  IN  got # "none" /\ Returns("set_changed", r) /\ UNCHANGED got

ChangeRte(dom, i, v) ==
  LET d == Started(0)
      r == CASE fam = "CPS" -> CpsChangeRte(d, dom, i, v)
             [] fam = "RXS" -> RxsChangeRte(d, dom, i, v)
             [] fam = "TSI57X" -> TsiChangeRte(d, dom, i, v)
  IN  got # "none" /\ Returns("change_rte", r) /\ UNCHANGED got

ChangeMcMask(m, info) ==
  LET d == Started(0)
      r == CASE fam = "CPS" -> CpsChangeMcMask(d, McMsk(m), info)
             [] fam = "RXS" -> RxsChangeMcMask(d, McMsk(m), info)
             [] fam = "TSI57X" -> TsiChangeMcMask(d, McMsk(m), info)
  IN  got # "none" /\ Returns("change_mc_mask", r) /\ UNCHANGED got

NumMasks == IF fam = "RXS" THEN MaxMasks ELSE DevMasks

Alloc ==
  LET m == AllocMcMask(rt, NumMasks)
      d == Started(0)
  IN  /\ got # "none" /\ UNCHANGED got
      /\ Returns("alloc", IF m = MaxMasks THEN Fail(d, "INSUFFICIENT")
                          ELSE [d EXCEPT !.rt.mc[m].allocd = TRUE])

Dealloc(m) ==
  /\ got # "none" /\ UNCHANGED got
  /\ Returns("dealloc", [Started(0) EXCEPT !.rt = DeallocMcMask(@, McMsk(m))])

(* Callers keep the entry of the domain table that selects the device *)
(* table of a Tsi57x, or move it.                                     *)
KeepsBase(dom, i, v) ==
  fam = "TSI57X" /\ dom /\ rt.dom[i].val = LVL_G0 => v = LVL_G0

Next == \/ \E dflt \in Dflts, val \in Vals, upd \in BOOLEAN, left \in Lefts :
             (upd \/ left = 0) /\ Initialize(dflt, val, upd, left)
        \/ \E left \in Lefts : ProbeAll(left) \/ SetAll(left) \/ SetChanged(left)
        \/ \E dom \in BOOLEAN, i \in Idx, v \in RteValues :
             KeepsBase(dom, i, v) /\ ChangeRte(dom, i, v)
        \/ \E m \in Masks, info \in Infos : ChangeMcMask(m, info)
        \/ Alloc
        \/ \E m \in Masks : Dealloc(m)

Spec == Init /\ [][Next]_vars

-----------------------------------------------------------------------------
(* The device, as packets see it. *)

(* The ports that a packet for did leaves the switch through when it *)
(* comes in at q.                                                    *)
CpsRoutes(q, tt, did) ==
  LET dom == hw.dom[q][DomIdx(did)]
      c == IF tt = "dev8" \/ DomIdx(did) = 0 \/ dom = CPS_USE_DEVICE_TABLE
           THEN hw.dev[q][DevIdx(did)] ELSE dom
      v == IF c = CPS_USE_DEFAULT_ROUTE THEN hw.dflt ELSE c
  IN  IF v < NumPorts THEN {v}
      ELSE IF v >= CPS_MC_BASE /\ v < CPS_MC_BASE + DevMasks
      THEN hw.mc[q][v - CPS_MC_BASE] \ ({q} \ hw.self) ELSE {}

RxsRoutes(q, tt, did) ==
  LET dom == hw.dom[q][DomIdx(did)]
      c == IF tt = "dev8" \/ dom = LVL_G0 THEN hw.dev[q][DevIdx(did)] ELSE dom
      v == IF c = DFLT_PORT THEN hw.dflt ELSE c
  IN  IF v < NumPorts THEN {v}
      ELSE IF IsMcMsk(v) THEN hw.mc[q][GetMcMsk(v)] \ {q} ELSE {}

TsiRoutes(q, tt, did) ==
  LET hits == {m \in 0..(DevMasks - 1) :
                 hw.id[m].en /\ hw.id[m].tt = tt /\ hw.id[m].did = did}
      e == IF tt = "dev8" THEN hw.loc[q][DevIdx(did)]
           ELSE TsiLut(hw, q, DomIdx(did), DevIdx(did))
      v == IF e = HW_DFLT_RT THEN hw.dflt ELSE e
  IN  IF hits # {} THEN UNION {hw.msk[m] : m \in hits} \ {q}
      ELSE IF v < NumPorts THEN {v} ELSE {}

HwRoutes(q, tt, did) ==
  CASE fam = "CPS" -> CpsRoutes(q, tt, did)
    [] fam = "RXS" -> RxsRoutes(q, tt, did)
    [] fam = "TSI57X" -> TsiRoutes(q, tt, did)

(* rio_rt_probe, and the ports that it says packets leave through. *)
Probe(st, q, tt, did) ==
  CASE fam = "CPS" -> CpsProbe(rt, st, q, tt, did)
    [] fam = "RXS" -> RxsProbe(rt, st, q, tt, did)
    [] fam = "TSI57X" -> TsiProbe(rt, st, q, tt, did)

ProbedPorts(q, r) ==
  LET v == IF r.value = DFLT_PORT THEN rt.dflt ELSE r.value
  IN  IF ~r.valid THEN {} ELSE IF IsMcMsk(v) THEN r.ports \ {q} ELSE {v}

Up == [avail |-> TRUE, powered |-> TRUE, ok |-> TRUE, xmit_dis |-> FALSE,
       error |-> FALSE, lockout |-> FALSE, enabled |-> TRUE, imp |-> FALSE]
AllUp == [q \in Ports |-> Up]
Packets == {<<"dev8", i>> : i \in Idx} \cup {<<"dev16", 256 * j + i>> : i, j \in Idx}

(* The ports whose registers the table was written to or read from. *)
Seen == IF got = "probe" /\ onp = ALL THEN {0} ELSE On(onp)

-----------------------------------------------------------------------------
(* Properties *)

(* What an entry may hold, in the standard encoding. *)
DevValues == Ports \cup {DROP, DFLT_PORT} \cup {McMsk(m) : m \in Masks}
Entry(values) == [val : values, chg : BOOLEAN]

(* The table holds routes of the standard encoding only, whatever the *)
(* encoding of the device they were read from.                        *)
TypeOK ==
  /\ fam \in Fams /\ onp \in OnPorts /\ ops \in 0..MaxOps
  /\ rt.dflt \in Ports \cup {DROP, DFLT_PORT}
  /\ rt.dev \in [Idx -> Entry(DevValues)]
  /\ rt.dom \in [Idx -> Entry(DevValues \cup {LVL_G0})]
  /\ rt.mc \in [Masks -> [did : 0..LastDev16, tt : {"dev8", "dev16"},
                          mask : SUBSET (0..NumPorts), in_use : BOOLEAN,
                          allocd : BOOLEAN, chg : BOOLEAN]]

(* The entries that are not marked are those of the device of port q. *)
CpsMirrored(q) ==
  /\ \A i \in Idx : rt.dev[i].chg \/ CpsStdToCps(rt.dev[i].val) = hw.dev[q][i]
  /\ \A i \in Idx : rt.dom[i].chg \/ CpsStdToCps(rt.dom[i].val) = hw.dom[q][i]
RxsMirrored(q) ==
  /\ \A i \in Idx : rt.dev[i].chg \/ rt.dev[i].val = hw.dev[q][i]
  /\ \A i \in Idx : rt.dom[i].chg \/ rt.dom[i].val = hw.dom[q][i]
TsiMirrored(q) ==
  LET Same(v, e) == IF v \in {DROP, DFLT_PORT} THEN e >= HW_DFLT_RT ELSE v = e
  IN  /\ \A i \in Idx : rt.dev[i].chg \/ Same(rt.dev[i].val, hw.loc[q][i])
      /\ \A i \in Idx : rt.dom[i].chg \/ (IF rt.dom[i].val = LVL_G0 THEN hw.base[q] = i
                                         ELSE Same(rt.dom[i].val, hw.glob[q][i]))

(* An entry of the table that is not marked as changed is what the device *)
(* of every port it was written to has, whatever register access failed:  *)
(* rio_rt_set_changed writes all that has to be written.  On a Tsi57x,    *)
(* entries that drop packets and that take the default route read alike.  *)
EntriesMirrored ==
  got # "none" => \A q \in Seen :
    CASE fam = "CPS" -> CpsMirrored(q)
      [] fam = "RXS" -> RxsMirrored(q)
      [] fam = "TSI57X" -> TsiMirrored(q)

(* A mask in use that is not marked as changed is what the CPS or RXS     *)
(* device has, and no entry of a table selects a mask that is not in use: *)
(* packets are never multicast with what is left of an earlier mask.      *)
MasksInUse ==
  got # "none" /\ fam # "TSI57X" =>
    /\ \A m \in 0..(NumMasks - 1), q \in Seen :
         rt.mc[m].in_use /\ ~rt.mc[m].chg => rt.mc[m].mask = hw.mc[q][m]
    /\ \A i \in Idx, e \in {rt.dev, rt.dom} :
         IsMcMsk(e[i].val) => rt.mc[GetMcMsk(e[i].val)].in_use

(* The packets whose route the table in memory determines. *)
MaskAgrees(tt, did) ==
  LET hits == MasksFor(rt, tt, did)
      v == Lookup(rt, tt, did)
  IN  IF hits = {} THEN ~IsMcMsk(v) ELSE hits = {GetMcMsk(v)}
Probeable(q, tt, did) ==
  CASE fam = "CPS" -> MaskAgrees(tt, did) /\ q \notin hw.self
    [] fam = "RXS" -> TRUE
    [] fam = "TSI57X" -> last.call = "set_all"


-----------------------------------------------------------------------------
(* What the documentation says and the code does not do. *)

(* RapidIO_Routing_Table_API.h:153 says of changed: "true if the mc_destID *)
(* or mc_mask value has changed."  So a mask that is not marked is the     *)
(* mask of the device.                                                     *)
MasksMirrored ==
  got = "init" /\ onp = ALL =>
    \A m \in 0..(NumMasks - 1) : rt.mc[m].chg \/
      IF fam = "TSI57X" THEN rt.mc[m].mask = hw.msk[m]
      ELSE \A q \in Ports : rt.mc[m].mask = hw.mc[q][m]
=============================================================================
