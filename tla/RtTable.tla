------------------------------ MODULE RtTable ------------------------------
(***************************************************************************)
(* Routing table state of a switch (rio_rt_state_t) and what the drivers   *)
(* of all switch families share: the encoding of routes, the multicast     *)
(* masks of a table, and the checks of rio_rt_probe.                       *)
(*                                                                         *)
(* A table t has the default route t.dflt, the device and domain tables    *)
(* t.dev and t.dom of entries [val, chg], and the masks t.mc; a mask is a  *)
(* set of ports.  chg is the flag "changed": the entry has to be written   *)
(* to the device.                                                          *)
(***************************************************************************)
EXTENDS Dar

CONSTANTS NumPorts,     \* NUM_PORTS of the device
          GrpSz,        \* RIO_RT_GRP_SZ, entries of a table
          MaxMasks,     \* RIO_MAX_MC_MASKS, masks of a table
          DevMasks      \* masks of a CPS or Tsi57x device

ASSUME RtConstants ==
  /\ NumPorts \in 1..254 /\ GrpSz \in 1..256
  /\ MaxMasks \in 1..256 /\ DevMasks \in 1..MaxMasks

Ports == 0..(NumPorts - 1)
Idx == 0..(GrpSz - 1)
Masks == 0..(MaxMasks - 1)
ALL == 255                              \* RIO_ALL_PORTS

(* The ports that a call on port p is about. *)
On(p) == IF p = ALL THEN Ports ELSE {p}
PortOk(p) == p = ALL \/ p < NumPorts

-----------------------------------------------------------------------------
(* Encoding of routes (rio_standard.h). *)
McMsk(m) == 256 + m
LVL_G0 == 512
DROP == 768
DFLT_PORT == 769
RtvType(v) == (v \div 256) % 4
IsPort(v) == RtvType(v) = 0
IsMcMsk(v) == RtvType(v) = 1
IsLvlGrp(v) == RtvType(v) = 2
GetMcMsk(v) == IF IsMcMsk(v) THEN v % 256 ELSE 268435455   \* else RIO_RTE_BAD

DevIdx(did) == did % 256
DomIdx(did) == did \div 256
LastDev8 == 255
LastDev16 == 65535

NoMask(chg) == [did |-> 0, tt |-> "dev8", mask |-> {}, in_use |-> FALSE,
                allocd |-> FALSE, chg |-> chg]

(* The table that the initialisation of every family sets up; it marks *)
(* the masks below n as changed.                                       *)
Filled(dflt, val, n) ==
  [dflt |-> dflt,
   dev |-> [i \in Idx |-> [val |-> val, chg |-> TRUE]],
   dom |-> [i \in Idx |-> [val |-> IF i = 0 THEN LVL_G0 ELSE val, chg |-> TRUE]],
   mc |-> [m \in Masks |-> NoMask(m < n)]]

(* The entry e with the value v: changed if the value is another one. *)
Changed(e, v) == [val |-> v, chg |-> e.chg \/ e.val # v]

-----------------------------------------------------------------------------
(* DSF_rio_rt_default_alloc_mc_mask: the first mask of n that is neither *)
(* in use nor allocated; the result is the mask, MaxMasks if there is    *)
(* none.                                                                 *)
FreeMasks(t, n) == {m \in 0..(n - 1) : ~t.mc[m].in_use /\ ~t.mc[m].allocd}
AllocMcMask(t, n) ==
  IF FreeMasks(t, n) = {} THEN MaxMasks
  ELSE CHOOSE m \in FreeMasks(t, n) : \A k \in FreeMasks(t, n) : m <= k

(* DSF_rio_rt_dealloc_mc_mask: the entries that select the mask, and the *)
(* device entry of its destination ID, drop their packets.               *)
DeallocMcMaskDevOnly(t, v) ==
  LET m == GetMcMsk(v)
  IN  IF m >= MaxMasks THEN t
      ELSE [t EXCEPT
             !.dev = [i \in Idx |-> IF @[i].val = v THEN [val |-> DROP, chg |-> TRUE] ELSE @[i]],
             !.mc[m] = IF @.in_use \/ @.allocd THEN NoMask(@.in_use) ELSE @]
DeallocMcMask(t, v) ==
  LET m == GetMcMsk(v)
      used == t.mc[m].in_use
      Drops(e, also) == IF e.val = v \/ also THEN [val |-> DROP, chg |-> TRUE] ELSE e
  IN  IF m >= MaxMasks THEN t
      ELSE [t EXCEPT
             !.dev = [i \in Idx |-> Drops(@[i], used /\ i = DevIdx(t.mc[m].did))],
             !.dom = [i \in Idx |-> Drops(@[i], FALSE)],
             !.mc[m] = IF used \/ @.allocd THEN NoMask(used) ELSE @]

-----------------------------------------------------------------------------
(* What rio_rt_probe returns: the route found, whether packets take it,  *)
(* the ports of the mask, and the reason for a discard.                  *)
NoRoute == [value |-> ALL, valid |-> FALSE, ports |-> {}, why |-> "abort"]

(* rio_rt_check_multicast_routing: the masks for the destination ID, of *)
(* which the first one is taken.                                        *)
MasksFor(t, tt, did) ==
  {m \in 0..(DevMasks - 1) :
     /\ t.mc[m].tt = tt /\ t.mc[m].in_use
     /\ IF tt = "dev8" THEN t.mc[m].did % 256 = did % 256 ELSE t.mc[m].did = did}

CheckMulticast(t, p, tt, did) ==
  LET hits == MasksFor(t, tt, did)
      m == CHOOSE k \in hits : \A j \in hits : k <= j
      mask == t.mc[m].mask
      why == IF mask = {} THEN "mc_empty"
             ELSE IF mask = {p} THEN "mc_one_bit" ELSE "not"
  IN  IF hits = {} THEN NoRoute
      ELSE IF hits = {m}
      THEN [value |-> McMsk(m), valid |-> why = "not", ports |-> mask \cap Ports,
            why |-> why]
      ELSE [value |-> McMsk(m), valid |-> FALSE, ports |-> mask \cap Ports,
            why |-> "mc_mult_masks"]

Lookup(t, tt, did) ==
  IF tt = "dev8" \/ t.dom[DomIdx(did)].val = LVL_G0
  THEN t.dev[DevIdx(did)].val ELSE t.dom[DomIdx(did)].val

CheckUnicast(t, tt, did) ==
  LET rte == Lookup(t, tt, did)
      dflt == rte = DFLT_PORT
      phys == IF dflt THEN t.dflt ELSE rte
      why == IF phys = DROP THEN IF dflt THEN "dflt_deliberately" ELSE "deliberately"
             ELSE IF phys >= NumPorts THEN IF dflt THEN "dflt_invalid" ELSE "invalid"
             ELSE "not"
  IN  [value |-> rte, valid |-> why = "not", ports |-> {}, why |-> why]

(* The reason for which a port discards packets; st is what              *)
(* rio_pc_get_config and rio_pc_get_status report of the port.           *)
PortDiscards(st, dflt) ==
  LET D(why) == IF dflt THEN "dflt_" \o why ELSE why
  IN  CASE ~st.avail -> D("unavail")
        [] st.avail /\ ~st.powered -> D("pwdn")
        [] st.avail /\ st.powered /\ ~st.ok -> IF st.xmit_dis THEN D("lkout_or_dis") ELSE D("no_lp")
        [] st.avail /\ st.powered /\ st.ok /\ st.error -> D("fail")
        [] st.avail /\ st.powered /\ st.ok /\ ~st.error ->
             IF st.lockout THEN D("lkout_or_dis")
             ELSE IF ~st.enabled THEN D("in_out_dis") ELSE "not"

(* The unicast route of a probe, checked at the port it leads to. *)
ProbeUnicast(t, st, tt, did, Discards(_, _)) ==
  LET u == CheckUnicast(t, tt, did)
      dflt == u.value = DFLT_PORT
      port == IF dflt THEN t.dflt ELSE u.value
      why == Discards(st[port], dflt)
  IN  IF ~u.valid THEN u ELSE [u EXCEPT !.why = why, !.valid = why = "not"]
=============================================================================
