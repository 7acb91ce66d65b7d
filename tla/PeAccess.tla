------------------------------ MODULE PeAccess ------------------------------
(***************************************************************************)
(* How libriocp_pe reaches the devices of a fabric: the routes a packet    *)
(* takes, the host base device ID locks (lock.c) and the maintenance       *)
(* accesses that program and lock the route of the destination ID ANY      *)
(* (maint.c), over the driver of libpe_mpdrv.                              *)
(*                                                                         *)
(* A call is an operator on a call state d (see Dar): d.hw are the cables  *)
(* and the registers of all devices, d.pes the handles by their address,   *)
(* d.list the list of handles of the master port, d.target is              *)
(* any_id_target.  d.left = k makes the access number k + 1 of the call    *)
(* fail, and no other.  Consecutive accesses that leave the modelled       *)
(* registers alone are one access.                                         *)
(***************************************************************************)
EXTENDS Dar, TLC

CONSTANTS Switches, Endpoints,          \* the devices behind the master port
          Tags                          \* component tags, with their destination IDs

Mport == "mport"                        \* the device of the master port
Devices == Switches \cup Endpoints \cup {Mport}
MP == 0                                 \* the handle of the master port
NULL == -1
HOST == 1                               \* component tag and destination ID of this host
OtherHost == 77                         \* destination ID of another host
FREE == 65535                           \* RIO_HOST_LOCK_UNLOCKED
UNSET == 0                              \* COMPTAG_UNSET
ANY == 255                              \* ANY_DID_VAL
DROP == 99                              \* RIO_RTE_DROP
Dids == Tags \cup {ANY}
NOWHERE == <<"nowhere", 0>>
OneFailed == 900                        \* d.left above this: an access has failed

(* Where a packet for did goes from the port it arrived at: a switch sends *)
(* it on by its routing table, an endpoint takes it.                       *)
Hop(hw, did, at) ==
  IF at[1] \notin Switches THEN at
  ELSE LET out == <<at[1], hw.rt[at[1]][did]>>
       IN  IF out \in DOMAIN hw.link THEN hw.link[out] ELSE NOWHERE

Walk(hw, did, from, n) ==
  LET w[k \in 0..n] == IF k = 0 THEN from ELSE Hop(hw, did, w[k - 1]) IN w[n]

(* A maintenance request reaches the device that is hop switches away; the *)
(* response leaves by the port of arrival and is routed to this host.      *)
Reach(hw, did, hop) ==
  LET first == <<Mport, 0>>
      at == IF first \in DOMAIN hw.link THEN Walk(hw, did, hw.link[first], hop) ELSE NOWHERE
  IN  IF /\ at \in DOMAIN hw.link
         /\ Walk(hw, HOST, hw.link[at], Cardinality(Switches) + 1)[1] = Mport
      THEN at ELSE NOWHERE

Acc(d, at) == CASE at = NOWHERE -> Fail(d, "EIO")
                [] d.left = 0 -> [d EXCEPT !.rc = "EIO", !.left = 2 * OneFailed]
                [] OTHER -> [d EXCEPT !.left = @ - 1]

(* mpsw_drv_raw_reg_rd, mpsw_drv_raw_reg_wr: a master port handle accesses *)
(* the local registers, whatever the destination ID.                       *)
Raw(d, id, did, hop) == IF id = MP THEN <<Mport, 0>> ELSE Reach(d.hw, did, hop)

(* SRIO_API_ReadRegFunc, SRIO_API_WriteRegFunc *)
Own(d, id) == Raw(d, id, d.pes[id].did, d.pes[id].hop)

(* RIO_HOST_LOCK: a free lock takes any ID, the ID of its owner frees it. *)
LockWritten(lock, id) == CASE lock = FREE -> id
                           [] lock = id -> FREE
                           [] OTHER -> lock
LockRead(d, at) == Acc(d, at)
LockWrite(d, at, id) == Then(Acc(d, at), LAMBDA a : [a EXCEPT !.hw.lock[at[1]] = LockWritten(@, id)])

(* riocp_pe_lock_set is called with the master port. *)
LockSet(d) ==
  LET at == <<Mport, 0>>
      mine(a) == a.hw.lock[Mport] = a.pes[MP].did
  IN  Then(LockRead(d, at), LAMBDA a : IF mine(a) THEN a
        ELSE Then(LockWrite(a, at, a.pes[MP].did),
                  LAMBDA b : IF mine(b) THEN LockRead(b, at) ELSE Fail(LockRead(b, at), "EAGAIN")))

(* riocp_pe_lock_clear *)
LockClear(d, id, did, hop) ==
  LET at == Raw(d, id, did, hop)
  IN  Then(LockRead(d, at), LAMBDA a :
        IF a.hw.lock[at[1]] = FREE THEN a
        ELSE Then(LockWrite(a, at, a.hw.lock[at[1]]), LAMBDA b : LockRead(b, at)))

(* A mutant: the default route is changed, for every destination ID but    *)
(* the one of the host.                                                    *)
SetRouteEntryDefault(d, id, did, port) ==
  Then(Acc(d, Own(d, id)), LAMBDA a :
    LET t == [x \in Dids |-> IF x = HOST THEN a.pes[id].g[x] ELSE port]
    IN  [a EXCEPT !.pes[id].g = t, !.hw.rt[Own(a, id)[1]] = t])

(* rio_rt_set_changed: all entries changed since they were last written. *)
WriteChanged(d, id) ==
  IF d.pes[id].chg = {} THEN d
  ELSE Then(Acc(d, Own(d, id)), LAMBDA a :
         LET h == a.pes[id]
             to == Own(a, id)[1]
         IN  [a EXCEPT !.pes[id].chg = {},
                       !.hw.rt = [s \in Switches |-> [x \in Dids |->
                                    IF s = to /\ x \in h.chg THEN h.g[x] ELSE @[s][x]]]])

(* mpsw_drv_set_route_entry: rio_rt_change_rte on the copy of the table,   *)
(* then rio_rt_set_changed.                                                *)
SetRouteEntry(d, id, did, port) ==
  WriteChanged([d EXCEPT !.pes[id].g[did] = port,
                         !.pes[id].chg = IF d.pes[id].g[did] = port THEN @ ELSE @ \cup {did}], id)

(* The handles of the switches on the way to id, as the loops of maint.c *)
(* find them.                                                            *)
Path(d, id) ==
  LET h == d.pes[id]
      p[i \in 1..h.hop] == IF i = 1 THEN d.pes[MP].peers[0].pe
                                    ELSE d.pes[p[i - 1]].peers[h.addr[i - 1]].pe
  IN  p

(* riocp_pe_maint_set_anyid_route, one hop: the result of programming a *)
(* route counts at the last hop only.                                   *)
AnyIdHop(d, id, i) ==
  Then([LockSet(d) EXCEPT !.w = i], LAMBDA a :
    [SetRouteEntry(a, Path(a, id)[i + 1], ANY, a.pes[id].addr[i + 1])
       EXCEPT !.rc = IF i + 1 < a.pes[id].hop THEN "SUCCESS" ELSE @, !.w = NULL])

ClearLocks(d, id, hops) == ForEach(d, hops, LAMBDA a, i : LockClear(a, Path(a, id)[i + 1], ANY, i))
Down(n) == [i \in 1..n |-> n - i]       \* n - 1, ..., 0

AnyIdRouted(d, id) ==
  IF Ok(d) \/ d.w = NULL THEN [d EXCEPT !.target = id]
  ELSE [ClearLocks([d EXCEPT !.rc = "SUCCESS"], id, Down(d.w + 1)) EXCEPT !.target = NULL, !.rc = "EIO"]
SetAnyIdRoute(d, id) ==
  IF d.target = id THEN d
  ELSE AnyIdRouted(ForEach(d, Count(d.pes[id].hop), LAMBDA a, i : AnyIdHop(a, id, i)), id)

(* riocp_pe_maint_unset_anyid_route *)
UnsetAnyIdRoute(d, id) ==
  IF id = MP \/ d.target = NULL THEN d
  ELSE [ClearLocks(d, id, Down(d.pes[id].hop)) EXCEPT !.target = NULL]

(* riocp_pe_maint_set_route: did is routed along the way to id and by id *)
(* to port.                                                              *)
SetRoute(d, id, did, port) ==
  IF id = MP THEN d
  ELSE Then(ForEach(d, Count(d.pes[id].hop), LAMBDA a, i :
                      SetRouteEntry(a, Path(a, id)[i + 1], did, a.pes[id].addr[i + 1])),
            LAMBDA a : SetRouteEntry(a, id, did, port))

(* An access of id to its device dev that does W to the registers. *)
OwnAcc(d, id, W(_, _)) == Then(Acc(d, Own(d, id)), LAMBDA a : [a EXCEPT !.hw = W(@, Own(a, id)[1])])
OwnRead(d, id) == Acc(d, Own(d, id))

(* riocp_pe_maint_read and riocp_pe_maint_write: W is what the access does *)
(* to the registers when it reaches device dev.                            *)
MaintAcc(d, id, W(_, _)) ==
  IF id = MP THEN OwnAcc(d, id, W)
  ELSE Then(Then(SetAnyIdRoute(d, id), LAMBDA a : OwnAcc(a, id, W)), LAMBDA a : UnsetAnyIdRoute(a, id))

MaintRead(d, id) == MaintAcc(d, id, LAMBDA hw, dev : hw)
CtWrite(d, id, ct) == MaintAcc(d, id, LAMBDA hw, dev : [hw EXCEPT !.ct[dev] = ct])

(* The component tag that id reads. *)
CtAt(d, id) == d.hw.ct[Own(d, id)[1]]
=============================================================================
