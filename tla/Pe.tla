--------------------------------- MODULE Pe ---------------------------------
(***************************************************************************)
(* The fabric management daemon enumerates a fabric: setup_mport_master,   *)
(* fmd_traverse_network and fmd_enable_all_endpoints (fmd.c, fmd_net.c)    *)
(* over libriocp_pe, then calls of libriocp_pe in any order, beside        *)
(* another host that takes and releases device locks.  At most MaxFail     *)
(* register accesses fail.                                                 *)
(***************************************************************************)
EXTENDS PeProbe, SequencesExt

CONSTANTS Fabrics,                      \* cables, tags at power up and configurations
          MaxFail, MaxRival, MaxOps,    \* failed accesses, steps of the other host, calls
          MaxAcc                        \* accesses of one call

VARIABLES hw, lib,                      \* devices, library (pes, list, target)
          fmd,                          \* the enumeration
          used,                         \* component tags in use
          cfg,                          \* the configuration: auto (cfg_auto), conn
                                        \* (<<tag, port>> to tag), rt (tables by tag)
          fails, rival, ops,            \* what has happened so far
          res                           \* what the last call returned

vars == <<hw, lib, fmd, used, cfg, fails, rival, ops, res>>

Idle == [op |-> "none", id |-> NULL, port |-> 0, rc |-> "SUCCESS", peer |-> NULL]
Ids == MP..(Cardinality(Devices) + 1)

Init ==
  /\ \E f \in Fabrics :
       /\ hw = [link |-> f.link, ct |-> f.ct, did |-> [v \in Devices |-> 0],
                lock |-> [v \in Devices |-> FREE], disc |-> {}, on |-> Devices,
                rt |-> [s \in Switches |-> [x \in Dids |-> DROP]]]
       /\ \E a \in BOOLEAN : cfg = [auto |-> a, conn |-> f.conn, rt |-> f.rt]
       /\ used = {HOST} \cup {f.conn[c] : c \in DOMAIN f.conn}
  /\ lib = [pes |-> <<>>, list |-> <<>>, target |-> NULL]
  /\ fmd = [pc |-> "start", cur |-> MP, port |-> 0, sws |-> <<>>, nocfg |-> <<>>, ct |-> UNSET]
  /\ fails = 0 /\ rival = 0 /\ ops = 0 /\ res = Idle

(* The call state of a call of which access number left + 1 fails. *)
All == 800
CallState(left) == [rc |-> "SUCCESS", left |-> left, w |-> NULL, hw |-> hw,
                    pes |-> lib.pes, list |-> lib.list, target |-> lib.target]

(* The call returned as in d. *)
Returned(d, left) ==
  /\ left = All \/ d.left > OneFailed
  /\ fails' = IF left = All THEN fails ELSE fails + 1
  /\ hw' = d.hw
  /\ lib' = [pes |-> d.pes, list |-> d.list, target |-> d.target]

Lefts == IF fails < MaxFail THEN 0..MaxAcc \cup {All} ELSE {All}

(* The address of a new handle: memory never used, or the memory of the *)
(* handle that any_id_target still refers to.                           *)
NewIds == LET free == Ids \ DOMAIN lib.pes
          IN  {CHOOSE i \in free : \A j \in free : i <= j} \cup ({lib.target} \cap free)

(* setup_mport_master *)
Setup ==
  /\ fmd.pc = "start"
  /\ \E left \in Lefts : \E d \in {CreateHost(CallState(left))} :
       /\ Returned(d, left)
       /\ fmd' = [fmd EXCEPT !.pc = IF Ok(d) THEN "cfg" ELSE "failed"]
  /\ UNCHANGED <<used, cfg, rival, ops, res>>

(* The exit label fail, and setup_mport: the master port is destroyed. *)
Abort(d, left, ct) ==
  /\ Returned(DestroyMport(d), left)
  /\ fmd' = [fmd EXCEPT !.pc = "failed", !.nocfg = <<>>, !.sws = <<>>, !.ct = UNSET]
  /\ used' = used \ {ct}

(* fmd_traverse_network_from_pe_port: a port with a configured peer. *)
Listed(d, s, id) == \E i \in DOMAIN s : d.pes[s[i]].ct = d.pes[id].ct
FoundConfigured(d, id, ct, left) ==
  IF ~Ok(d) \/ d.pes[id].ct # ct THEN Abort(d, left, UNSET)
  ELSE /\ Returned(d, left)
       /\ fmd' = [fmd EXCEPT !.port = @ + 1,
                             !.sws = IF IsSwitch(d, id) /\ ~Listed(d, @, id) THEN Append(@, id) ELSE @]
       /\ UNCHANGED used
ProbeConfigured(ct) ==
  \E left \in Lefts, id \in NewIds :
    \E d \in {Probe(CallState(left), fmd.cur, fmd.port, ct, TRUE, id, used, cfg)} :
      IF ~Ok(d) \/ d.w \in {NULL, fmd.cur}
      THEN Returned(d, left) /\ fmd' = [fmd EXCEPT !.port = @ + 1] /\ UNCHANGED used
      ELSE \E g \in {GetComptag(d, d.w)} : FoundConfigured(g, d.w, ct, left)

TraverseCfg ==
  LET pe == lib.pes[fmd.cur]
      c == <<pe.ct, fmd.port>>
  IN  /\ fmd.pc = "cfg"
      /\ fmd.port < NPorts[pe.dev]
      /\ IF c \in DOMAIN cfg.conn THEN ProbeConfigured(cfg.conn[c])
         ELSE /\ fmd' = [fmd EXCEPT !.nocfg = Append(@, <<fmd.cur, fmd.port>>), !.port = @ + 1]
              /\ UNCHANGED <<hw, lib, used, fails>>
      /\ UNCHANGED <<cfg, rival, ops, res>>

(* All ports of a device are done: the next switch found, or the devices *)
(* that are not configured.                                              *)
NextSwitch ==
  /\ fmd.pc = "cfg"
  /\ fmd.port = NPorts[lib.pes[fmd.cur].dev]
  /\ fmd' = IF fmd.sws # <<>> THEN [fmd EXCEPT !.cur = Head(fmd.sws), !.sws = Tail(@), !.port = 0]
            ELSE [fmd EXCEPT !.pc = IF cfg.auto THEN "auto" ELSE "enable"]
  /\ UNCHANGED <<hw, lib, used, cfg, fails, rival, ops, res>>

(* One port of a device that is not configured. *)
FoundAuto(d, id, ct, next, left) ==
  IF ~Ok(d) THEN Abort(d, left, ct)
  ELSE /\ Returned(d, left)
       /\ used' = used \cup {ct}
       /\ fmd' = IF d.pes[id].ct # ct THEN next
                 ELSE [next EXCEPT !.ct = UNSET,
                                   !.nocfg = IF ~IsSwitch(d, id) THEN @
                                             ELSE @ \o [i \in 1..NPorts[d.pes[id].dev] |-> <<id, i - 1>>]]
TraverseAuto ==
  LET ct == IF fmd.ct # UNSET THEN fmd.ct
            ELSE CHOOSE t \in Tags \ used : \A u \in Tags \ used : t <= u
      cur == Head(fmd.nocfg)[1]
      next == [fmd EXCEPT !.nocfg = Tail(@), !.ct = ct]
  IN  /\ fmd.pc = "auto" /\ fmd.nocfg # <<>>
      /\ \E left \in Lefts, id \in NewIds :
           \E d \in {Probe(CallState(left), cur, Head(fmd.nocfg)[2], ct, FALSE, id, used \cup {ct}, cfg)} :
             IF ~Ok(d) \/ d.w \in {NULL, cur}
             THEN Returned(d, left) /\ fmd' = next /\ used' = used \cup {ct}
             ELSE \E g \in {GetComptag(d, d.w)} : FoundAuto(g, d.w, ct, next, left)
      /\ UNCHANGED <<cfg, rival, ops, res>>

TraverseEnd ==
  /\ fmd.pc = "auto" /\ fmd.nocfg = <<>>
  /\ fmd' = [fmd EXCEPT !.pc = "enable", !.ct = UNSET]
  /\ used' = used \ {fmd.ct}
  /\ UNCHANGED <<hw, lib, cfg, fails, rival, ops, res>>

(* fmd_enable_all_endpoints *)
EnableAll ==
  /\ fmd.pc = "enable"
  /\ \E left \in Lefts, lockval \in {FREE, HOST, OtherHost} :
       \E d \in {ForEach(CallState(left), <<MP>> \o lib.list, LAMBDA a, id : EnableEndpoint(a, id, lockval))} :
         Returned(d, left)
  /\ fmd' = [fmd EXCEPT !.pc = "up"]
  /\ UNCHANGED <<used, cfg, rival, ops, res>>

(* Calls of the library. *)
Call(op, id, port, F(_)) ==
  /\ fmd.pc = "up" /\ ops < MaxOps
  /\ \E left \in Lefts : \E d \in {F(CallState(left))} :
       /\ Returned(d, left)
       /\ res' = [op |-> op, id |-> id, port |-> port, rc |-> d.rc, peer |-> d.w]
  /\ ops' = ops + 1
  /\ UNCHANGED <<fmd, used, cfg, rival>>

LockPe == \E id \in DOMAIN lib.pes, f \in BOOLEAN : Call("lock", id, 0, LAMBDA d : Lock(d, id, f))
UnlockPe == \E id \in DOMAIN lib.pes : Call("unlock", id, 0, LAMBDA d : Unlock(d, id))
GetRoute == \E id \in DOMAIN lib.pes : lib.pes[id].dev \in Switches /\ Call("route", id, 0, LAMBDA d : GetRouteEntry(d, id))
Verify == \E id \in DOMAIN lib.pes : Call("verify", id, 0, LAMBDA d : GetComptag(d, id))
RestorePe == \E id \in DOMAIN lib.pes : Call("restore", id, 0, LAMBDA d : Restore(d, id))
DiscoverPe == \E id \in DOMAIN lib.pes : \E port \in 0..(NPorts[lib.pes[id].dev] - 1) :
                Call("discover", id, port, LAMBDA d : Discover(d, id, port, used))

(* Another host takes a free lock and releases its own. *)
Rival ==
  /\ rival < MaxRival
  /\ \E v \in Devices :
       /\ hw.lock[v] \in {FREE, OtherHost}
       /\ hw' = [hw EXCEPT !.lock[v] = LockWritten(@, OtherHost)]
  /\ rival' = rival + 1
  /\ UNCHANGED <<lib, fmd, used, cfg, fails, ops, res>>

Enumerate == Setup \/ TraverseCfg \/ NextSwitch \/ TraverseAuto \/ TraverseEnd \/ EnableAll
Calls == LockPe \/ UnlockPe \/ GetRoute \/ Verify \/ RestorePe \/ DiscoverPe

(* The daemon has stopped, or serves its applications. *)
Done == fmd.pc \in {"up", "failed"} /\ UNCHANGED vars
Next == Enumerate \/ Calls \/ Rival \/ Done

Spec == Init /\ [][Next]_vars
-----------------------------------------------------------------------------
Live == DOMAIN lib.pes
Calm == fails = 0 /\ rival = 0

(* The parts of the state have their types. *)
TypeOK ==
  /\ Live \subseteq Ids
  /\ fmd.pc # "failed" => {lib.list[i] : i \in DOMAIN lib.list} = Live \ {MP}
  /\ lib.target \in Ids \cup {NULL}
  /\ fmd.pc \in {"start", "cfg", "auto", "enable", "up", "failed"}
  /\ hw.ct \in [Devices -> Tags \cup {UNSET}]
  /\ used \subseteq Tags

(* riocp_pe_maint_set_route: the routes programmed for a handle lead to    *)
(* the device it was created for, and back, whatever is found, programmed  *)
(* and initialised after it.                                               *)
HandleReaches ==
  Calm => \A id \in Live : Own(CallState(0), id)[1] = lib.pes[id].dev

(* riocp_pe_probe tells a redundant path to a known device from a device   *)
(* that has kept the tag of an earlier enumeration: handles, devices and   *)
(* component tags correspond one to one.                                   *)
OneHandle ==
  /\ \A i, j \in Live : lib.pes[i].ct = lib.pes[j].ct => i = j
  /\ Calm => /\ \A i, j \in Live : lib.pes[i].dev = lib.pes[j].dev => i = j
             /\ \A id \in Live : hw.ct[lib.pes[id].dev] = lib.pes[id].ct


(* generic_device_init leaves a device closed for everything but           *)
(* maintenance packets, fmd_enable_all_endpoints opens it: no device sends *)
(* before the routes of all of them are set, whatever fails.               *)
QuietUntilUp ==
  /\ fmd.pc \in {"cfg", "auto"} => \A id \in Live \ {MP} : lib.pes[id].dev \notin hw.on
  /\ (Calm /\ fmd.pc = "up") => \A id \in Live : lib.pes[id].dev \in hw.on \cap hw.disc

(* What is left to do for the enumeration. *)
Recorded == {q \in Live \X (0..9) : /\ q[2] \in DOMAIN lib.pes[q[1]].peers
                                    /\ lib.pes[q[1]].peers[q[2]].pe # NULL}
ToDo == CASE fmd.pc \in {"up", "failed"} -> 0
          [] fmd.pc = "start" -> 10000
          [] fmd.pc = "cfg" -> 20 * (100 - Cardinality(Recorded)) + 10 * Len(fmd.sws) + Len(fmd.nocfg)
                                 + 2 * (NPorts[lib.pes[fmd.cur].dev] - fmd.port)
          [] OTHER -> 19 * (100 - Cardinality(Recorded)) + Len(fmd.nocfg) - (IF fmd.pc = "auto" THEN 0 ELSE 1)

(* fmd_traverse_network ends, whatever fails and whoever holds the locks:  *)
(* a switch is put in line again only when a cable was recorded, so every  *)
(* step leaves less to do.                                                 *)
TraversalEnds == [][fmd' # fmd => ToDo' < ToDo]_vars

-----------------------------------------------------------------------------
(* What the documentation says and the code does not do. *)

(* riocp_pe.c:1130: "Unlocking is achieved by writing the destination ID of *)
(* this host into its Host Base Device ID Lock CSR": a device that          *)
(* riocp_pe_unlock unlocked is not locked by this host.                     *)
UnlockReleases == (res.op = "unlock" /\ res.rc = "SUCCESS") => hw.lock[lib.pes[res.id].dev] # HOST

(* riocp_pe.c:385: "Discover peer at given port number of given PE": what   *)
(* riocp_pe_discover returns is the device at the other end of the cable.   *)
DiscoversPeer == (res.op = "discover" /\ res.rc = "SUCCESS") =>
                   hw.link[<<lib.pes[res.id].dev, res.port>>][1] = lib.pes[res.peer].dev
=============================================================================
