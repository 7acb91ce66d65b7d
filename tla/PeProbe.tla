------------------------------ MODULE PeProbe ------------------------------
(***************************************************************************)
(* Handles of processing elements and the calls of libriocp_pe that create *)
(* and use them (riocp_pe.c, handle.c, pe.c), with the initialisation that *)
(* libpe_mpdrv gives a new device.                                         *)
(*                                                                         *)
(* A handle is a record: hop and addr (the ports taken on the way), did    *)
(* (did_reg_val), ct, acc (the port of the device that leads to the host), *)
(* peers by port, and g and chg (the driver's copy of the routing table    *)
(* and the entries of it that are still to be written).  dev is the device *)
(* the handle was created for; the code does not know it.                  *)
(***************************************************************************)
EXTENDS PeAccess

CONSTANT NPorts                         \* ports by device

IsSwitch(d, id) == d.pes[id].dev \in Switches
NoPeer == [pe |-> NULL, port |-> 0]

(* A mutant: only the master port is searched. *)
FindComptagMport(d, ct, used) == IF ct \in used \ {UNSET} /\ d.pes[MP].ct = ct THEN MP ELSE NULL

(* riocp_pe_find_comptag: the handle with component tag ct, NULL if there *)
(* is none or the tag is not in use.                                      *)
FindComptag(d, ct, used) ==
  LET S == {i \in DOMAIN d.list : d.pes[d.list[i]].ct = ct}
  IN  CASE ct = UNSET \/ ct \notin used -> NULL
        [] d.pes[MP].ct = ct -> MP
        [] S # {} -> d.list[CHOOSE i \in S : \A j \in S : i <= j]
        [] OTHER -> NULL

(* riocp_pe_add_peer *)
AddPeer(d, id, peer, port, peerPort) ==
  IF port >= NPorts[d.pes[id].dev] \/ peerPort >= NPorts[d.pes[peer].dev] THEN Fail(d, "EINVAL")
  ELSE [d EXCEPT !.pes = [[@ EXCEPT ![id].peers[port] = [pe |-> peer, port |-> peerPort]]
                             EXCEPT ![peer].peers[peerPort] = [pe |-> id, port |-> port]]]

(* riocp_pe_handle_destroy of a handle that is not the master port: its    *)
(* memory is free, whatever still refers to it.                            *)
Destroy(d, id) == [d EXCEPT !.pes = [i \in DOMAIN @ \ {id} |-> @[i]],
                            !.list = SelectSeq(@, LAMBDA i : i # id)]

(* riocp_pe_handle_destroy of the master port: the loop over its handles   *)
(* stops before the last one.                                              *)
DestroyMport(d) == [d EXCEPT !.pes = [i \in {d.list[k] : k \in DOMAIN d.list \cap {Len(d.list)}} |-> @[i]],
                             !.list = <<>>, !.target = NULL]

(* riocp_pe_set_destid, before the capabilities are read: any device is    *)
(* taken for an endpoint.                                                  *)
SetDestid(d, id, did) == MaintAcc(d, id, LAMBDA hw, dev : [hw EXCEPT !.did[dev] = did])

(* riocp_pe_update_comptag with wr_did *)
UpdateComptag(d, id) ==
  LET h == d.pes[id]
  IN  Then(Then(CtWrite(d, id, h.ct), LAMBDA a : MaintRead(a, id)), LAMBDA a :
        IF CtAt(a, id) # h.ct THEN Fail([a EXCEPT !.pes[id].ct = CtAt(a, id)], "EBADF")
        ELSE [SetDestid(a, id, h.ct) EXCEPT !.pes[id].did = h.ct])

(* mpdrv_init_rt: a configured switch gets its configured table; another   *)
(* one, when devices are added automatically, a table with the route to    *)
(* the host only.  probe_all_rt then reads the table back.                 *)
ProbeAllRt(d, at) == Acc(d, at)
NewTable(h, cfg, rt) ==
  IF h.ct \in DOMAIN cfg.rt THEN cfg.rt[h.ct]
  ELSE IF cfg.auto THEN [x \in Dids |-> IF x = HOST THEN h.acc ELSE DROP] ELSE rt
InitRt(d, id, cfg) ==
  LET at == Own(d, id)
      t == NewTable(d.pes[id], cfg, d.hw.rt[at[1]])
  IN  IF at[1] \notin Switches THEN d
      ELSE Then(Acc(d, at), LAMBDA a :
             ProbeAllRt([a EXCEPT !.hw.rt[at[1]] = t, !.pes[id].g = t, !.pes[id].chg = {}], at))

(* generic_device_init: the ports are enabled and the enumeration boundary *)
(* and the addressing mode set; then the ports are configured, closed for  *)
(* everything but maintenance.  A mutant leaves them open.                 *)
PreparePorts(d, id) ==
  OwnAcc(d, id, LAMBDA hw, dev : [hw EXCEPT !.on = IF dev \in Endpoints THEN @ \ {dev} ELSE @ \cup {dev}])
ConfigurePortsOpen(d, id) == OwnRead(d, id)
ConfigurePorts(d, id) == OwnAcc(d, id, LAMBDA hw, dev : [hw EXCEPT !.on = @ \ {dev}])

(* generic_device_init: counters, reset handling, event reporting. *)
StartReporting(d, id) == OwnRead(d, id)

(* mpsw_mport_dev_add: the kernel learns of an endpoint. *)
DevAdd(d, id) == IF id = MP \/ IsSwitch(d, id) THEN d ELSE OwnRead(d, id)

(* mpsw_drv_init_pe: select the driver, generic_device_init,               *)
(* mpsw_mport_dev_add.                                                     *)
DrvInitPe(d, id, cfg) ==
  LET tag(a) == UpdateComptag(a, id)
      ports(a) == Then(PreparePorts(a, id), LAMBDA b : ConfigurePorts(b, id))
      table(a) == Then(InitRt(a, id, cfg), LAMBDA b : StartReporting(b, id))
  IN  Then(Then(Then(Then(OwnRead(d, id), tag), ports), table), LAMBDA a : DevAdd(a, id))

(* mpsw_enable_pe: the ports are opened, then the device is the master of  *)
(* its transactions.                                                       *)
EnablePe(d, id) ==
  Then(Then(OwnRead(d, id), LAMBDA a : OwnAcc(a, id, LAMBDA hw, dev : [hw EXCEPT !.on = @ \cup {dev}])),
       LAMBDA a : MaintAcc(a, id, LAMBDA hw, dev : [hw EXCEPT !.disc = @ \cup {dev}]))

(* riocp_pe_handle_create_pe *)
NewHandle(d, pe, hop, did, port, ct) ==
  LET at == Reach(d.hw, did, hop)
  IN  [hop |-> hop, did |-> did, ct |-> ct, acc |-> at[2], dev |-> at[1],
       addr |-> IF hop = 0 THEN <<>> ELSE Append(d.pes[pe].addr, port),
       peers |-> IF at = NOWHERE THEN <<>> ELSE [p \in 0..(NPorts[at[1]] - 1) |-> NoPeer],
       g |-> <<>>, chg |-> {}]

(* riocp_pe_read_capabilities, riocp_pe_read_features: what they read of a *)
(* device does not change.                                                 *)
ReadCapabilities(d, id) == MaintRead(d, id)
ReadFeatures(d, id) == MaintRead(d, id)

CreatePe(d, pe, id, hop, did, port, ct, cfg) ==
  LET a == [d EXCEPT !.pes = (id :> NewHandle(d, pe, hop, did, port, ct)) @@ @,
                     !.list = Append(@, id)]
      read(x) == Then(Then(ReadCapabilities(x, id), LAMBDA y : ReadFeatures(y, id)),
                      LAMBDA y : MaintRead(y, id))
      peer(x) == AddPeer([x EXCEPT !.pes[id].ct = CtAt(x, id)], pe, id, port, x.pes[id].acc)
  IN  OnError(Then(Then(DrvInitPe(a, id, cfg), read), peer), LAMBDA x : Fail(Destroy(x, id), "EIO"))

(* mpsw_drv_get_port_state, riocp_pe_is_port_active: a port is active if a *)
(* cable leads to it.                                                      *)
PortState(d, pe) == OwnRead(d, pe)
PortActive(d, pe, port) == <<d.pes[pe].dev, port>> \in DOMAIN d.hw.link

(* riocp_pe_probe_prepare *)
ProbePrepare(d, pe, port) ==
  IF ~IsSwitch(d, pe) THEN d
  ELSE Then(Then(SetAnyIdRoute(d, pe), LAMBDA a : PortState(a, pe)), LAMBDA a :
         IF ~PortActive(a, pe, port) THEN Fail(a, "ENODEV")
         ELSE SetRouteEntry(a, pe, ANY, port))


(* riocp_pe_probe_verify_found: w = 1 if the device behind port of pe is   *)
(* the one of peer, by a redundant path, w = 0 if it is another one.       *)
VerifyFound(d, pe, port, peer) ==
  LET alt(a) == Raw(a, pe, ANY, IF pe = MP THEN 0 ELSE a.pes[pe].hop + 1)
      cleared(a) == Then(Acc(a, alt(a)), LAMBDA b : [b EXCEPT !.hw.ct[alt(b)[1]] = 0])
      prepare(a, w) == Then(ProbePrepare(a, pe, port), LAMBDA b : [b EXCEPT !.w = w])
  IN  Then(Then(cleared(d), LAMBDA a : Acc(a, alt(a))), LAMBDA a :
        LET ctAlt == a.hw.ct[alt(a)[1]]
        IN  Then(MaintRead(a, peer), LAMBDA b :
              IF CtAt(b, peer) # ctAlt THEN prepare(b, 0)
              ELSE Then(CtWrite(b, peer, b.pes[peer].ct), LAMBDA c : prepare(c, 1))))

(* riocp_pe_probe, up to the question which handle the device has: the tag *)
(* is read, with one retry, and overwritten if it is configured.  w is the *)
(* handle found, or NULL.                                                  *)
Retried(d, at) == OnError(Acc(d, at), LAMBDA a :
                    IF at = NOWHERE THEN a ELSE Acc([a EXCEPT !.rc = "SUCCESS"], at))
ProbeTag(d, pe, hop, ct, force, used) ==
  LET at == Reach(d.hw, ANY, hop)
      found(a, t) == [a EXCEPT !.w = FindComptag(a, t, used)]
  IN  Then(Retried(d, at), LAMBDA a :
        IF ~force \/ a.hw.ct[at[1]] = ct THEN found(a, a.hw.ct[at[1]])
        ELSE Then(Acc(a, at), LAMBDA b : found([b EXCEPT !.hw.ct[at[1]] = ct], ct)))

(* The device has no handle: id is the address of its new one. *)
ProbeNew(d, pe, port, hop, ct, id, cfg) ==
  Then(Then(SetRoute(d, pe, ct, port), LAMBDA a : LockClear(a, MP, ANY, hop)),
       LAMBDA a : Try(CreatePe(a, pe, id, hop, ct, port, ct, cfg),
                      LAMBDA b : [b EXCEPT !.w = id], LAMBDA b : [b EXCEPT !.rc = "CREATE"]))

(* The device of handle p, by a redundant path. *)
ProbeKnown(d, pe, port, hop, p) ==
  IF ~IsSwitch(d, p) THEN [d EXCEPT !.w = p]
  ELSE LET at == Reach(d.hw, ANY, hop)
       IN  Then(Acc(d, at), LAMBDA a : [AddPeer(a, pe, p, port, at[2]) EXCEPT !.w = p])

(* The error exit of riocp_pe_probe. *)
ProbeFailed(d, pe, unset) ==
  LET clean(a) == IF unset THEN [UnsetAnyIdRoute(a, pe) EXCEPT !.rc = "SUCCESS"] ELSE a
      unlock(a) == LockClear(a, MP, a.pes[pe].did, a.pes[pe].hop)
  IN  [unlock(clean([d EXCEPT !.rc = "SUCCESS"])) EXCEPT !.rc = "EIO", !.w = NULL]

(* The peer is the device of handle p if w is 1, else a new one. *)
ProbeAttach(d, pe, port, hop, ct, id, p, cfg) ==
  Try(IF d.w = 1 THEN ProbeKnown(d, pe, port, hop, p) ELSE ProbeNew(d, pe, port, hop, ct, id, cfg),
      LAMBDA a : OnError(UnsetAnyIdRoute(a, a.w), LAMBDA b : ProbeFailed(b, pe, FALSE)),
      LAMBDA a : ProbeFailed(a, pe, a.rc # "CREATE"))

(* The component tag was read: p is the handle that has it. *)
ProbeTagged(d, pe, port, hop, ct, id, p, cfg) ==
  Try(IF p \in {NULL, MP} THEN [d EXCEPT !.w = 0] ELSE VerifyFound(d, pe, port, p),
      LAMBDA a : ProbeAttach(a, pe, port, hop, ct, id, p, cfg),
      LAMBDA a : ProbeFailed(a, pe, TRUE))

(* riocp_pe_probe: the port has no peer yet; w is the handle of the peer. *)
ProbePeer(d, pe, port, ct, force, id, used, cfg) ==
  LET hop == IF pe = MP THEN 0 ELSE d.pes[pe].hop + 1
  IN  Try(ProbePrepare(d, pe, port),
          LAMBDA a : Try(ProbeTag(a, pe, hop, ct, force, used),
                         LAMBDA b : ProbeTagged(b, pe, port, hop, ct, id, b.w, cfg),
                         LAMBDA b : ProbeFailed(b, pe, FALSE)),
          LAMBDA a : [a EXCEPT !.rc = "EIO", !.w = NULL])

(* A mutant: ports with a known peer are probed again. *)
ProbeAgain(d, pe, port, ct, force, id, used, cfg) == ProbePeer(d, pe, port, ct, force, id, used, cfg)
Probe(d, pe, port, ct, force, id, used, cfg) ==
  IF d.pes[pe].peers[port].pe # NULL THEN [d EXCEPT !.w = NULL]
  ELSE ProbePeer(d, pe, port, ct, force, id, used, cfg)

(* riocp_pe_handle_create_mport for a host *)
CreateMport(d) ==
  LET h == [hop |-> 255, addr |-> <<>>, did |-> HOST, ct |-> HOST, acc |-> 0, dev |-> Mport,
            peers |-> [p \in 0..0 |-> NoPeer], g |-> <<>>, chg |-> {}]
  IN  OnError(Then(DrvInitPe([d EXCEPT !.pes = MP :> h], MP, [auto |-> FALSE, rt |-> <<>>]),
                   LAMBDA a : Then(ReadCapabilities(a, MP), LAMBDA b : ReadFeatures(b, MP))),
              LAMBDA a : Fail(DestroyMport(a), "ENOMEM"))

(* riocp_pe_create_mport_handle: riocp_pe_lock_clear, riocp_enable_pe *)
CreateHost(d) ==
  Then(CreateMport(d), LAMBDA a : Then(LockClear(a, MP, ANY, 0), LAMBDA x : EnablePe(x, MP)))

(* riocp_pe_get_comptag *)
GetComptag(d, id) == Then(MaintRead(d, id), LAMBDA a : IF CtAt(a, id) # a.pes[id].ct THEN Fail(a, "EBADF") ELSE a)

(* riocp_pe_verify, riocp_pe_restore *)
Restore(d, id) == CtWrite(d, id, d.pes[id].ct)

(* riocp_pe_lock *)
Lock(d, id, force) ==
  LET own == d.pes[MP].did
      held(a) == a.hw.lock[Own(a, id)[1]]
      take(a) == Then(LockWrite(a, Own(a, id), own), LAMBDA b :
                   Then(Acc(b, Own(b, id)), LAMBDA c : IF held(c) = own THEN c ELSE Fail(c, "EAGAIN")))
  IN  Then(MaintRead(d, id), LAMBDA a :
        CASE held(a) = own -> a
          [] held(a) = FREE -> take(a)
          [] OTHER -> IF force THEN Then(LockWrite(a, Own(a, id), held(a)), take) ELSE Fail(a, "EAGAIN"))

(* riocp_pe_unlock *)
Unlock(d, id) == Then(MaintRead(d, id), LAMBDA a : LockClear(a, MP, a.pes[id].did, a.pes[id].hop))

(* mpsw_drv_get_route_entry, riocp_sw_get_route_entry *)
DrvGetRouteEntry(d, id) == OwnRead(d, id)
GetRouteEntry(d, id) ==
  Try(Lock(d, id, FALSE), LAMBDA a : Then(DrvGetRouteEntry(a, id), LAMBDA b : Unlock(b, id)),
      LAMBDA a : Fail(a, "EAGAIN"))

(* riocp_pe_handle_pe_exists searches the handles of master ports only. *)
PeExists(d, ct) == IF ct # UNSET /\ d.pes[MP].ct = ct THEN MP ELSE NULL

(* riocp_pe_discover: the tag is read through the handle of the master     *)
(* port, hence from the master port itself, so that                        *)
(* riocp_pe_handle_pe_exists finds the master port.                        *)
Discover(d, id, port, used) ==
  LET active == ~IsSwitch(d, id) \/ PortActive(d, id, port)
      found(a) == Then(Acc(a, <<Mport, 0>>), LAMBDA b : [b EXCEPT !.w = PeExists(b, b.hw.ct[Mport])])
      routed(a) == \E x \in used : a.hw.rt[Own(a, id)[1]][x] = port
      search(a) == Try(DrvGetRouteEntry(a, id),
                       LAMBDA b : IF routed(b) THEN Then(Unlock(b, id), found) ELSE Fail(b, "ENODEV"),
                       LAMBDA b : Fail(Unlock([b EXCEPT !.rc = "SUCCESS"], id), "EIO"))
  IN  Then(IF IsSwitch(d, id) THEN MaintRead(d, id) ELSE d, LAMBDA a :
        CASE ~active -> Fail(a, "ENODEV")
          [] active /\ id = MP -> found(a)
          [] active /\ id # MP /\ a.pes[id].peers[port].pe # NULL -> [a EXCEPT !.w = a.pes[id].peers[port].pe]
          [] OTHER -> IF ~IsSwitch(a, id) THEN found(a) ELSE Then(Lock(a, id, FALSE), search))

(* One handle of fmd_enable_all_endpoints: the lock is read and released,  *)
(* whoever holds it; lockval is not initialised, and a failed read leaves  *)
(* it as it is.                                                            *)
EnableEndpoint(d, id, lockval) ==
  LET read(a) == [a EXCEPT !.rc = "SUCCESS", !.w = IF Ok(a) THEN a.hw.lock[Own(a, id)[1]] ELSE lockval]
      release(a) == IF a.w = FREE THEN a
                    ELSE [MaintAcc(a, id, LAMBDA hw, dev : [hw EXCEPT !.lock[dev] = LockWritten(@, a.w)])
                            EXCEPT !.rc = "SUCCESS"]
  IN  EnablePe(release(read(MaintRead(d, id))), id)
=============================================================================
