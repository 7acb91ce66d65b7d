--------------------------------- MODULE Pc ---------------------------------
(***************************************************************************)
(* The port configuration API (librio/src/RapidIO_Port_Config_API.c): a    *)
(* device of one of the driver families, its links, and a caller.  Every   *)
(* call may fail at any of its register accesses.                          *)
(*                                                                         *)
(* last is the last call: its return code, its parameters, and whether no  *)
(* register access of it failed (clean).                                   *)
(***************************************************************************)
EXTENDS PcCps, PcTsi721, PcTsi57x, PcRxs, PcStd

CONSTANTS Devices,          \* initial devices: records [fam, hw]
          Requests,         \* set_config requests, by family
          Access,           \* [oob, acc]: ways to reach a device, by family
          Resets,           \* [lp, keep, all] of reset_port
          Partners,         \* [clrlp, lp] of clr_errs
          Policies,         \* [accept, part, mtc, rst] of secure_port
          Links,            \* states a link may take
          Lefts, MaxOps     \* accesses before a failure; calls and link events, by family

VARIABLES fam, hw, last, ops
vars == <<fam, hw, last, ops>>

Families == {"CPS", "TSI721", "TSI57X", "RXS", "STD"}

Ports == CASE fam = "CPS" -> CpsPorts(hw) [] fam = "TSI721" -> {0} [] fam = "TSI57X" -> T57Ports
           [] fam = "RXS" -> RxsPorts [] fam = "STD" -> StdPorts

(* rio_pc_get_config and rio_pc_get_status, of one port. *)
PcOf(h, p) == CASE fam = "CPS" -> CpsPc(h, p) [] fam = "TSI721" -> T721Pc(h) [] fam = "TSI57X" -> T57Pc(h, p)
                [] fam = "RXS" -> RxsPc(h, p) [] fam = "STD" -> StdPc(h, p)
StatusOf(h, p) ==
  CASE fam = "CPS" -> CpsStatus(h, p) [] fam = "TSI721" -> T721Status(h) [] fam = "TSI57X" -> T57Status(h, p)
    [] fam = "RXS" -> RxsStatus(h, p) [] fam = "STD" -> StdStatus(h, p)

Init == /\ \E d \in Devices : fam = d.fam /\ hw = d.hw
        /\ last = [call |-> "none"]
        /\ ops = 0

Started(left) == [hw |-> [hw EXCEPT !.hit = {}, !.lprst = {}], rc |-> "SUCCESS",
                  left |-> left, w |-> <<>>]

Returns(call, d, in) ==
  /\ ops' = ops + 1
  /\ hw' = d.hw
  /\ last' = [call |-> call, rc |-> d.rc, in |-> in, clean |-> d.left > LateAnswers]
  /\ UNCHANGED fam

SetConfig(in, left) ==
  LET d == Started(left)
  IN  Returns("set_config",
        CASE fam = "CPS" -> CpsSetConfig(d, in) [] fam = "TSI721" -> T721SetConfig(d, in)
          [] fam = "TSI57X" -> T57SetConfig(d, in) [] fam = "RXS" -> RxsSetConfig(d, in)
          [] fam = "STD" -> StdSetConfig(d, in), in)

(* Only the driver for standard registers changes anything. *)
GetStatus(d, p) == IF fam = "STD" THEN StdGetStatus(d, p) ELSE RegRead(d)
ReadStatus(p, left) == Returns("get_status", GetStatus(Started(left), p), [port |-> p])

ResetPort(in, left) ==
  LET d == Started(left)
  IN  Returns("reset_port",
        CASE fam = "CPS" -> CpsResetPort(d, in) [] fam = "TSI721" -> T721ResetPort(d, in)
          [] fam = "TSI57X" -> T57ResetPort(d, in) [] fam = "RXS" -> RxsResetPort(d, in)
          [] fam = "STD" -> Fail(d, "STUBBED"), in)

ResetLinkPartner(p, resync, left) ==
  LET d == Started(left)
  IN  Returns("reset_lp",
        CASE fam = "CPS" -> CpsResetLinkPartner(d, p, resync) [] fam = "TSI721" -> T721ResetLinkPartner(d, p, resync)
          [] fam = "TSI57X" -> T57ResetLinkPartner(d, p, resync) [] fam = "RXS" -> RxsResetLinkPartner(d, p, resync)
          [] fam = "STD" -> Fail(d, "STUBBED"), [port |-> p])

ClrErrs(p, clrlp, lp, left) ==
  LET d == Started(left)
  IN  Returns("clr_errs",
        CASE fam = "CPS" -> CpsClrErrs(d, p, clrlp, lp) [] fam = "TSI721" -> T721ClrErrs(d, p, clrlp, lp)
          [] fam = "TSI57X" -> T57ClrErrs(d, p, clrlp, lp) [] fam = "RXS" -> RxsClrErrs(d, p, clrlp, lp)
          [] fam = "STD" -> Fail(d, "STUBBED"), [port |-> p, clrlp |-> clrlp])

SecurePort(S, in, left) ==
  LET d == Started(left)
  IN  Returns("secure_port",
        CASE fam = "CPS" -> CpsSecurePort(d, S, in) [] fam = "TSI721" -> T721SecurePort(d, in)
          [] fam = "TSI57X" -> T57SecurePort(d, S, in) [] fam = "RXS" -> RxsSecurePort(d, S, in)
          [] fam = "STD" -> Fail(d, "STUBBED"), in)

DevResetConfig(rst, left) ==
  LET d == Started(left)
  IN  Returns("dev_reset_config",
        CASE fam = "CPS" -> CpsDevResetConfig(d, rst) [] fam = "TSI721" -> T721DevResetConfig(d, rst)
          [] fam = "TSI57X" -> T57DevResetConfig(d, rst) [] fam = "RXS" -> RxsDevResetConfig(d, rst)
          [] fam = "STD" -> StdDevResetConfig(d), [rst |-> rst])

Probe(p, left) ==
  LET a == GetStatus(Started(left), p)
      st == StatusOf(hw, p)
      b == Then(a, RegRead)
      c == IF Ok(b) /\ st.ok THEN ProbePort(b, p, st, PcOf(b.hw, p)) ELSE [a EXCEPT !.w = "los"]
  IN  Returns("probe", c, [port |-> p, found |-> c.w])

(* A link trains, fails or meets errors. *)
LinkEvent(p, k) ==
  /\ ops' = ops + 1
  /\ hw' = [hw EXCEPT !.link[p] = k, !.hit = {}, !.lprst = {}]
  /\ last' = [call |-> "link"]
  /\ UNCHANGED fam

(* The caller reaches the device out of band, or through a port that       *)
(* passes packets.                                                         *)
Passes(h, p) == LET c == PcOf(h, p) IN c.avail /\ c.up /\ ~c.xdis /\ ~c.lock
Reached(a) ==
  \/ a.oob
  \/ /\ a.acc \in Ports /\ Passes(hw, a.acc)
     /\ fam = "RXS" => hw.regs[a.acc].mtc
     /\ hw.link[a.acc].ok /\ "PORT_ERR" \notin hw.link[a.acc].err

Next == ops < MaxOps[fam] /\ \E left \in Lefts :
  \/ \E in \in Requests[fam] : Reached(in) /\ SetConfig(in, left)
  \/ \E a \in {b \in Access[fam] : Reached(b)}, p \in Ports, r \in Resets :
       ResetPort([oob |-> a.oob, acc |-> a.acc, port |-> p, lp |-> r.lp, keep |-> r.keep, all |-> r.all], left)
  \/ \E p \in Ports, resync \in BOOLEAN : ResetLinkPartner(p, resync, left)
  \/ \E p \in Ports, c \in Partners : ClrErrs(p, c.clrlp, c.lp, left)
  \/ \E p \in Ports, in \in Policies : SecurePort({p}, in, left)
  \/ \E rst \in {"device", "port", "int", "ignore", "last"} : DevResetConfig(rst, left)
  \/ \E p \in Ports : ReadStatus(p, left) \/ Probe(p, left)
  \/ \E p \in Ports, k \in Links : LinkEvent(p, k)

Spec == Init /\ [][Next]_vars

-----------------------------------------------------------------------------
Asked == ByPort(last.in, Ports)

(* In band, set_config and reset_port never reset, disable or lock out the *)
(* port by which the caller reaches the device, nor take the maintenance   *)
(* packets from it, whichever register access fails (reg_acc_port of       *)
(* rio_pc_set_config_in_t).  A reset of all ports of a CPS device, link    *)
(* partners included and with nothing preserved, is a reset of the device. *)
(* The Tsi721 has one port and does not protect it.                        *)
AccessPortKept ==
  last.call \in {"set_config", "reset_port"} /\ fam # "TSI721" =>
    \/ last.in.oob
    \/ fam = "CPS" /\ last.call = "reset_port" /\ last.in.all /\ last.in.lp /\ ~last.in.keep
    \/ last.in.acc \notin hw.hit /\ (fam = "RXS" => hw.regs[last.in.acc].mtc)

(* What a device can do of a configuration: a width that is narrower than  *)
(* the lanes of the port is an override, an idle sequence may be the       *)
(* default.                                                                *)
SameWidth(a, b) == \/ a = b
                   \/ a \in {"1x", "1x_l0"} /\ b \in {"1x", "1x_l0"}
                   \/ a \in {"1x_l1", "1x_l2"} /\ b \in {"1x_l1", "1x_l2"}
Granted(c, o) == /\ o.avail /\ o.up /\ SameWidth(c.pw, o.pw)
                 /\ o.xdis = c.xdis /\ o.lock = c.lock /\ o.nmtc = c.nmtc
SameSpeed(c, o) == c.ls = o.ls

(* Two ports that were asked for speeds that need different PLL settings,  *)
(* and ended up on one PLL of a CPS device.                                *)
SharePll(p) ==
  /\ fam = "CPS"
  /\ \E q \in DOMAIN Asked \ {p} :
       /\ CpsRel(hw, p, hw.quad).pll = CpsRel(hw, q, hw.quad).pll
       /\ SpeedGroup(Asked[p].ls) # SpeedGroup(Asked[q].ls)


(* When clr_errs returns success the port shows no error.  The Tsi57x and  *)
(* Tsi721 drivers resynchronise the link and read the error status back,   *)
(* so they know that the link partner answers and that no error persists   *)
(* (the Tsi721, unless asked to clear the link partner too); the CPS and   *)
(* RXS drivers reset the port and do not look.                             *)
NoErrorLeft ==
  \/ fam = "TSI721" /\ last.in.clrlp
  \/ hw.link[last.in.port].err \subseteq IF fam \in {"CPS", "RXS"} THEN {"MUTE", "STUCK"} ELSE {}

(* A probe says that a port is good only if its link is trained to the     *)
(* width configured, has no error and is in step with its partner; the     *)
(* driver for standard registers, which does not read the status, aside.   *)
FoundGood ==
  last.in.found = "ok" => /\ hw.link[last.in.port].ok
                          /\ hw.link[last.in.port].err \subseteq {"STUCK"}
                          /\ StatusOf(hw, last.in.port).pw = PcOf(hw, last.in.port).pw


(* Two ports of a pair that are up run at speeds that share a clock. *)
ClocksAgree(h, p) == RxsPc(h, p).up /\ RxsPc(h, p + 1).up => ~LsConflict(RxsPc(h, p).ls, RxsPc(h, p + 1).ls)


(* What a port has of its own, whoever shares lanes, power or a clock. *)
OwnConf(h, p) ==
  CASE fam = "TSI57X" -> h.regs[p]
    [] fam = "RXS" -> [h.regs[p] EXCEPT !.route = {}, !.mtc = FALSE]

(* A set_config without a failing access leaves the ports that it was not  *)
(* asked about with their own registers: the Tsi57x driver power cycles a  *)
(* MAC and restores what the other port of it had, the RXS driver halts    *)
(* the pair (routing enables aside) and writes one port.                   *)
OthersKept ==
  [][last'.call = "set_config" /\ last'.clean /\ last'.rc = "SUCCESS" /\ fam \in {"TSI57X", "RXS"} =>
       \A p \in Ports \ DOMAIN Asked' :
         PcOf(hw, p).up /\ PcOf(hw', p).up => OwnConf(hw', p) = OwnConf(hw, p)]_vars
=============================================================================
