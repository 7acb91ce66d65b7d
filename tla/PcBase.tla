------------------------------- MODULE PcBase -------------------------------
(***************************************************************************)
(* Port configurations (librio/inc/RapidIO_Port_Config_API.h) as the       *)
(* drivers share them.                                                     *)
(*                                                                         *)
(* A configuration is a record: avail and up (port_available, powered_up), *)
(* pw (width), ls (lane speed, 0 for 1.25 to 6 for 12.5 Gbaud), iseq (idle *)
(* sequence), fc (flow control), xdis (xmitter_disable), lock              *)
(* (port_lockout), nmtc (nmtc_xfer_enable), swap (lane swap) and inv (the  *)
(* lanes whose pair is inverted).  Transmit and receive lanes are handled  *)
(* alike, one value stands for both.                                       *)
(*                                                                         *)
(* The call state of Dar has in addition w, the local variables of the     *)
(* call.  Steps of a call that only read are one access: whichever of the  *)
(* reads fails, the call fails and the device is as before.                *)
(***************************************************************************)
EXTENDS Dar, FiniteSets, TLC

NONE == -1                              \* RIO_ALL_PORTS where no port is meant
LS_LAST == 7
PWs == {"1x", "2x", "4x", "1x_l0", "1x_l1", "1x_l2"}

(* pw_to_lanes *)
PwLanes(pw) == CASE pw \in {"1x", "1x_l0"} -> 1
                 [] pw \in {"2x", "1x_l1"} -> 2
                 [] pw \in {"4x", "1x_l2"} -> 4
                 [] OTHER -> 0

(* What rio_pc_get_config says of a port that it does not read further. *)
NoPc(avail) == [avail |-> avail, up |-> FALSE, pw |-> "last", ls |-> LS_LAST,
                iseq |-> "last", fc |-> "last", xdis |-> FALSE, lock |-> FALSE,
                nmtc |-> FALSE, swap |-> "none", inv |-> {}]

(* A link: trained or not, the width it trained to, its errors. *)
Link(ok, w, err) == [ok |-> ok, w |-> w, err |-> err]

(* What is left of the errors when they are cleared: a link partner that  *)
(* does not answer link requests still does not, and an error may persist *)
(* (STUCK).                                                               *)
Cleared(k) == [k EXCEPT !.err = @ \cap {"MUTE", "STUCK"}]
Verified(d, p) == IF "STUCK" \in d.hw.link[p].err THEN Fail(d, "ERRS_NOT_CL") ELSE d
Answers(k) == k.ok /\ "MUTE" \notin k.err

(* The request, by port: the entries of a list are taken in order, the *)
(* last one for a port counts; RIO_ALL_PORTS is the first entry for    *)
(* every port.                                                         *)
ByPort(in, ports) ==
  IF in.all THEN [p \in ports |-> in.pc[1].c]
  ELSE [p \in {in.pc[i].pnum : i \in DOMAIN in.pc} |->
          in.pc[CHOOSE i \in DOMAIN in.pc :
                  /\ in.pc[i].pnum = p
                  /\ \A j \in DOMAIN in.pc : in.pc[j].pnum = p => j <= i].c]
=============================================================================
