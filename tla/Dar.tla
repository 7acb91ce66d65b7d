-------------------------------- MODULE Dar --------------------------------
(***************************************************************************)
(* Register access of the device drivers (librio/src/                      *)
(* RapidIO_Device_Access_Routines_API.c).                                  *)
(*                                                                         *)
(* A driver call is an operator from a call state d to the call state at   *)
(* the point reached: d.hw are the registers of the device, d.rc is the    *)
(* return code and d.left the number of register accesses that still       *)
(* succeed.  Every call of the drivers stops at the first failed access,   *)
(* so a call whose k-th access fails is the call with d.left = k - 1, and  *)
(* what it wrote before stays written.                                     *)
(***************************************************************************)
EXTENDS Integers, Sequences, FiniteSets

Ok(d) == d.rc = "SUCCESS"
Fail(d, rc) == [d EXCEPT !.rc = rc]

(* DARRegRead: the value itself is read from d.hw by the caller. *)
RegRead(d) == IF d.left = 0 THEN Fail(d, "REG_ACCESS")
                            ELSE [d EXCEPT !.left = @ - 1]

(* DARRegWrite: hw is the device after the write. *)
RegWrite(d, hw) == IF d.left = 0 THEN RegRead(d) ELSE [RegRead(d) EXCEPT !.hw = hw]

(* The next statement of a call, unless it went to its exit label; the     *)
(* statements behind an exit label, unless the call went well; both.       *)
Then(d, F(_)) == IF Ok(d) THEN F(d) ELSE d
OnError(d, G(_)) == IF Ok(d) THEN d ELSE G(d)
Try(d, F(_), G(_)) == IF Ok(d) THEN F(d) ELSE G(d)

(* A loop over the sequence s that a failure leaves. *)
ForEach(d, s, F(_, _)) ==
  LET loop[i \in 0..Len(s)] ==
        IF i = 0 THEN d
        ELSE LET a == loop[i - 1] IN IF Ok(a) THEN F(a, s[i]) ELSE a
  IN  loop[Len(s)]

Count(n) == [i \in 1..n |-> i - 1]      \* 0, 1, ..., n - 1

(* Ports in the order in which the loops of the drivers visit them. *)
Ascending(S) == [i \in 1..Cardinality(S) |-> CHOOSE p \in S : Cardinality({q \in S : q < p}) = i - 1]

(* An access whose failure is ignored: the device answers again later. *)
LateAnswers == 999
Ignored(d) == IF Ok(d) THEN d ELSE [d EXCEPT !.rc = "SUCCESS", !.left = LateAnswers]

(* A loop over the ports of S. *)
ForPorts(d, S, F(_, _)) == ForEach(d, Ascending(S), F)

(* DARrioGetPortList for a device with ports 0..(n - 1), of which those in *)
(* gone do not exist: ALL_PORTS, or a list without repetitions; <<>> if    *)
(* the list is refused.                                                    *)
ALL_PORTS == "all"
GetPortList(l, n, gone) ==
  IF l = ALL_PORTS THEN SelectSeq(Count(n), LAMBDA p : p \notin gone)
  ELSE IF /\ Len(l) <= n
          /\ \A i \in DOMAIN l : l[i] \in (0..(n - 1)) \ gone /\ \A j \in DOMAIN l : l[i] = l[j] => i = j
       THEN l ELSE <<>>
=============================================================================
