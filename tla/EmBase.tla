------------------------------- MODULE EmBase -------------------------------
(***************************************************************************)
(* Error management (librio/src/RapidIO_Error_Management_API.c): what the  *)
(* drivers share.                                                          *)
(*                                                                         *)
(* The call state of Dar has in addition w, the local variables of a call, *)
(* room, the length of the caller's array of events, and out, what the     *)
(* call returns: events is the list, of pairs <<port, event>>, too says    *)
(* that the array was too short and other that there are other events.     *)
(* Registers are sets of bits, or small values.                            *)
(***************************************************************************)
EXTENDS Dar

CONSTANTS MaxThresh         \* the largest threshold a register holds

Fatal == {"f_los", "f_port_err", "f_2many_retx", "f_2many_pna", "f_err_rate"}
Dropped == {"d_ttl", "d_rte", "d_log"}
Informed == {"i_sig_det", "i_rst_req", "i_init_fail"}
Events == Fatal \cup Dropped \cup Informed
Notfns == {"none", "int", "pw", "both", "0delta"}

ByInt(n) == n \in {"int", "both"}
ByPw(n) == n \in {"pw", "both"}
NotfnOf(int, pw) == IF int THEN IF pw THEN "both" ELSE "int" ELSE IF pw THEN "pw" ELSE "none"
Switch(S, bits, on) == IF on THEN S \cup bits ELSE S \ bits
Capped(n) == IF n > MaxThresh THEN MaxThresh ELSE n

NoPort == 255                           \* RIO_ALL_PORTS as the port of an event

NoEvents == [events |-> <<>>, too |-> FALSE, other |-> FALSE]

AddEvent_silent(d, p, e) == IF Len(d.out.events) < d.room THEN [d EXCEPT !.out.events = Append(@, <<p, e>>)] ELSE d

(* rio_em_add_int_event, rio_em_add_pw_event and the macro of the Tsi721. *)
AddEvent(d, p, e) ==
  IF Len(d.out.events) < d.room THEN [d EXCEPT !.out.events = Append(@, <<p, e>>)]
                                ELSE [d EXCEPT !.out.too = TRUE]
AddIf(d, cond, p, e) == IF cond THEN AddEvent(d, p, e) ELSE d
Other(d, cond) == IF cond THEN [d EXCEPT !.out.other = TRUE] ELSE d

(* A register that is read, changed and written. *)
Update(d, hw) == Then(RegRead(d), LAMBDA x : RegWrite(x, hw))

(* Consecutive registers, written in order with the values of w. *)
RegWrites(d, regs) == ForEach(d, regs, LAMBDA x, f : RegWrite(x, [x.hw EXCEPT ![f] = x.w[f]]))

-----------------------------------------------------------------------------
(* rec_err_spx_err_table and rio_spx_err_rate_err_rb_vals: the errors that *)
(* the rate can count, by bit of em_info, and the leak rates, by index.    *)
RecErrs == <<"PKT_CRC", "CS_NOT_ACC">>
RbVals == <<"none", "1s">>
ErrInfo(errs, rr, rb, thr) == [errs |-> errs, rr |-> rr, rb |-> rb, thr |-> thr]

(* rio_em_compute_f_err_rate_info, also of a register that counts an error *)
(* em_info has no bit for.                                                 *)
ComputeErrRateInfo(en, rate, thr) ==
  LET errs == {i \in DOMAIN RecErrs : RecErrs[i] \in en}
      known == en \subseteq {RecErrs[i] : i \in DOMAIN RecErrs}
  IN  IF known THEN ErrInfo(errs, rate.rr, CHOOSE i \in DOMAIN RbVals : RbVals[i] = rate.rb, thr)
               ELSE ErrInfo(errs, 0, 1, 0)

(* rio_em_get_f_err_rate_info; "last" for a leak rate there is none of. *)
GetErrRateInfo(info) ==
  [ok |-> info.rb \in DOMAIN RbVals,
   en |-> {RecErrs[i] : i \in info.errs},
   rate |-> [rr |-> info.rr, rb |-> IF info.rb \in DOMAIN RbVals THEN RbVals[info.rb] ELSE "last"],
   thr |-> info.thr]
=============================================================================
