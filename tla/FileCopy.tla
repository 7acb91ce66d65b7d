------------------------------ MODULE FileCopy ------------------------------
(***************************************************************************)
(* What the file transfer service promises about the received file: it     *)
(* only ever grows, by the next bytes of the source, and never changes     *)
(* once the connection that feeds it is closed.  A byte of the source is   *)
(* named by its offset, so the bytes a file holds are a function from      *)
(* offsets to offsets, and a faithful copy of m bytes is Prefix(m).        *)
(***************************************************************************)
EXTENDS Integers

CONSTANT FileLens     \* the lengths a source file may have

VARIABLES src_len,    \* length of the source file
          dest,       \* the bytes written so far
          conn_open   \* the server still serves the connection

vars == <<src_len, dest, conn_open>>

Prefix(m) == [p \in 0..(m - 1) |-> p]

Init ==
  /\ src_len \in FileLens
  /\ dest = Prefix(0)
  /\ conn_open = TRUE

(* More bytes of the source reach the file. *)
Grow ==
  /\ conn_open
  /\ \E m \in 0..src_len :
       /\ DOMAIN dest \subseteq 0..(m - 1)
       /\ dest' = Prefix(m)
  /\ UNCHANGED <<src_len, conn_open>>

Close ==
  /\ conn_open
  /\ conn_open' = FALSE
  /\ UNCHANGED <<src_len, dest>>

Next == Grow \/ Close

Spec == Init /\ [][Next]_vars
=============================================================================
