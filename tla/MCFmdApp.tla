------------------------------ MODULE MCFmdApp ------------------------------
(* Instances of FmdApp for model checking. *)
EXTENDS FmdApp

CONSTANTS a, b, f, g

MCDistinct == [x \in Conns |-> IF x = a THEN f ELSE g]
=============================================================================
