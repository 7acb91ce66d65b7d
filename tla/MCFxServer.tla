----------------------------- MODULE MCFxServer -----------------------------
(* Instances of FxServer for model checking. *)
EXTENDS FxServer, TLC

(* A NUMREQS that one request reaches, and one that all three reach. *)
MCNumReqs == {1, 3}
MCOneReq == {1}
MCNoReqs == {}

MCSymmetry == Permutations(Requests)
=============================================================================
