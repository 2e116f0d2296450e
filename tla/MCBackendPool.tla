--------------------------- MODULE MCBackendPool ----------------------------
(***************************************************************************)
(* Instances of BackendPool for TLC.                                       *)
(***************************************************************************)
EXTENDS BackendPool, TLC

CallSymmetry == Permutations(Calls)
=============================================================================
