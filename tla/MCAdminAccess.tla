---------------------------- MODULE MCAdminAccess ----------------------------
(***************************************************************************)
(* Instances of AdminAccess for TLC.                                       *)
(***************************************************************************)
EXTENDS AdminAccess, TLC

AccessSymmetry ==
    Permutations(Requests) \cup Permutations(Browsers) \cup Permutations(Passwords)
=============================================================================
