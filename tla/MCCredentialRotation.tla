------------------------ MODULE MCCredentialRotation ------------------------
(***************************************************************************)
(* Instances of CredentialRotation for TLC.                                *)
(***************************************************************************)
EXTENDS CredentialRotation, TLC

WriterSymmetry == Permutations(Writers)
=============================================================================
