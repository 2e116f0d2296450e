-------------------------- MODULE MCPackActivation --------------------------
EXTENDS PackActivation, TLC

CONSTANTS s1, s2, u1

\* The unsigned build declares the version of the first release.
VersionOfPack == s1 :> "1.0" @@ s2 :> "2.0" @@ u1 :> "1.0"

RequestSymmetry == Permutations(Requests)
=============================================================================
