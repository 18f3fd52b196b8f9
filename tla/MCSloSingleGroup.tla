-------------------------- MODULE MCSloSingleGroup --------------------------
EXTENDS SloSingleGroup, TLC

CONSTANTS i1, n1, n2, s1, s2, s3, r1, r2

MCNameOf  == s1 :> n1 @@ s2 :> n1 @@ s3 :> n2
Symmetry  == Permutations({r1, r2}) \cup Permutations({s1, s2})
=============================================================================
