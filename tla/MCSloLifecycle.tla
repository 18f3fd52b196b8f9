--------------------------- MODULE MCSloLifecycle ---------------------------
(***************************************************************************)
(* Small instances of SloLifecycle: two SLOs, two fingerprints, two names  *)
(* and two requests in flight.                                             *)
(***************************************************************************)
EXTENDS SloLifecycle, TLC

CONSTANTS i1, i2, w1, f1, f2, r1, r2

OneWorkspace == [i \in SloIds |-> w1]
SomeFpSets   == {{f1}, {f1, f2}}
AllKinds     == {"create", "update", "delete", "repair"}
Writes       == {"create", "update", "delete"}
Symmetric    == Permutations(Requests) \cup Permutations(SloIds) \cup Permutations(Names)
=============================================================================
