---------------------------- MODULE MCSloSystem -----------------------------
(***************************************************************************)
(* Small instances of SloSystem: two SLOs, in one workspace or in two, one *)
(* or two server processes.                                                *)
(***************************************************************************)
EXTENDS SloSystem

CONSTANTS i1, i2, w1, w2, f1, f2

SomeFpSets    == {{f1}, {f2}}
Writes        == {"create", "update", "delete"}
EachItsOwn    == [i \in SloIds |-> IF i = i1 THEN w1 ELSE w2]
=============================================================================
