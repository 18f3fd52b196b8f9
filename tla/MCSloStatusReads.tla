-------------------------- MODULE MCSloStatusReads --------------------------
EXTENDS SloStatusReads, TLC

CONSTANTS i1, i2, on, off, prom, r1, r2

MCDsOf   == i1 :> prom @@ i2 :> prom
MCListing == {{i1, i2}}
Symmetry == Permutations({r1, r2}) \cup Permutations({i1, i2})
=============================================================================
