CONSTANTS
  i1 = i1
  n1 = n1
  n2 = n2
  s1 = s1
  s2 = s2
  s3 = s3
  r1 = r1
  r2 = r2
  SloIds = {i1}
  Names = {n1, n2}
  Specs = {s1, s2, s3}
  NameOf <- MCNameOf
  Requests = {r1, r2}
  HealthTTL = 1
  MaxNow = 2
  MaxStarted = 3
  MaxFaults = 1
  NoDoc = NoDoc
  Absent = Absent
  NoEntry = NoEntry
  Idle = Idle
SPECIFICATION Spec
SYMMETRY Symmetry
INVARIANTS TypeOK GroupFollowsDocument CachedVerdictsRecent RepairReportsOwnWrite
PROPERTY GroupLostByDeleteOrRollback
CHECK_DEADLOCK FALSE
