SPECIFICATION FairSpec
CONSTANTS
  Callers = {c1, c2, c3}
  MaxRetries = 3
  MaxCalls = 4
  NoRef = NoRef
INVARIANTS TypeOK MarkedWhenZero ConflictMeansContention
PROPERTIES RefinesAtomic CallsSettle
CHECK_DEADLOCK FALSE
