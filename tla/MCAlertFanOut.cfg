CONSTANTS
  N = 4
  Concurrency = 2
  Direct = {3}
  ResolveTime = 1
  Timeout = 1
  MaxNow = 9
SPECIFICATION FairSpec
INVARIANTS TypeOK EachInOneHand TurnsKept
PROPERTIES ResultsAreFinal OthersSettle
CHECK_DEADLOCK FALSE
