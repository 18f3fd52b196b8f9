SPECIFICATION FairSpec
CONSTANTS
  Keys = {k1, k2, k3, k4}
  Cooldown = 1
  MaxBackoff = 2
  MaxInFlight = 1
  MaxQueued = 2
  MaxQueueAge = 1
  MaxNow = 2
  Never = Never
INVARIANTS TypeOK Bounded OncePerKey WorkConserving
PROPERTIES RestsBetweenAttempts StartsFresh QueueDrains
CHECK_DEADLOCK FALSE
