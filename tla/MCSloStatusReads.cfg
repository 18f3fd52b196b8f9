CONSTANTS
  i1 = i1
  i2 = i2
  on = on
  off = off
  prom = prom
  r1 = r1
  r2 = r2
  SloIds = {i1, i2}
  Specs = {on, off}
  Enabled = {on}
  Datasources = {prom}
  DsOf <- MCDsOf
  Requested <- MCListing
  Readers = {r1, r2}
  StatusTTL = 1
  HealthTTL = 1
  Threshold = 2
  Window = 0
  Cooldown = 1
  MaxNow = 2
  MaxReads = 3
  MaxChanges = 1
  NoDoc = NoDoc
  NoEntry = NoEntry
  Never = Never
  Idle = Idle
SPECIFICATION Spec
SYMMETRY Symmetry
INVARIANTS TypeOK StatusesRecent StaleOnlyWhenOvertaken RulesMissingRecent OpensOnlyOnStreak DegradedRecent
CHECK_DEADLOCK FALSE
