SPECIFICATION Spec
CONSTANTS
  i1 = i1  i2 = i2  w1 = w1  f1 = f1  f2 = f2  r1 = r1  r2 = r2
  SloIds = {i1, i2}
  Workspaces = {w1}
  WorkspaceOf <- OneWorkspace
  Fps = {f1, f2}
  FpSets <- SomeFpSets
  Names = {n1, n2}
  Requests = {r1, r2}
  Kinds <- AllKinds
  SerialWrites = TRUE
  LostSaves = FALSE
  MaxStarted = 4
  MaxFaults = 2
  NoDoc = NoDoc
  Idle = Idle
SYMMETRY Symmetric
INVARIANTS TypeOK ExactAccounting NeverUnderCount CoveredUntilFault AlertedUntilFault
PROPERTY AlertsLostOnlyByDelete
CHECK_DEADLOCK FALSE
