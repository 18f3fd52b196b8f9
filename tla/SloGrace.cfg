SPECIFICATION SysSpec
CONSTANTS
  i1 = i1  i2 = i2  w1 = w1  w2 = w2  f1 = f1  f2 = f2
  SloIds = {i1, i2}
  Workspaces = {w1, w2}
  WorkspaceOf <- EachItsOwn
  Fps = {f1, f2}
  FpSets <- SomeFpSets
  Names = {n1}
  Requests = {r1, r2}
  Kinds <- Writes
  SerialWrites = TRUE
  LostSaves = FALSE
  Sweepers = {s1}
  MaxStarted = 4
  MaxFaults = 0
  NoDoc = NoDoc
  Idle = Idle
PROPERTY GraceInEveryWorkspace
CHECK_DEADLOCK FALSE
