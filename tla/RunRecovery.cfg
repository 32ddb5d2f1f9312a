SPECIFICATION FairRunSpec
CONSTANTS
  w1 = w1
  w2 = w2
  o1 = o1
  o2 = o2
  o3 = o3
  Worker = {w1, w2}
  OpId = {o1, o2}
  Speaker = {}
  NoOwner = NoOwner
  NoOp = NoOp
  MaxEpoch = 1
  Atomic = TRUE
  DirectInsert = FALSE
  MaxGroup = 0
  ProtectedRecent = 0
  FenceMode = "active"
  Merge = FALSE
  Window = FALSE
  MayFail = FALSE
  Ingest = TRUE
CONSTRAINT MCSurvivorIngests
CHECK_DEADLOCK FALSE
PROPERTIES
  Recovers
  OperationsEnd
