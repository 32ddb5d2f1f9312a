SPECIFICATION RunSpec
CONSTANTS
  w1 = w1
  w2 = w2
  o1 = o1
  o2 = o2
  o3 = o3
  Worker = {w1, w2}
  OpId = {o1, o2}
  Speaker = {}
  NoOwner = NoOwner
  NoOp = NoOp
  MaxEpoch = 1
  Atomic = TRUE
  DirectInsert = FALSE
  MaxGroup = 2
  ProtectedRecent = 1
  FenceMode = "active"
  Merge = FALSE
  Window = FALSE
  MayFail = TRUE
  Ingest = FALSE
SYMMETRY MCRunSymmetry
CHECK_DEADLOCK FALSE
INVARIANTS
  AbandonedLeavesNothing
  CompactedCovered
PROPERTIES
  ImplementsLifecycle
  LostLeaseWritesNothing
