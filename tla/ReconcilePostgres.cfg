SPECIFICATION Spec
CONSTANTS
  Message <- MCMessage
  UserMessage <- MCUser
  Actor = {a1, a2}
  NoActor = NoActor
  Payload <- MCPayload
  Pair <- MCPair
  History <- MCHistory
  WindowSizes = {3}
  Spacing = 2
  RecentRows = 5
  Transactional = FALSE
  MayCrash = TRUE
  MayMiss = TRUE
  Tagging = TRUE
  MaxTurn = 8
  MaxBatch = 2
  MaxEpoch = 2
  MaxHistory = 4
  Extra = {1, 3, 4}
  Pairs = {3}
  MinLen = 4
INVARIANTS KeysNeverCollide RacedBatchGone
PROPERTIES EarlierRowsKept
SYMMETRY ActorSymmetry
CHECK_DEADLOCK FALSE
