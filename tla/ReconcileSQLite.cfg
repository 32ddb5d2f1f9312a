SPECIFICATION Spec
CONSTANTS
  Message <- MCMessage
  UserMessage <- MCUser
  Actor = {}
  NoActor = NoActor
  Payload <- MCPayload
  Pair <- MCPair
  History <- MCHistory
  WindowSizes = {3, 4, 5}
  Spacing = 2
  RecentRows = 5
  Transactional = TRUE
  MayCrash = TRUE
  MayMiss = FALSE
  Tagging = FALSE
  MaxTurn = 9
  MaxBatch = 3
  MaxEpoch = 1
  MaxHistory = 6
  Extra = {1, 2, 3, 5}
  Pairs = {1, 3, 5}
  MinLen = 1
INVARIANTS PayloadStored ResendWritesNothing TranscriptIsWindow GroupsArePairs
CHECK_DEADLOCK FALSE
