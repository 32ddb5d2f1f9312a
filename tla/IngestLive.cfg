SPECIFICATION FairIngestSpec
CONSTANTS
  w1 = w1
  w2 = w2
  Worker = {w1, w2}
  OpId = {}
  Speaker = {}
  NoOwner = NoOwner
  MaxEpoch = 1
  Atomic = TRUE
  DirectInsert = FALSE
  MaxTurnGroups = 3
CONSTRAINT MCSurvivor
CHECK_DEADLOCK FALSE
INVARIANTS
  IngestingIsOwned
PROPERTIES
  ImplementsStore
  GroupsGetTagged
  EpisodesHeal
