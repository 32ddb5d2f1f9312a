SPECIFICATION SessionSpec
CONSTANTS
  w1 = w1
  w2 = w2
  Worker = {w1, w2}
  Repairer = Repairer
  Nothing = Nothing
  MaxGeneration = 2
  MaxRequest = 2
  MaxRepair = 1
  MayFail = TRUE
  MayLose = TRUE
CONSTRAINT MCOneFault
SYMMETRY SessionSymmetry
CHECK_DEADLOCK FALSE
INVARIANTS
  SessionTypeOK
  CheckpointOfThisLife
  BackupOfThisLife
  BackupNotAhead
PROPERTIES
  NewerCheckpointKept
