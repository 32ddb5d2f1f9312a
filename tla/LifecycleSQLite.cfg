SPECIFICATION Spec
CONSTANTS
  w1 = w1
  w2 = w2
  o1 = o1
  o2 = o2
  o3 = o3
  s1 = s1
  Worker = {w1, w2}
  OpId = {o1, o2, o3}
  Speaker = {s1}
  NoOwner = NoOwner
  MaxEpoch = 2
  Atomic = TRUE
  DirectInsert = FALSE
SYMMETRY MCSymmetry
INVARIANTS
  TypeOK
  OneActiveOperation
  DeadLivesAreQuiet
  HandlesOfThisLife
  CompactingHasRunner
PROPERTIES
  CancelsOnlyDeadLives
  ImplementsLedger
