SPECIFICATION Spec
CONSTANTS
  w1 = w1
  w2 = w2
  o1 = o1
  o2 = o2
  o3 = o3
  s1 = s1
  Worker = {w1}
  OpId = {o1, o2}
  Speaker = {}
  NoOwner = NoOwner
  MaxEpoch = 2
  Atomic = FALSE
  DirectInsert = TRUE
SYMMETRY MCSymmetry
PROPERTIES
  ImplementsLedger
