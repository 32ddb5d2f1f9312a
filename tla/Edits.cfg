SPECIFICATION Spec
CONSTANTS
  m1 = m1
  m2 = m2
  r1 = r1
  r2 = r2
  a = a
  b = b
  Gone = Gone
  Msg = {m1}
  MaxVersion = 1
  Topic = {a, b}
  Ref = {r1, r2}
  MaxRow = 2
  MaxEdit = 2
  Merge = TRUE
  MaxFault = 1
  Stubs <- MCStubs
  Serial = FALSE
SYMMETRY MCEditSymmetry
CHECK_DEADLOCK FALSE
INVARIANTS
  EditTypeOK
  ServedFactsSupported
  DerivedFollowsRecord
PROPERTIES
  ReplayRestoresNothing
