SPECIFICATION Spec
CONSTANTS
  m1 = m1
  m2 = m2
  r1 = r1
  r2 = r2
  a = a
  b = b
  Gone = Gone
  Msg = {m1}
  MaxVersion = 1
  Topic = {a}
  Ref = {r1, r2}
  MaxRow = 2
  MaxEdit = 1
  Merge = TRUE
  MaxFault = 0
  Stubs = {}
  Serial = FALSE
SYMMETRY MCEditSymmetry
CHECK_DEADLOCK FALSE
PROPERTIES
  RetractedStaysRetracted
