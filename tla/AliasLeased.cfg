SPECIFICATION Spec
CONSTANTS
  c1 = c1
  c2 = c2
  c3 = c3
  c4 = c4
  c5 = c5
  c6 = c6
  w1 = w1
  w2 = w2
  Conv = {c1, c2, c3}
  NoConv = NoConv
  Worker = {w1, w2}
  MaxHops = 2
  MaxFanOut = 1
  Leases = TRUE
  MayFail = TRUE
  MaxWrite = 2
SYMMETRY AliasSymmetry
CHECK_DEADLOCK FALSE
INVARIANTS
  AliasTypeOK
  NoAliasCycle
  NoStaleBinding
  ReverseDependentsFollowWalks
