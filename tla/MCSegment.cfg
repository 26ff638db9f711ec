SPECIFICATION Spec
CONSTANTS
  m = m  w1 = w1  w2 = w2
  Proc = {m, w1, w2}
  Master = m
  MaxSeg = 2
SYMMETRY Symmetry
INVARIANTS
  ExclusiveOverFork
  AlwaysLocked
  NothingLeft
CHECK_DEADLOCK FALSE
