SPECIFICATION Spec
CONSTANTS
  p1 = p1
  p2 = p2
  b1 = b1
  b2 = b2
  k1 = k1
  k2 = k2
  Proc = {p1, p2}
  Block = {b1, b2}
  Key = {k1, k2}
  ShmTtl = 1
  PrunePeriod = 1
  CheckMtime = TRUE
  AdminOps <- Cleaned
  QuietEdits = TRUE
  QuietPurge = TRUE
  NoBlock = NoBlock
  MaxRev = 2
  MaxTime = 2
  MaxUsed = 1
  MaxCrash = 0
  MaxRefused = 0
SYMMETRY Symmetry
INVARIANTS
  NoUseAfterFree
  UseCntExact
