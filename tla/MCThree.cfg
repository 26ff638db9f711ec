SPECIFICATION Spec
CONSTANTS
  p1 = p1
  p2 = p2
  p3 = p3
  b1 = b1
  b2 = b2
  k1 = k1
  Proc = {p1, p2, p3}
  Block = {b1, b2}
  Key = {k1}
  ShmTtl = 0
  PrunePeriod = 0
  CheckMtime = TRUE
  AdminOps <- Empty
  QuietEdits = FALSE
  QuietPurge = TRUE
  NoBlock = NoBlock
  MaxRev = 2
  MaxTime = 0
  MaxUsed = 1
  MaxCrash = 1
  MaxRefused = 0
SYMMETRY Symmetry
INVARIANTS
  UseCntCovers
  OneEntryPerScript
  ModificationNoticed
PROPERTIES
  ImplementsLease
