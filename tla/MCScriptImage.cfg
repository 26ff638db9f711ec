SPECIFICATION Spec
CONSTANTS
  Files <- MCFiles
  Hidden <- MCHidden
  Bases = {8, 600}
  Requests = {r1, r2}
  Worlds <- MCWorlds
  MaxInclude = 2
  Align = 4
  MaxDup = 12
SYMMETRY Symmetry
INVARIANTS
  TypeOK
  FitsSize
  RestoredLikeCompiled
