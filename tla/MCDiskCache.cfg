SPECIFICATION FairSpec
CONSTANTS
  None = None
  p1 = p1  p2 = p2
  old = old  new = new  twin = twin
  Proc = {p1, p2}
  Server = {old, new, twin}
  VersionOf <- MCVersionOf
  Deployment <- MCDeployment
  Inode = {i1, i2, i3}
  MaxRev = 2
  MaxFault = 1
INVARIANTS
  ServedWhole
  WrittenFileIntact
  ServedOwnVersion
  ServedFresh
PROPERTIES
  YoungFileSpared
  Answered
