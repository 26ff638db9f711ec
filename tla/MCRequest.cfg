SPECIFICATION Spec
CONSTANTS
  t1 = t1
  t2 = t2
  p1 = p1
  p2 = p2
  Thread = {t1, t2}
  Process = {p1, p2}
  Layout <- Layouts
  Server = {s1, s2}
  Root = root
  Uid = {root, u1, u2}
  None = None
  Dirs = 2
  MaxFault = 2
INVARIANTS
  OneUserUsable
  UmaskKept
  CrashReleases
