SPECIFICATION FairSpec
CONSTANTS
  None = None
  a1 = a1  a2 = a2  a3 = a3
  p1 = p1  p2 = p2  p3 = p3
  Thread <- MCThread
  Process <- MCProcess
  Layout <- MCLayout
  Runs <- MCRuns
  MaxFault = 1
INVARIANTS
  Exclusive
PROPERTIES
  WholeOnEntry
  WaitersGetIn
CHECK_DEADLOCK FALSE
