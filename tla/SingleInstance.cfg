CONSTANTS
  p1 = p1
  p2 = p2
  p3 = p3
  Procs = {p1, p2, p3}
  NoProc = NoProc
  MaxEnds = 1
SPECIFICATION FairSpec
INVARIANTS
  TypeOK
  OneInstance
  HolderReachable
PROPERTIES
  StartShows
  SendEnds
  ReceiveEnds
\* All starts of the program may have ended.
CHECK_DEADLOCK FALSE
