\* A removal may hang for ever, see the run lifecycle_removal.
CHECK_DEADLOCK FALSE
CONSTANTS
  t1 = t1
  t2 = t2
  t3 = t3
  Dirs = {1, 2}
  Threads = {t1, t2}
  NoThread = NoThread
  NullThread = NullThread
  UiThread = UiThread
  IdxDir <- MCIdxDir
  KillAfter = 0
  GiveUpAfter = 2
SPECIFICATION FairSpec
PROPERTY RemovalEnds
