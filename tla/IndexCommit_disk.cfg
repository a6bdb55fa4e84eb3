SPECIFICATION Spec
CONSTANTS
  Readers = {}
  Windows = FALSE
  MergeFactor = 2
  Lookahead = 2
  MaxGen = 7
  MaxNames = 3
  MaxCrashes = 2
  MaxFailures = 1
  MaxLost = 0
INVARIANT TypeOK
INVARIANT CommitReadable
INVARIANT RestartNeverGoesBack
INVARIANT IdleWriterIsClean
CHECK_DEADLOCK FALSE
