SPECIFICATION Spec
CONSTANTS
  Readers = {}
  Windows = FALSE
  MergeFactor = 2
  Lookahead = 2
  MaxGen = 4
  MaxNames = 1
  MaxCrashes = 1
  MaxFailures = 0
  MaxLost = 0
PROPERTY RestartKeepsIndex
CHECK_DEADLOCK FALSE
