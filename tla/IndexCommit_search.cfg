SPECIFICATION Spec
CONSTANTS
  Readers = {r1}
  Windows = FALSE
  MergeFactor = 2
  Lookahead = 2
  MaxGen = 5
  MaxNames = 3
  MaxCrashes = 1
  MaxFailures = 1
  MaxLost = 0
INVARIANT RestartFindsLastCommit
INVARIANT OpenSucceeds
INVARIANT SeesOneCommit
PROPERTY ImplementsCommittedIndex
