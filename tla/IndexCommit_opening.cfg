SPECIFICATION FairSpec
CONSTANTS
  Readers = {r1}
  Windows = TRUE
  MergeFactor = 2
  Lookahead = 2
  MaxGen = 4
  MaxNames = 1
  MaxCrashes = 0
  MaxFailures = 1
  MaxLost = 1
INVARIANT RememberedAreDead
PROPERTY OpeningEnds
