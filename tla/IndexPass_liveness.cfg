CONSTANTS
  p1 = p1
  p2 = p2
  p3 = p3
  NoPath = NoPath
  Paths = {p1}
  MaxVersion = 3
  DocNrs = {1, 2, 3, 4}
  FlushOver = 0
  Removals = {"this", "other"}
  Hash <- MCHash
  Date <- MCDate
SPECIFICATION FairSpec
PROPERTIES
  EveryFileSearchable
  InterruptEndsUnlessAsked
