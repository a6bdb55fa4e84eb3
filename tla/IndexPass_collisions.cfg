CONSTANTS
  p1 = p1
  p2 = p2
  p3 = p3
  NoPath = NoPath
  Paths = {p1, p2, p3}
  MaxVersion = 2
  DocNrs = {1, 2}
  FlushOver = 1
  Removals = {}
  Hash <- MCPairHash
  Date <- MCDate
SPECIFICATION Spec
SYMMETRY MCPair
INVARIANT OneDocPerFile
PROPERTY CurrentDocStays
