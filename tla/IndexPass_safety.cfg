CONSTANTS
  p1 = p1
  p2 = p2
  p3 = p3
  NoPath = NoPath
  Paths = {p1, p2}
  MaxVersion = 2
  DocNrs = {1, 2, 3, 4}
  FlushOver = 1
  Removals = {"this"}
  Hash <- MCHash
  Date <- MCDate
SPECIFICATION Spec
INVARIANTS
  TypeOK
  OneDocPerFile
  DateImpliesText
  NewIndexHasNoOldVersion
  UncommittedDeletionIsFlagged
PROPERTIES
  CurrentDocStays
  ImplementsCatalog
