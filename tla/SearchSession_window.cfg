CONSTANTS
  d1 = d1
  d2 = d2
  o1 = o1
  o2 = o2
  Dirs = {d1, d2}
  Objects = {o1, o2}
  NoObject = NoObject
  NoDir = NoDir
  NoHits = NoHits
  MaxCommit = 2
  MaxRefs = 3
SPECIFICATION Spec
SYMMETRY ObjectsAreAlike
INVARIANTS
  TypeOK
  HitsAreOfReaders
  LockFileIsOwn
PROPERTIES
  RemovalErases
  WorkersKeepDirectory
