SPECIFICATION Spec
CONSTANTS
  Callers = {a, b}
  a = a
  b = b
  Files <- SomeFiles
  Size = 2
  ReadSizes = {1}
  Offsets <- SomeOffsets
  MaxOpens = 2
SYMMETRY Symmetry
INVARIANTS
  TypeOK
  NothingElseLeaks
  PositionsInFile
  
PROPERTIES
  ReadsFollowOneAnother
