SPECIFICATION Spec
CONSTANTS
  Callers = {a}
  a = a
  Files <- OneFile
  Size = 2
  ReadSizes = {1}
  Offsets <- SomeOffsets
  MaxOpens = 1
INVARIANTS
  FailedOpensCloseTheirs
