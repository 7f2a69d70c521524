SPECIFICATION Spec
CONSTANTS
  Callers = {c1, c2}
  c1 = c1
  c2 = c2
  NumBlocks = 2
  MaxBlocks = 2
  MaxConcurrency = 1
  SharedDir = FALSE
  MayCancel = TRUE
SYMMETRY Symmetry
INVARIANTS
  RegisteredFetchesRun
