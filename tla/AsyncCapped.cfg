SPECIFICATION Spec
CONSTANTS
  Callers = {c1, c2}
  c1 = c1
  c2 = c2
  NumBlocks = 3
  MaxBlocks = 1
  MaxConcurrency = 2
  SharedDir = FALSE
  MayCancel = TRUE
SYMMETRY Symmetry
INVARIANTS
  SlotsConserved
PROPERTIES
  CapHoldsUpToInFlight
  PublishAtomically
