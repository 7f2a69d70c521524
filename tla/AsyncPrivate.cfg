SPECIFICATION Spec
CONSTANTS
  Callers = {c1, c2}
  c1 = c1
  c2 = c2
  NumBlocks = 3
  MaxBlocks = 3
  MaxConcurrency = 1
  SharedDir = FALSE
  MayCancel = TRUE
SYMMETRY Symmetry
INVARIANTS
  TypeOK
  RegistryMatchesTasks
  SingleFlight
  NoLostWakeup
  SlotsConserved
  ReadsFindTheirBlocks
PROPERTIES
  ServedForLifetime
  ImplementsReadThrough
