SPECIFICATION FairSpec
CONSTANTS
  Callers = {c1, c2}
  c1 = c1
  c2 = c2
  NumBlocks = 2
  MaxBlocks = 1
  MaxConcurrency = 1
  SharedDir = TRUE
  MayCancel = TRUE
INVARIANTS
  SingleFlight
  NoLostWakeup
PROPERTIES
  EveryCallReturns
  EveryFetchEnds
