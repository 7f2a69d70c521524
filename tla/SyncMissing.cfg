SPECIFICATION Spec
CONSTANTS
  FileSize = 4
  BlockSize = 2
  NumOthers = 0
  Caps = {2}
  TouchInterval = 1
  MaxTime = 0
  PrefetchRanges <- Ranges
INVARIANTS
  CachedBlocksAreServed
