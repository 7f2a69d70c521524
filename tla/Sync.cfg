SPECIFICATION Spec
CONSTANTS
  FileSize = 5
  BlockSize = 2
  NumOthers = 1
  Caps = {2, 4, 7}
  TouchInterval = 2
  MaxTime = 3
  PrefetchRanges <- Ranges
INVARIANTS
  TypeOK
  BlocksHoldTheirBytes
  ReadsReturnTheFile
  FewestRequests
  CountIsExact
  FetchedBlocksStay
PROPERTIES
  LruWithinInterval
  CapHoldsUpToProtected
  ImplementsReadThrough
