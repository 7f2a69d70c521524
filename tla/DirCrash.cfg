SPECIFICATION Spec
CONSTANTS
  Stores = {s}
  s = s
  Immutable = {}
  NumBlocks = 2
  NumVersions = 2
  BlockSizes = {1}
  WipesUndisturbed = FALSE
INVARIANTS
  CrashSparesBlocks
