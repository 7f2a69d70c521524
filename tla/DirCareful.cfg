SPECIFICATION Spec
CONSTANTS
  Stores = {s, t, i}
  s = s
  t = t
  i = i
  Immutable = {i}
  NumBlocks = 2
  NumVersions = 2
  BlockSizes = {1, 2}
  WipesUndisturbed = TRUE
INVARIANTS
  TypeOK
  OpenDirIsRight
  NoWipeUnderReaders
