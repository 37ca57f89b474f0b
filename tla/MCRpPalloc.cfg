SPECIFICATION Spec
CONSTANTS
  BlockSize = 88
  PageSize = 4096
  GiveUpAfter = 0
  ScanLimit = 0
  MaxBlocks = 4
  Chunk = {c1, c2}
  Null = null
  Sizes = {15, 32}
SYMMETRY ChunkSymmetry
INVARIANTS
  TypeOK
  RegionsDisjoint
  LargeOwned
  TiredSkipped
