SPECIFICATION FairSpec
CONSTANTS
  NBlocks = 3
  Truncated = FALSE
  WorkCap = 1
  DetailCap = 3
  DetailLimit = 2
  SpareBlocks = 3
  Views <- LastViews
  MaxMoves = 4
  NoBlock = NoBlock
INVARIANTS
  TypeOK
  BlocksInOrder
  OneRequest
  TextureHasVertices
  TextureOnce
PROPERTIES
  AllLoaded
  DetailArrives
