SPECIFICATION FairSpec
CONSTANTS
  NBlocks = 4
  Truncated = TRUE
  WorkCap = 1
  DetailCap = 4
  DetailLimit = 2
  SpareBlocks = 2
  Views <- CloseViews
  MaxMoves = 2
  NoBlock = NoBlock
PROPERTIES
  DetailArrives
