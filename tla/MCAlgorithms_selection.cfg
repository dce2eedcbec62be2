SPECIFICATION SelectionSpec
CONSTANTS
  Inputs <- SomeInputs
  Hash <- ThreeBuckets
  Spare <- ExactOrRoom
  MinMatch = 3
  LastLiterals = 2
  CopyLength = 5
  OffsetBase = 2
  MaxByte = 3
  Mask = 5
  SkipStrength = 4
  Slack = 6
  PageSize = 2
  Word = 16
  PerBlock = 3
  Rows = 4
  Nback = 16
  FirstNback = 10
INVARIANTS
  OffAtFirst
