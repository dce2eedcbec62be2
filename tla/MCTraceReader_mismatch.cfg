\* The check of BuildStree that an exit belongs to the entry it is paired with.
SPECIFICATION Spec
CONSTANTS
  f = f
  g = g
  Functions <- MCFunctions
  Capacity = 2
  NRec = 2
  MaxBlocks = 2
  MaxDepth = 2
  NoFn = NoFn
PROPERTIES
  ExitMatchesEntry
