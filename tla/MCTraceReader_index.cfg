\* How blocks become an index of call stacks, and what its tree denotes.
SPECIFICATION Spec
CONSTANTS
  f = f
  g = g
  Functions <- MCFunctions
  Capacity = 2
  NRec = 3
  MaxBlocks = 3
  MaxDepth = 2
  NoFn = NoFn
SYMMETRY MCSymmetry
INVARIANTS
  TypeOK
  StackDenotes
  TreeDenotes
  PanicOnlyWithGaps
