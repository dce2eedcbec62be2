SPECIFICATION Spec
CONSTANTS
  Processes <- TwoProcesses
  Root = "p1"
  Threads <- BothMains
  ProcOf <- ProcOfMains
  MainOf <- MainOfTwo
  Functions = {"f"}
  Monitored = {"f"}
  BufSize = 3
  Options <- ForkOptions
  Forkers = {"m1"}
  Togglers = {}
  Toggled <- OnlyLater
  Exiters = {"m1","m2"}
  Killable = {"p1"}
  MaxDepth = 1
  MaxEvents = 2
  NoThread = NoThread
  NoFn = NoFn
INVARIANTS
  Framed
