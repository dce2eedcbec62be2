SPECIFICATION Spec
CONSTANTS
  Processes <- TwoProcesses
  Root = "p1"
  Threads <- BothMains
  ProcOf <- ProcOfMains
  MainOf <- MainOfTwo
  Functions = {"f"}
  Monitored = {"f"}
  BufSize = 3
  Options <- ForkOptions
  Forkers = {"m1"}
  Togglers = {"m2"}
  Toggled <- OnlyLater
  Exiters = {"m1","m2"}
  Killable = {"p1"}
  MaxDepth = 1
  MaxEvents = 3
  NoThread = NoThread
  NoFn = NoFn
INVARIANTS
  NothingLost
  ExitLosesNothing
  MonitorGate
PROPERTIES
  ImplementsTraceLog
