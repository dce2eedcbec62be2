SPECIFICATION Spec
CONSTANTS
  Processes <- OneProcess
  Root = "p1"
  Threads <- MainOnly
  ProcOf <- ProcOfMain
  MainOf <- MainOfOne
  Functions = {"f", "g"}
  Monitored = {"f"}
  BufSize = 3
  Options <- OnlyMatch
  Forkers = {}
  Togglers = {}
  Toggled <- OnlyLater
  Exiters = {"m1"}
  Killable = {"p1"}
  MaxDepth = 2
  MaxEvents = 5
  NoThread = NoThread
  NoFn = NoFn
INVARIANTS
  MonitoredStack
