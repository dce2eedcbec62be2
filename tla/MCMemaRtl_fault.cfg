SPECIFICATION Spec
CONSTANTS
  Processes <- OneProcess
  Root = "p1"
  Threads <- MainAndWorker
  ProcOf <- ProcOfWorker
  MainOf <- MainOfOne
  Functions = {"f"}
  Monitored = {"f"}
  BufSize = 2
  Options <- AllOrRaw
  Forkers = {}
  Togglers = {}
  Toggled <- OnlyLater
  Exiters = {"m1","w1"}
  Killable = {"p1"}
  MaxDepth = 1
  MaxEvents = 2
  NoThread = NoThread
  NoFn = NoFn
INVARIANTS
  NoFault
