SPECIFICATION FairSpec
CONSTANTS
  Processes <- OneProcess
  Root = "p1"
  Threads <- MainAndWorker
  ProcOf <- ProcOfWorker
  MainOf <- MainOfOne
  Functions = {"f", "g"}
  Monitored = {"f"}
  BufSize = 3
  Options <- MainOptions
  Forkers = {}
  Togglers = {}
  Toggled <- OnlyLater
  Exiters = {"m1","w1"}
  Killable = {"p1"}
  MaxDepth = 2
  MaxEvents = 5
  NoThread = NoThread
  NoFn = NoFn
INVARIANTS
  TypeOK
  BufferBound
  MonitorCount
  MonitorGate
  StackRebuilt
  MutualExclusion
  Framed
  ReadsBack
PROPERTIES
  FlushCompletes
  ExitCompletes
