SPECIFICATION Spec
CONSTANTS
  NEvents = 2
  BufSize = 3
  Atoms = {8, 9}
  Types <- OneType
  SizeOf <- FourBytes
  Instrs <- TwoInstrs
  EntryOf <- Entries
  IRStmts <- SomeStmts
  Preambles <- SomePreambles
  FnNames = {"g"}
  SizeWrites = {TRUE}
  MaxWork = 5
  NoName = NoName
INVARIANTS
  TypeOK
  LogOfRun
  CountsRight
  DetailsRight
  EndedWhole
PROPERTIES
  ImplementsTraceLog
