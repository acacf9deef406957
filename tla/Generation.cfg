CONSTANTS
  a1 = a1
  a2 = a2
  home = home
  None = None
  Attempts = {a1, a2}
  Spaces = {home}
  SpaceOf <- MCSpaceOf
  Buffer = 2
  Limit = 9
  Calls = {0, 1}
  Scripts <- MCScripts
  Fickle = {a1}
  Files = {1, 2, 3}
  NoNode = NoNode
  Tokens <- TokensDef
  SourceLimit = 1
  HubThreshold = 1
  PerHub = 1
  PerSource = 2
  ExpansionTotal = 2
  Patches <- PatchesDef
  Written <- WrittenDef
  Existing <- ExistingDef
  Rebuilds = {r1, r2}
  BatchSize = 1
  MemorySources = 1
  MemoryHub = 1
  PerMemoryHub = 1
  PerMemory = 2
  MemoryTotal = 2
  Overhead = 1
  Margin = 1
  MaxImages = 2
  Said <- SaidDef
  Memories <- MemoriesDef
  Current <- CurrentDef
  Queries <- QueriesDef
  Budgets = {8, 20}
  Requests <- RequestsDef
  MaxSpent = 9
SPECIFICATION MCSpec
INVARIANTS StreamExact OneGeneration
PROPERTIES CancelStops EndsTold RecallExact CanonProtected IndexIsSnapshot ContextExact
CHECK_DEADLOCK FALSE
