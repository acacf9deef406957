SPECIFICATION MCSpec
CONSTANTS
  scene = scene
  lore = lore
  initial = initial
  text = text
  absent = absent
  c1 = c1
  c2 = c2
  nobody = nobody
  Paths <- MCPaths
  GraphPaths <- MCGraphPaths
  Required <- MCRequired
  Bodies <- MCBodies
  Default <- initial
  Absent <- absent
  Clients <- MCClients
  Nobody <- nobody
  Ops <- MCOps
  Found <- MCFound
  MailboxCap = 1
  MaxCalls = 2
  MaxFaults = 1
  MaxEdits = 1
  RacyEdits = TRUE
INVARIANTS
  CopiesAgree
PROPERTIES
  EditsBackedUp
  ImplementsSpace
  EveryCallAnswered
CHECK_DEADLOCK FALSE
