SPECIFICATION Spec
CONSTANTS
  home = home
  away = away
  x1 = x1
  x2 = x2
  dark = dark
  Nowhere = nowhere
  Default = default
  Startup = startup
  Spaces = {home, away}
  Docs <- MCDocs
  Rows = {x1, x2}
  Values = {dark}
  Operations = {o1, o2}
  Clients = {c1}
  Writers = {w1}
  Controls = {k1}
  FirstFiles <- MCFirstFiles
  FirstRows <- MCFirstRows
  FirstOverrides <- MCFirstOverrides
  MaxFaults = 1
  MaxCalls = 3
  MaxRevision = 1
INVARIANTS
  RemovalComplete
  NothingLost
PROPERTIES
  SettingsPublished
  RemovalAnswered
CHECK_DEADLOCK FALSE
