SPECIFICATION MCSpec
CONSTANTS
  blank = blank
  none = none
  MaxTurns = 4
  night = night
  storm = storm
  Requests = {q1, q2}
  Sources = {home}
  Managed = home
  Contents = {blank, night, storm}
  Nothing = blank
  Retrieved <- MCRetrieved
  Definitions = {d1, d2}
  Written = d1
  Nobody = free
  MaxChanges = 2
  MaxClears = 1
  MaxFaults = 1
INVARIANTS
  RevisionsIdentify
PROPERTIES
  JournalExact
  ProjectionSound
  RetriesComplete
CHECK_DEADLOCK FALSE
