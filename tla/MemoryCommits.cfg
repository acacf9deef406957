SPECIFICATION MCSpec
CONSTANTS
  alice = alice
  bob = bob
  r1 = r1
  free = free
  Free <- free
  Conversation <- MCConversation
  Disabled <- MCDisabled
  Clears <- MCClears
  Reviews = {r1}
  MaxTurns = 2
  Threshold = 1
  Lanes = {"memory", "semantic_graph"}
  MaxClears = 1
  MaxFaults = 1
INVARIANTS
  RecoveryComplete
  ConsolidatedOnce
  ClearIsFinal
PROPERTIES
  StopIsFinal
