SPECIFICATION Spec
CONSTANTS
  alice = alice
  bob = bob
  r1 = r1
  free = free
  Free <- free
  Conversation <- MCConversation
  Disabled <- MCDisabled
  Clears <- MCClears
  Reviews = {}
  MaxTurns = 1
  Threshold = 1
  Lanes = {"memory"}
  MaxClears = 1
  MaxFaults = 0
INVARIANTS
  NoResurrection
