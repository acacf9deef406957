SPECIFICATION Spec
CONSTANTS
  Attempts = {a1, a2, a3}
  Requests <- MCRequests
  Titles = {"t", "u"}
  MaxFaults = 2
  MaxRenames = 1
SYMMETRY MCAttempts
INVARIANTS
  ClaimsKept
PROPERTIES
  ReplayStable
  ConvergesUnlessRevived
CHECK_DEADLOCK FALSE
