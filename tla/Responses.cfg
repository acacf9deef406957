SPECIFICATION Spec
CONSTANTS
  Attempts = {a1, a2, a3}
  Requests <- MCRequests
  Known = {"c0"}
  Fresh = {"n1", "n2", "n3"}
  MaxFaults = 2
SYMMETRY MCAttempts
INVARIANTS
  AnsweredOnce
  CancelExact
PROPERTIES
  TurnsKept
CHECK_DEADLOCK FALSE
