SPECIFICATION Spec
CONSTANTS
  Callers = {c1, c2, c3}
  Spaces = {s1, s2, s3}
  Handles = {h1, h2, h3}
  Limit = 2
  MaxWaiters = 1
INVARIANTS
  OneWorker
PROPERTIES
  NobodyWaitsForEver
