SPECIFICATION MCSpec
CONSTANTS
  e1 = e1
  e2 = e2
  a = a
  b = b
  c = c
  x = x
  y = y
  r1 = r1
  r2 = r2
  p1 = p1
  k1 = k1
  k2 = k2
  ea = ea
  eb = eb
  ec = ec
  foreign = foreign
  Ids = {e1, e2}
  Contexts = {a, b}
  Importance <- MCImportance
  Bound <- MCBound
  Full = 2
  Archive = 2
  ForgetBelow = 1
  DecayAfter = 1
  ForgetAfter = 2
  MaxTurns = 4
  MaxWrites = 3
  MaxEffort = 11
  MaxTexts = 3
  MaxPrice = 6
PROPERTIES SharedRetention ForgottenUnreferenced ReadsVouched
CHECK_DEADLOCK FALSE
