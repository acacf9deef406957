SPECIFICATION Spec
CONSTANTS
  Requests = {r1, r2, r3}
  Spaces = {s1, s2}
PROPERTIES
  NoOvertaking
  ImplementsReservations
  EventuallyAdmitted
CHECK_DEADLOCK FALSE
