SPECIFICATION Spec
CONSTANTS
  m1 = m1
  m2 = m2
  o1 = o1
  o2 = o2
  None = None
  Matches = {m1}
  Jobs = {m1}
  SeverityOf <- MCSeverityOf
  Operators = {o1, o2}
  Window = 1
  Skew = 0
  MaxAttempts = 2
  MaxTime = 0
  MaxFaults = 0
  MaxEdits = 2
PROPERTIES
  MovesAreAllowed
CHECK_DEADLOCK FALSE
