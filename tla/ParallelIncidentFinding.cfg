SPECIFICATION Spec
CONSTANTS
  m1 = m1
  m2 = m2
  o1 = o1
  o2 = o2
  None = None
  Matches = {m1, m2}
  Jobs = {m1, m2}
  SeverityOf <- MCSeverityOf
  Operators = {o1}
  Window = 1
  Skew = 1
  MaxAttempts = 1
  MaxTime = 1
  MaxFaults = 0
  MaxEdits = 0
INVARIANT SecondAttaches
CHECK_DEADLOCK FALSE
