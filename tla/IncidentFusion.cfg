SPECIFICATION FairSpec
CONSTANTS
  m1 = m1
  m2 = m2
  o1 = o1
  o2 = o2
  None = None
  Matches = {m1, m2}
  Jobs = {m1}
  SeverityOf <- MCSeverityOf
  Operators = {o1}
  Window = 1
  Skew = 1
  MaxAttempts = 2
  MaxTime = 2
  MaxFaults = 2
  MaxEdits = 2
INVARIANTS NoParallelOpening SeverityIsHighest
CHECK_DEADLOCK FALSE
