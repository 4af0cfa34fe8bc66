SPECIFICATION SessionFairSpec
CONSTANTS
  Slots = {q1, q2}
  MaxSessions = 2
  MaxErrors = 1
  MaxReloads = 1
  NoSession = NoSession
INVARIANTS SignedOutStaysOut
PROPERTIES ExpiryNoticed
CHECK_DEADLOCK FALSE
