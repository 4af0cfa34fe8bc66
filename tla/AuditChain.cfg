SPECIFICATION Spec
CONSTANTS
  w1 = w1
  w2 = w2
  w3 = w3
  siteA = siteA
  taskA = taskA
  siteB = siteB
  user = user
  orgA = orgA
  orgB = orgB
  None = None
  Writers = {w1, w2, w3}
  Entities = {siteA, siteB, user}
  Detached = {user}
  Chains = {orgA, orgB}
  ChainOf <- MCChainOf
  MaxAttempts = 3
  MaxWrites = 2
  MaxSequence = 2
SYMMETRY WriterSymmetry
INVARIANTS ChainIntact AuditMatchesData
