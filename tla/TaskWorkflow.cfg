SPECIFICATION FairSpec
CONSTANTS
  op = op
  co1 = co1
  a1 = a1
  None = None
  Requests = {op, co1}
  Commanders = {co1}
  Assets = {a1}
  MaxEvents = 5
INVARIANTS ReplayFaithfulUnlessGap
PROPERTIES TransitionsAnswered
