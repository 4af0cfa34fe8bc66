SPECIFICATION FairSpec
CONSTANTS
  rule = rule
  s1 = s1
  s2 = s2
  siteA = siteA
  siteB = siteB
  j1 = j1
  j2 = j2
  j3 = j3
  None = None
  Rules = {rule}
  Jobs = {j1, j3}
  RuleOf <- MCRuleOf
  SignalOf <- MCSignalOf
  SiteOf <- MCSiteOf
  Cooldown <- MCCooldown
  MaxAttempts = 3
  Skew = 1
  MaxTime = 3
  MaxFaults = 3
INVARIANTS CooldownRespected FireIsAtomic
PROPERTIES JobsSettle
CHECK_DEADLOCK FALSE
