SPECIFICATION FairSpec
CONSTANTS
  Pages <- MCPages
  Watched <- MCWatched
  Ops <- MCOps
  Now = 3
  Zone = 0
  MaxWrites = 1
  MaxFaults = 1
INVARIANTS ToldIsShown ShownMatchesPosition
PROPERTIES PolledCatchesUp
CHECK_DEADLOCK FALSE
