SPECIFICATION CursorFairSpec
CONSTANTS
  t1 = t1
  t2 = t2
  Ticks = {t1, t2}
  Signals = {1, 2, 3}
  Observation <- MCObservation
  Limit = 2
  Lookback = 1
  MaxClock = 2
  MaxFailures = 1
INVARIANTS OnTimeSignalsEvaluated
PROPERTIES OnTimeSignalsGetEvaluated
