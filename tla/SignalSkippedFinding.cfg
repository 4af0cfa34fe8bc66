SPECIFICATION CursorSpec
CONSTANTS
  t1 = t1
  t2 = t2
  Ticks = {t1, t2}
  Signals = {1, 2}
  Observation <- MCObservation
  Limit = 2
  Lookback = 3
  MaxClock = 3
  MaxFailures = 0
INVARIANTS
  NoSignalSkipped
