SPECIFICATION Spec
CONSTANTS
  Ids = {t1, t2}
  NoId = NoId
  Keys = {k1}
  NoKey = NoKey
  Drainers = {d1, d2}
  MAX_ATTEMPTS = 2
  STALE_MS = 1
  DONE_RETENTION_MS = 0
  BackoffUnit = 1
  BackoffCap = 1
  Limit = 2
  Delays = {0}
  MaxClock = 2
  HoldMax = 2
  RunMax = 2
  SlowDb = TRUE
  Faulty = FALSE
INVARIANTS
  OneRowPerKey
  NoLostTask
  NotGivenUpEarly
SYMMETRY Symmetry
CHECK_DEADLOCK FALSE
