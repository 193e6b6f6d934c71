SPECIFICATION Spec
CONSTANTS
  Ids = {t1, t2, t3}
  NoId = NoId
  Keys = {}
  NoKey = NoKey
  Drainers = {d1, d2}
  MAX_ATTEMPTS = 2
  STALE_MS = 2
  DONE_RETENTION_MS = 1
  BackoffUnit = 1
  BackoffCap = 1
  Limit = 3
  Delays = {0}
  MaxClock = 3
  HoldMax = 3
  RunMax = 1
  SlowDb = FALSE
  Faulty = FALSE
INVARIANTS
  OnceUnlessDisturbed
SYMMETRY Symmetry
CHECK_DEADLOCK FALSE
