SPECIFICATION Spec
CONSTANTS
  Ids = {t1, t2}
  NoId = NoId
  Keys = {k1}
  NoKey = NoKey
  Drainers = {d1, d2}
  MAX_ATTEMPTS = 2
  STALE_MS = 2
  DONE_RETENTION_MS = 0
  BackoffUnit = 1
  BackoffCap = 1
  Limit = 2
  Delays = {0}
  MaxClock = 2
  HoldMax = 1
  RunMax = 2
  SlowDb = TRUE
  Faulty = TRUE
INVARIANTS
  ExclusiveClaims
  OnceUnlessDisturbed
PROPERTIES
  ImplementsDelivery
SYMMETRY Symmetry
CHECK_DEADLOCK FALSE
