SPECIFICATION AppSpec
CONSTANTS
  x1 = x1
  x2 = x2
  x3 = x3
  y1 = y1
  y2 = y2
  y3 = y3
  Parts = {"alarm", "boot", "wire", "gate", "awaits", "canvas", "screen", "schema"}
  SchemaStore = "d1"
  Off = Off
  Tasks = {y1, y2}
  NoTask = NoTask
  Delays <- MCDelays
  Losses <- MCLosses
  MaxCrash = 1
  Invocations = {x1, x2, x3}
  STALE = 2
  WORK = 2
  WaitUntil = {x1, x2}
  Subs = {y1, y2}
  Tokens = {k1, k2}
  NoToken = NoToken
  NoSocket = NoSocket
  CanvasInFlight = 2
  NoListener = NoListener
  NoQuery = NoQuery
  NoPage = NoPage
INVARIANTS
  ServedMeansBooted
  ConnectionIsHeld
  SubscriptionsAreServed
  CanvasIsTrue
PROPERTIES
  NoDataAfterLapse
  AlarmCoversWork
  MigrationIsSafe
SYMMETRY Symmetry
CHECK_DEADLOCK FALSE
