SPECIFICATION FairAppSpec
CONSTANTS
  x1 = x1
  x2 = x2
  x3 = x3
  y1 = y1
  y2 = y2
  y3 = y3
  Parts = {"alarm", "boot", "wire", "canvas"}
  SchemaStore = "d1"
  Off = Off
  Tasks = {y1}
  NoTask = NoTask
  Delays <- MCDelays
  Losses <- MCLosses
  MaxCrash = 1
  Invocations = {x1, x2}
  STALE = 2
  WORK = 2
  WaitUntil = {x1, x2}
  Subs = {y1}
  Tokens = {k1}
  NoToken = NoToken
  NoSocket = NoSocket
  CanvasInFlight = 2
  NoListener = NoListener
  NoQuery = NoQuery
  NoPage = NoPage
PROPERTIES
  WorkGetsDone
  UsersAreHeard
CHECK_DEADLOCK FALSE
