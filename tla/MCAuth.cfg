SPECIFICATION AuthSpec
CONSTANTS
  c1 = c1
  c2 = c2
  b1 = b1
  b2 = b2
  Addrs = {1, 2}
  Username = 1
  LinkCalls = {c1, c2}
  Runners = {1}
  MaxMints = 2
  DoRequests = 2
  D1Requests = 1
  People = {1, 2}
  Handles = {3}
  Usernames = {1, 3, 11}
  Issuer = 10
  MaxOps = 6
  Browsers = {b1, b2}
  Attempts = {1, 2}
  Callbacks = {c1, c2}
  MaxCodes = 2
  MaxLoads = 2
  Client = "guessed"
  Registered = "post"
  Guess = "basic"
  NoTok = NoTok
  Store = "do"
  Calls = {1}
  EnvTtl = 1
  LinkTtl = 3
  Never = 0
  MaxTime = 6
INVARIANTS
  LinksAreSound
  SessionsAreSound
  SignInsAreSound
PROPERTIES
  AccountsAreOwn
ACTION_CONSTRAINT StepsOfInterest
SYMMETRY Symmetry
CHECK_DEADLOCK FALSE
