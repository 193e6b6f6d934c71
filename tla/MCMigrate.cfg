SPECIFICATION FairSpec
CONSTANTS
  Runners = {r1, r2}
  N = 2
  TTL = 2
  WAIT = 1
  POLL = 1
  Stores = {"d1", "do"}
  MaxFaults = 2
INVARIANTS
  OnceUnlessDisturbed
  OrderKept
  AppliedMeansDone
PROPERTIES
  AppliedIsForever
  EverythingApplied
