SPECIFICATION DataSpec
CONSTANTS
  Off = Off
  c1 = c1
  c2 = c2
  Parts = {"writes", "events", "fields"}
  PolicySets <- MCPolicies
  MaxDay = 2
  MaxEvents = 3
  Calls = {c1, c2}
  Rollers = {1}
  Stores = {"do", "d1"}
  Pruned = {"do"}
  RolledEarly = {"do"}
  KeepDays = 1
  Deaths = {"ingest", "roll"}
INVARIANTS
  DashboardIsTrue
  FieldsAreSound
PROPERTIES
  AccessIsGranted
SYMMETRY Symmetry
CHECK_DEADLOCK FALSE
