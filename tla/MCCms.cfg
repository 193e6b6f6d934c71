SPECIFICATION CmsSpec
CONSTANTS
  blank = blank
  c1 = c1
  c2 = c2
  Pages = {1}
  Contents <- MCContents
  Complete <- MCComplete
  MaxTime = 2
  MaxRevs = 3
  MaxPlans = 2
  Rows = {1}
  Values = {1, 2}
  MaxInstant = 3
  MaxScheduled = 2
  MaxEdits = 4
  Ids = {1, 2, 3}
  Editors = {1}
  Slugs = {1, 2}
  Locales = {1, 2}
  Reserved = {2}
  MaxVersion = 2
  BlockPages = {1, 2}
  Regions = {"main", "aside"}
  BlockIds = {1, 2}
  Types = {"text"}
  Allows <- MCAllows
  Defaults <- MCDefaults
  MaxPlaced = 3
  MaxPosition = 2
INVARIANTS
  ServedIsLicensed
  SchedulesAreKept
  RowsAreKept
  PagesAreWhole
SYMMETRY Symmetry
CHECK_DEADLOCK FALSE
