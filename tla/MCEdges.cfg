SPECIFICATION EdgesSpec
CONSTANTS
  Folders = {"media", "none"}
  FileTypes <- MCFileTypes
  Sizes = {0, 1, 3}
  Numbers <- MCNumbers
  MaxBytes = 3
  MaxVersions = 3
  MaxUrls = 1
  BlobKeys = {"k1", "k2"}
  Ids = {1, 2}
  Uploaders = {1, 2}
  MediaTypes = {"null", "word", "zip"}
  MaxUploads = 2
  Stores = {"do", "d1"}
  Pages = {p1, p2}
  File = f
  MaxEdits = 2
  Users = {u1}
  Rows = {"page"}
  Never = Never
  SessionTtl = 2
  DefaultTtl = 2
  Cap = 4
  RaisedTtl = 3
  MaxTime = 3
  MaxLinks = 1
  Configs <- MCConfigs
  Viewers <- MCViewers
  Sendable <- MCSendable
  Words = {"v", "w", "d"}
  OptionSources = {"lookup"}
  Limits <- MCLimits
  MaxListed = 1
  MaxSchedule = 2
  MaxDate = 4
  MaxInstant = 1
  MaxCalls = 4
  Envs <- MCEnvs
  Tokens <- MCTokens
  Handlers <- MCHandlers
  Tenants = {"main", "t1"}
  Partitions = {"default", "log"}
  MaxWrites = 3
  MaxSent = 2
INVARIANTS
  RequestsAreBound
  BytesAreKept
  ReadsAreLicensed
  CollectionsKeepTheirWord
SYMMETRY Symmetry
CHECK_DEADLOCK FALSE
