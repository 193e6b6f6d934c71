SPECIFICATION SiteSpec
CONSTANTS
  Slugs = {"a", "b"}
  Defs = {1, 2}
  Owners = {"app", "pkg"}
  Deploys = {1, 2}
  Decl <- MCDecl
  Isolates = {iso1, iso2}
  MaxIds = 2
  TaxIds = {1, 2}
  TermIds = {1, 2, 3}
  Things = {"page", "media"}
  MaxTermDepth = 2
  Screens = {1}
  Pages = {1}
  MaxMenuDepth = 2
  MaxMenuItems = 2
  MaxMenus = 2
  MaxVersion = 3
  RowIds = {1, 2}
  PathNames = {1, 2}
  Keyed = {1, 2, 3}
  Keys <- MCKeys
  NullKey <- MCNullKey
  Orders <- MCOrders
  Limits = {1, 2}
  MaxTouches = 2
  Parents = {p1, p2}
  Related = {t1}
  Null = null
  ParentPolicies = {"all", "openRows", "noFk", "fkWhenOpen"}
  TargetPolicies = {"none", "all", "openRows", "noFk", "fkWhenOpen"}
  LinkPolicies = {"none", "all", "openRows", "noFk"}
  Marks = {"a", "b"}
  Off = Off
  iso1 = iso1
  iso2 = iso2
INVARIANTS
  TermsAreSound
  NoRedirectReturns
PROPERTIES
  ReadsAreWhole
  FurnitureIsTrue
  TypesAreKept
SYMMETRY Symmetry
CHECK_DEADLOCK FALSE
