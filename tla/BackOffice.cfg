SPECIFICATION OfficeSpec
CONSTANTS
  reference = reference
  meters = meters
  METERS = METERS
  notice = notice
  j1 = j1
  j2 = j2
  boss = boss
  ann = ann
  k1 = k1
  p1 = p1
  r1 = r1
  r2 = r2
  e1 = e1
  e2 = e2
  s1 = s1
  s2 = s2
  none = none
  absent = absent
  missing = missing
  nobody = nobody
  forever = forever
  noModel = noModel
  Fixed = {reference}
  Tables = {meters, METERS}
  Documents = {notice}
  Header <- MCHeader
  Signature <- MCSignature
  Customers = {METERS}
  Requests = {r1, r2}
  MaxItems = 2
  Names = {1, 2}
  Good = {"good"}
  Empty = {"empty"}
  Bad = {"bad"}
  Unwritable = {"dated"}
  MaxFaults = 2
  Jobs = {j1, j2}
  ExportBatch = 2
  MaxVersions = 1
  MaxMishaps = 2
  Users = {boss, ann}
  FirstAdmin = boss
  Updates = {r1, r2}
  Keys = {k1}
  Logins = {r1, r2}
  LoginLimit = 2
  LoginWindow = 2
  MaxLapses = 1
  Entries = {e1, e2}
  SiteRows = {s1, s2}
  Labels = {"a", "b"}
  AssetKinds = {"grid_interconnection", "battery"}
  Plants = {p1}
  Proposed <- MCProposed
  Custom <- MCCustom
  Gains = {0, 10}
  Floor = 2
  MaxHours = 2
  Horizon = 2
  MaxKw = 2
  Ratings <- MCRatings
  Limits <- MCLimits
  Power = 1
  SocMin = 0
  SocMax = 1
  Gain = 1
  Drain = 1
  Socs <- MCSocs
  Derates <- MCDerates
  ShedPct = 50
  MinActionable = 0
INVARIANTS ReviewedFirst OneGrid ModelInForce FailsForCause EnvelopeHolds
PROPERTIES DecidedOnce AdminStays EveryFileTaken JobsEnd LockoutEnds
CHECK_DEADLOCK FALSE
