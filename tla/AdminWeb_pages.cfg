\* Three rows, two logins, one request in flight; pages of one and two rows, none, or all.
SPECIFICATION Spec
CONSTANTS
  Tabs = {t1}
  shop = shop
  blog = blog
  Limits <- MCLimits
  Pages <- MCPages
  MaxRows = 3
  DbName <- MCDbName
  Searches <- MCSearches
  MaxRepeats = 1
  TTL = 0
  MaxTime = 1
  MaxLogins = 2
INVARIANTS WalkMissesNothing
PROPERTIES AdmittedIsLive PageNotEmpty
CHECK_DEADLOCK FALSE
