SPECIFICATION MCSpec
CONSTANTS
  DealRows <- MCDealRows
  SourceRows <- MCSourceRows
  EvidenceRows <- MCEvidenceRows
  Latest = 2
  FetchCap = 2
  MaxDeals = 3
  Ids = {1, 2}
  Owners = {"s", "t"}
  Actors = {"x", "y"}
  Instants = {1, 2, 3}
  DayLength = 2
  Costs = {1, 2}
  Cent = 4
  Captured <- MCCaptured
  MaxRows = 2
  UserRows <- MCUserRows
  RoleRows <- MCRoleRows
  SystemRoles <- MCSystemRoles
  Grants = {"p"}
  Names <- MCNames
  MaxCount = 1
INVARIANTS DoubleAgrees CapIsHarmless
\* A constraint of Postgres that refuses a row ends the comparison.
CHECK_DEADLOCK FALSE
