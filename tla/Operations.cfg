SPECIFICATION MCSpec
CONSTANTS
  u1 = u1
  f1 = f1
  Users <- OneUser
  Families <- OneFamily
  Owner <- OwnedByOne
  MaxTokens = 3
  LastTick = 2
  Grace = 1
  Lifetime = 2
  Requests = {r1, r2}
  Attempts = {"x", "y"}
  MaxFailed = 2
  LockTicks = 2
  LastInstant = 3
  Pages = {"a1", "a2", "b1"}
  Origin <- MCOrigin
  Disallowed = {"a2"}
  RespectRobots = TRUE
  MinInterval = 2
  Retries = 1
  LastMoment = 3
  MaxWeather = 1
  Tasks = {"t1", "t2"}
  Suggested = {"k1", "k2"}
  Canonical = {"c1"}
  Reviewers = {"v1", "v2"}
  MaxCandidates = 2
  Bundles = {"b"}
  Bodies = {"screenshot", "html", "terms"}
  Calls = {"i1", "i2", "u", "r", "n"}
  KindOf <- MCKindOf
  NaturalOf <- MCNaturalOf
  DbRetries = 1
  Processes = {"p", "q"}
  MaxQueued = 2
  LastDeployment = 3
  Sources = {s1}
  Statuses <- MCStatuses
  LastDay = 2
  MaxAlerts = 2
  PageSize = 1
SYMMETRY InFlight
INVARIANTS EndedStaysEnded LockIsWorthIt PolitenessKept WorkIsComplete
  EvidenceIsSound RetriesAreHonest QueuedBudgetKept
PROPERTIES TabsStayIn TroubleIsShown
\* Every part ends: calls are answered, numbers and days run out.
CHECK_DEADLOCK FALSE
