SPECIFICATION MCSpec
CONSTANTS
  u1 = u1
  u2 = u2
  Users <- TwoUsers
  Admin = u1
  Roles <- ThreeRoles
  AdminRole = "admin"
  ReviewerRole = "reviewer"
  Perms <- Critical
  ReviewerPerms = {}
  Requests = {q1, q2}
  Mints = {m1}
  Acts <- AllActs
  MaxVersion = 1
  MaxTokens = 1
  MaxBypassed = 1
  MaxFaults = 1
SYMMETRY InFlight
INVARIANTS AdministrationSurvives TokensFollowUser TokensFollowGrants
CHECK_DEADLOCK FALSE
