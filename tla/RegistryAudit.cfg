SPECIFICATION Spec
CONSTANTS
  Urls <- OneUrl
  Domains = {g1}
  DomainOf <- OneDomain
  Ids = {i1, i2, i3}
  Proposers = {p1}
  Reviewers = {r1, r2}
  Acts <- AllActs
  Crawls = {c1}
  Monitors = {m1}
  Seeds <- OneUrl
  u1 = u1
  u2 = u2
  g1 = g1
SYMMETRY IdSymmetry
INVARIANTS DecisionAudited CrawledIsApproved
PROPERTY RejectionRespected
CHECK_DEADLOCK FALSE
