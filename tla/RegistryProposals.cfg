SPECIFICATION Spec
CONSTANTS
  Urls <- TwoUrls
  Domains = {g1}
  DomainOf <- OneDomain
  Ids = {i1, i2}
  Proposers = {p1, p2}
  Reviewers = {r1}
  Acts <- AllActs
  Crawls = {}
  Monitors = {}
  Seeds <- OneUrl
  u1 = u1
  u2 = u2
  g1 = g1
SYMMETRY IdSymmetry
PROPERTY KnownIsNotProposed
CHECK_DEADLOCK FALSE
