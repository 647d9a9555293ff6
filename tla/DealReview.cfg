SPECIFICATION Spec
CONSTANTS
  Deals = {d1}
  Captures = {c1}
  Keys = {k1, k2}
  Urls = {u1}
  Hashes = {h1}
  Reviewers = {r1, r2}
  Anonymous = blank
  Lanes = {l1}
  Acts <- AllActs
  NoOne = noOne
  LostAcks = TRUE
SYMMETRY Ids
INVARIANTS TypeOK AuditedDecision HumanEditsAudited EvidenceBacked
PROPERTY LifecycleKept
CHECK_DEADLOCK FALSE
