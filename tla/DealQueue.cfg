SPECIFICATION Spec
CONSTANTS
  Deals = {d1, d2, d3}
  Captures = {c1, c2, c3}
  Keys = {k1}
  Urls = {u1}
  Hashes = {h1, h2}
  Reviewers = {r1}
  Anonymous = blank
  Lanes = {l1, l2}
  Acts <- CrawlActs
  NoOne = noOne
  LostAcks = FALSE
SYMMETRY Ids
INVARIANTS NoOfferDropped QueueHasNoTwin
CHECK_DEADLOCK FALSE
