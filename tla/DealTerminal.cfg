SPECIFICATION Spec
CONSTANTS
  Deals = {d1}
  Captures = {c1}
  Keys = {k1}
  Urls = {u1}
  Hashes = {h1}
  Reviewers = {r1, r2}
  Anonymous = blank
  Lanes = {l1}
  Acts <- AllActs
  NoOne = noOne
  LostAcks = FALSE
SYMMETRY Ids
PROPERTY TerminalNeverRedecided
CHECK_DEADLOCK FALSE
