SPECIFICATION Spec
CONSTANTS
  Monitors = {m1}
  Crawlers = {}
  Ids <- TwoIds
  Home = u1
  Urls = {u1}
  Hashes = {h1, h2}
  Empty = {}
  RelMax = 2
  RelUp = 1
  RelDown = 1
  OnDemand = TRUE
  MaxFlips = 2
  MaxFaults = 0
  NoUrl = noUrl
PROPERTY NewestIsBaseline
CHECK_DEADLOCK FALSE
