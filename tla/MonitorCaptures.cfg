SPECIFICATION SceneSpec
CONSTANTS
  Monitors = {m1, m2}
  Cron = {m1}
  Crawlers = {}
  Ids <- TwoIds
  Home = u1
  Urls = {u1}
  Hashes = {h1, h2}
  Empty = {}
  RelMax = 1
  RelUp = 1
  RelDown = 1
  OnDemand = FALSE
  MaxFlips = 2
  MaxFaults = 1
  NoUrl = noUrl
INVARIANT TypeOK
PROPERTIES ExpiryDebounced ContentIsCaptured
CHECK_DEADLOCK FALSE
