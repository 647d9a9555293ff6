SPECIFICATION ServedSpec
CONSTANTS
  Monitors = {m1}
  Crawlers = {c1}
  Ids <- OneIds
  Home = u1
  Urls = {u1, u2}
  Hashes = {h1}
  Empty = {}
  RelMax = 0
  RelUp = 0
  RelDown = 0
  OnDemand = FALSE
  MaxFlips = 2
  MaxFaults = 1
  NoUrl = noUrl
PROPERTY GoneIsRetired
CHECK_DEADLOCK FALSE
