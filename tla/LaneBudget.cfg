SPECIFICATION MCSpec
CONSTANTS
  Batches = {b1}
  Lanes <- AllLanes
  Ceiling = 3
  PerRun = 2
  CallMax = 1
  Search = 1
  ItemCap = 2
  MaxLinks = 6
  MaxNew = 2
  MaxQueries = 2
  MaxFeeds = 2
  LastDay = 1
  MaxFaults = 1
  Readings <- MCReadings
  Drafts <- MCDrafts
  Vocabularies <- MCVocabularies
  Patches <- MCPatches
  Normal <- MCNormal
  MaxPlausible = 100000
  Texts <- MCTexts
  Wrappings = {"bare", "fenced", "opened", "prose", "cut", "opened_cut"}
INVARIANTS TypeOK RunCostBounded DailyCeiling DailyCapIsHonest DiscoveryChargesAll NoRowDangles
  CleanIsSound CorrectionsAreTraced ReadingIsFaithful RepairIsFaithful
PROPERTY RunsEnd
CHECK_DEADLOCK FALSE
