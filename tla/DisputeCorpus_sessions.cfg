SPECIFICATION FairSpec
CONSTANTS
  Feed <- MCFeed
  PageSize = 2
  Limit = 4
  Category = {c1}
  NoCategory = NoCategory
  NoVector = NoVector
  ZeroVector = ZeroVector
  Scraper = {s1, s2}
  Seeder = {d1}
  Backfill = {b1}
  Labeler = {l1}
  EmbedLimit = 2
  BatchSize = 1
  MaxFaults = 1
INVARIANTS VectorsMatch
PROPERTIES LabelsStay ScrapedIsStored EventuallyEmbedded
CHECK_DEADLOCK FALSE
