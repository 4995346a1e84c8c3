SPECIFICATION FairSpec
CONSTANTS
  f1 = f1 a = a b = b t1 = t1 t2 = t2 u1 = u1 u2 = u2 j1 = j1 j2 = j2
  Feed = {f1}
  Item = {a}
  Topic = {}
  User = {}
  ScheduleJob = {s1}
  CrawlJob = {j1}
  NoText = {}
  Similar <- AllSimilar
  FeedOwner <- CatalogFeed
  TopicOwner <- OneReader
  Catalog = Catalog NoTag = NoTag NoFeed = NoFeed NoItem = NoItem
  SendsETag = {f1}
  BatchSize = 1
  MaxWorkers = 1
  MaxAttempts = 2
  MaxFaults = 1
PROPERTY EveryFindingEmbedded
