SPECIFICATION Spec
CONSTANTS
  f1 = f1 a = a b = b t1 = t1 t2 = t2 u1 = u1 u2 = u2 j1 = j1 j2 = j2
  Feed = {f1}
  Item = {a, b}
  Topic = {}
  User = {}
  ScheduleJob = {s1}
  CrawlJob = {j1, j2}
  NoText = {b}
  Similar <- AllSimilar
  FeedOwner <- CatalogFeed
  TopicOwner <- OneReader
  Catalog = Catalog NoTag = NoTag NoFeed = NoFeed NoItem = NoItem
  SendsETag = {f1}
  BatchSize = 1
  MaxWorkers = 2
  MaxAttempts = 1
  MaxFaults = 1
SYMMETRY CrawlSymmetry
INVARIANT ValidatorCovered
INVARIANT OneJobPerFinding
INVARIANT StrandedOnlyByFaults
