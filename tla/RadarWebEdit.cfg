SPECIFICATION WebSpec
CONSTANTS
  NoText = NoText
  Name = {"n1", "n2"}
  Description = {"d1", "d2"}
  MaxTopic = 2
  Match = {1, 2}
  TopicOp = {1, 2}
  MatchesPageSize = 1
  Budgets <- EditBudgets
  Url = {"u1", "u2", "u3", "u4"}
  Setting = {"new", "edited"}
  NewSetting = "new"
  MaxUserFeeds = 1
  Shared = "u2"
  Before = "u1"
  MaxFeed = 4
  Call = {1, 2}
  SourceBudgets <- EditSourceBudgets

PROPERTY SavedIsEmbedded
CHECK_DEADLOCK FALSE
