\* One file opened with truncate: is every message kept?
SPECIFICATION Spec
CONSTANTS
  app = app
  err_ = err_
  Paths <- MCPaths
  Sizes <- MCSizes
  Opens <- MCTruncOpens
  LevelChoices <- MCLevelChoices
  MaxCalls = 2
INVARIANT GoodIsComplete
