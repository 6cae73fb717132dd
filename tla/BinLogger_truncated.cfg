\* One file, truncated at the construction.
SPECIFICATION Spec
CONSTANTS
  app = app
  err_ = err_
  Paths <- MCPaths
  Sizes <- MCSizes
  Opens <- MCTruncOpens
  LevelChoices <- MCLevelChoices
  MaxCalls = 2
  BufSize = 2
INVARIANT HealthyIsDurable
