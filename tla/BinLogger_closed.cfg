\* Does a closed logger become healthy again?
SPECIFICATION Spec
CONSTANTS
  app = app
  err_ = err_
  Paths <- MCPaths
  Sizes <- MCSizes
  Opens <- MCOpens
  LevelChoices <- MCLevelChoices
  MaxCalls = 2
  BufSize = 2
INVARIANT ClosedNeverHealthy
