\* Does close() close the files?
SPECIFICATION Spec
CONSTANTS
  app = app
  err_ = err_
  Paths <- MCPaths
  Sizes <- MCSizes
  Opens <- MCOpens
  LevelChoices <- MCLevelChoices
  MaxCalls = 2
PROPERTY ClosedWritesNothing
