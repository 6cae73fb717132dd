\* Does good() tell that messages can be written?
SPECIFICATION Spec
CONSTANTS
  app = app
  err_ = err_
  Paths <- MCPaths
  Sizes <- MCSizes
  Opens <- MCOpens
  LevelChoices <- MCLevelChoices
  MaxCalls = 2
INVARIANT HealthyCanWrite
