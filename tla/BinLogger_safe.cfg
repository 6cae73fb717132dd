\* Two files, records of one and of three pieces, a buffer of two.
SPECIFICATION Spec
CONSTANTS
  app = app
  err_ = err_
  Paths <- MCPaths
  Sizes <- MCSizes
  Opens <- MCOpens
  LevelChoices <- MCLevelChoices
  MaxCalls = 2
  BufSize = 2
INVARIANTS
  TypeOK
  HealthyIsDurable
  HealthyIsFramed
  KillLosesOne
PROPERTIES
  FatalExits
  Contract
