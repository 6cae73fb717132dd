\* Two files, one- and two-cell records, every constructor call that does not
\* give two streams their own offsets in one file.
SPECIFICATION Spec
CONSTANTS
  app = app
  err_ = err_
  Paths <- MCPaths
  Sizes <- MCSizes
  Opens <- MCOpens
  LevelChoices <- MCLevelChoices
  MaxCalls = 3
INVARIANTS
  TypeOK
  GoodIsComplete
  NoGaps
  CallOrder
PROPERTIES
  AppendOnly
  Contract
