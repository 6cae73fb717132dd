\* A console, a binary and a syslog logger; descriptors run out when all are open.
SPECIFICATION Spec
CONSTANTS
  con = con
  txt = txt
  bin = bin
  sys = sys
  app = app
  err_ = err_
  Loggers = {con, bin, sys}
  Consoles = {con}
  FileLoggers = {}
  BinLoggers = {bin}
  Sysloggers = {sys}
  Paths <- MCPaths
  FileOf <- MCFileOf
  Options <- MCOptions
  LevelChoices <- MCLevelChoices
  MaxBeside = 0
  NFds = 4
  MayLoseStd = TRUE
INVARIANTS
  TypeOK
  OwnedAbove2
  AtHomeUnlessReused
  OneIsClosed
