\* One syslog logger: the identity is nobody else's to change.
SPECIFICATION Spec
CONSTANTS
  con = con
  txt = txt
  bin = bin
  sys = sys
  app = app
  err_ = err_
  Loggers = {sys}
  Consoles = {}
  FileLoggers = {}
  BinLoggers = {}
  Sysloggers = {sys}
  Paths <- MCPaths
  FileOf <- MCFileOf
  Options <- MCOptions
  LevelChoices <- MCLevelChoices
  MaxBeside = 0
  NFds = 4
  MayLoseStd = FALSE
PROPERTIES
  Identified
