\* A console logger and two file loggers; nobody but they closes descriptors.
SPECIFICATION Spec
CONSTANTS
  con = con
  txt = txt
  bin = bin
  sys = sys
  app = app
  err_ = err_
  Loggers = {con, txt, bin}
  Consoles = {con}
  FileLoggers = {txt}
  BinLoggers = {bin}
  Sysloggers = {}
  Paths <- MCPaths
  FileOf <- MCFileOf
  Options <- MCOptions
  LevelChoices <- MCLevelChoices
  MaxBeside = 0
  NFds = 6
  MayLoseStd = FALSE
INVARIANTS
  HealthyAtHome
