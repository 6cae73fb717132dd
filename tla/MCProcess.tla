------------------------------ MODULE MCProcess -----------------------------
(***************************************************************************)
(* Instances of Process for TLC.                                           *)
(***************************************************************************)
EXTENDS Process

CONSTANTS con, txt, bin, sys  \* loggers
CONSTANTS app, err_           \* files

MCPaths == {app, err_}
MCLevelChoices == {DEBUG}

MCFileOf ==
  [l \in FileLoggers \cup BinLoggers |->
     [s \in {"outs", "errs"} |-> IF s = "outs" THEN app ELSE err_]]

MCOptions == [l \in Sysloggers |-> {"NoDelay", "PError"}]

=============================================================================
