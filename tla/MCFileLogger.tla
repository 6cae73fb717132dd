---------------------------- MODULE MCFileLogger ----------------------------
(***************************************************************************)
(* Instances of FileLogger for TLC.                                        *)
(***************************************************************************)
EXTENDS FileLogger

CONSTANTS app, err_  \* two files

OneFile(p, truncate) ==
  [single |-> TRUE, logfile |-> p, errfile |-> p, truncate |-> truncate]
TwoFiles(p, q, truncate) ==
  [single |-> FALSE, logfile |-> p, errfile |-> q, truncate |-> truncate]

MCPaths == {app, err_}
MCSizes == {1, 2}

\* The calls whose two streams do not overwrite each other.
MCOpens == {OneFile(app, FALSE), TwoFiles(app, err_, FALSE), TwoFiles(app, err_, TRUE)}
\* One file, truncated.
MCTruncOpens == {OneFile(app, TRUE)}

MCLevelChoices == {DEBUG, FATAL}

=============================================================================
