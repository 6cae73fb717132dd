----------------------------- MODULE MCBinLogger ----------------------------
(***************************************************************************)
(* Instances of BinLogger for TLC.                                         *)
(***************************************************************************)
EXTENDS BinLogger

CONSTANTS app, err_  \* two files

OneFile(p, truncate) ==
  [single |-> TRUE, logfile |-> p, errfile |-> p, truncate |-> truncate]
TwoFiles(p, q, truncate) ==
  [single |-> FALSE, logfile |-> p, errfile |-> q, truncate |-> truncate]

MCPaths == {app, err_}
\* One record that fits in the buffer and one that does not.
MCSizes == {1, 3}

\* The calls whose two streams do not overwrite each other.
MCOpens == {OneFile(app, FALSE), TwoFiles(app, err_, TRUE)}

\* One file, truncated.
MCTruncOpens == {OneFile(app, TRUE)}

MCLevelChoices == {DEBUG, FATAL}

=============================================================================
