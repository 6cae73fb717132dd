------------------------------- MODULE Runtime ------------------------------
(***************************************************************************)
(* What the loggers of one process share: the table of open descriptors,   *)
(* in which opening takes the lowest free number and close() frees the     *)
(* numbers 1 and 2, and the members err and ilevel that every logger has.  *)
(*                                                                         *)
(* A record is written whole or not at all here; LogStream has the torn    *)
(* ones.  Bounds: NFds descriptors; while an object has another level than *)
(* it began with there are at most MaxBeside others, since a level decides *)
(* nothing but which of its own object's messages are dropped.             *)
(***************************************************************************)
EXTENDS Levels, FiniteSets

CONSTANTS Loggers,      \* the logger objects, of all four classes
          Paths,        \* names of the files the program may log to
          NFds,         \* how many descriptors the process may have
          LevelChoices, \* the levels the program passes to level()
          MaxBeside,    \* bound on the objects beside one with another level
          MayLoseStd    \* whether others close descriptors 1 and 2, too

ASSUME NFdsAssumption == NFds \in Nat /\ NFds >= 2

\* A file has no name that stands for something else in the descriptor table.
ASSUME PathsAssumption ==
  Paths \cap {"stdout", "stderr", "syslogd", "closed", "dead"} = {}
ASSUME RuntimeLevelsAssumption == LevelChoices \subseteq Levels
ASSUME MaxBesideAssumption == MaxBeside \in Nat
ASSUME MayLoseStdAssumption == MayLoseStd \in BOOLEAN

VARIABLES
  proc,      \* "running", or "exiting": main returned or a logger called exit
  fds,       \* what each descriptor is open on
  err,       \* the member err of each logger; "none": no such object
  ilevel,    \* the member ilevel of each logger
  reused     \* history: something was opened as descriptor 1 or 2

shared == <<proc, fds, err, ilevel, reused>>

Sinks == {"outs", "errs"}
StdFds == {1, 2}
Fds == 1..NFds

\* A "dead" descriptor is a socket whose peer is gone.
Contents == Paths \cup {"stdout", "stderr", "syslogd", "closed", "dead"}

SharedTypeOK ==
  /\ proc \in {"running", "exiting"}
  /\ fds \in [Fds -> Contents]
  /\ err \in [Loggers -> {"none", "HEALTHY", "ERR_OPEN", "ERR_DISK",
                          "ERR_CLOSED", "ERR_CLOSEFAIL"}]
  /\ ilevel \in [Loggers -> LevelChoices \cup {DEFAULT_LEVEL}]
  /\ reused \in BOOLEAN

Live(l) == proc = "running" /\ err[l] # "none"

-----------------------------------------------------------------------------
(* Descriptors *)

Free(t) == {d \in Fds : t[d] = "closed"}
Lowest(t) == CHOOSE d \in Free(t) : \A e \in Free(t) : d <= e

\* Table t after opening target p; number 0: nothing was opened.
OpenFd(t, p, ok) ==
  IF ok /\ Free(t) # {}
  THEN [table |-> [t EXCEPT ![Lowest(t)] = p], fd |-> Lowest(t)]
  ELSE [table |-> t, fd |-> 0]

CloseFd(t, fd) == IF fd = 0 THEN t ELSE [t EXCEPT ![fd] = "closed"]

\* Where a record written to descriptor fd arrives, if anywhere.
Reached(fd) == IF fd = 0 THEN {} ELSE {fds[fd]} \ {"closed", "dead"}

\* STDOUT_FILENO or STDERR_FILENO.
StdFd(s) == IF s = "outs" THEN 1 ELSE 2

-----------------------------------------------------------------------------
(* What the classes have in common *)

\* A log method of level c gets past LEVEL_CHECK; status is what becomes of
\* the process.
Called(l, c, status) ==
  /\ Live(l)
  /\ ~LEVEL_CHECK(ilevel[l], c)
  /\ proc' = status

\* The bound on objects beside l.
FewBeside(l) == Cardinality({k \in Loggers \ {l} : err[k] # "none"}) <= MaxBeside

\* Construction of l, with the descriptors table and the error e.
Constructed(l, table, e) ==
  /\ proc = "running" /\ err[l] = "none"
  /\ (\E k \in Loggers : ilevel[k] # DEFAULT_LEVEL) => FewBeside(l)
  /\ err' = [err EXCEPT ![l] = e]
  /\ ilevel' = [ilevel EXCEPT ![l] = DEFAULT_LEVEL]
  /\ fds' = table
  /\ UNCHANGED proc

SetLevel(l, v) ==
  /\ Live(l)
  /\ FewBeside(l)
  /\ ilevel' = [ilevel EXCEPT ![l] = v]
  /\ UNCHANGED <<proc, fds, err, reused>>

\* Mutant: the results of the two calls of close(2) are ignored.
CloseStd_NoCheck(l) ==
  /\ Live(l)
  /\ fds' = [d \in Fds |-> IF d \in StdFds THEN "closed" ELSE fds[d]]
  /\ err' = [err EXCEPT ![l] = "ERR_CLOSED"]
  /\ UNCHANGED <<proc, ilevel, reused>>

\* Mutant: a failure is reported by a code close() never uses.
CloseStd_Unavailable(l) ==
  /\ Live(l)
  /\ fds' = IF fds[1] = "closed" THEN fds ELSE CloseFd(CloseFd(fds, 1), 2)
  /\ err' = [err EXCEPT ![l] =
              IF "closed" \in {fds[1], fds[2]} THEN "ERR_UNAVAILABLE" ELSE "ERR_CLOSED"]
  /\ UNCHANGED <<proc, ilevel, reused>>

\* close() of ConsoleLogger, FileLogger and BinLogger, the same text in all
\* three: it closes whatever descriptors 1 and 2 are.
CloseStd(l) ==
  /\ Live(l)
  /\ \/ /\ fds[1] = "closed"
        /\ err' = [err EXCEPT ![l] = "ERR_CLOSEFAIL"]
        /\ UNCHANGED fds
     \/ /\ fds[1] # "closed" /\ fds[2] = "closed"
        /\ fds' = CloseFd(fds, 1)
        /\ err' = [err EXCEPT ![l] = "ERR_CLOSEFAIL"]
     \/ /\ fds[1] # "closed" /\ fds[2] # "closed"
        /\ fds' = CloseFd(CloseFd(fds, 1), 2)
        /\ err' = [err EXCEPT ![l] = "ERR_CLOSED"]
  /\ UNCHANGED <<proc, ilevel, reused>>

\* The object is destroyed, by the program or while exit() runs.
Destroyed(l, table) ==
  /\ err[l] # "none"
  /\ err' = [err EXCEPT ![l] = "none"]
  /\ ilevel' = [ilevel EXCEPT ![l] = DEFAULT_LEVEL]
  /\ fds' = table
  /\ UNCHANGED <<proc, reused>>

-----------------------------------------------------------------------------
(* The process *)

SharedInit ==
  /\ proc = "running"
  /\ \E open \in SUBSET StdFds :
       /\ ~MayLoseStd => open = StdFds
       /\ fds = [d \in Fds |-> IF d \notin open THEN "closed"
                               ELSE IF d = 1 THEN "stdout" ELSE "stderr"]
  /\ err = [l \in Loggers |-> "none"]
  /\ ilevel = [l \in Loggers |-> DEFAULT_LEVEL]
  /\ reused = FALSE

\* Someone else closes a standard descriptor.
LoseStd ==
  /\ MayLoseStd /\ proc = "running"
  /\ \E d \in StdFds : fds[d] # "closed" /\ fds' = CloseFd(fds, d)
  /\ UNCHANGED <<proc, err, ilevel, reused>>

Return ==
  /\ proc = "running"
  /\ proc' = "exiting"
  /\ UNCHANGED <<fds, err, ilevel, reused>>

=============================================================================
