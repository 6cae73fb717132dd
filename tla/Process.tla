------------------------------- MODULE Process ------------------------------
(***************************************************************************)
(* Loggers of all four classes in one process: Console, Disk and Syslog    *)
(* side by side on the descriptor table and the error codes of Runtime.    *)
(***************************************************************************)
EXTENDS Runtime

CONSTANTS Consoles, FileLoggers, BinLoggers, FileOf, Sysloggers, Options

ASSUME LoggersAssumption ==
  Loggers = Consoles \cup FileLoggers \cup BinLoggers \cup Sysloggers

\* An object has one class.
ASSUME ClassesAssumption ==
  /\ Consoles \cap (FileLoggers \cup BinLoggers \cup Sysloggers) = {}
  /\ FileLoggers \cap (BinLoggers \cup Sysloggers) = {}
  /\ BinLoggers \cap Sysloggers = {}

ASSUME FileOfAssumption ==
  FileOf \in [FileLoggers \cup BinLoggers -> [Sinks -> Paths]]

ASSUME OptionsAssumption ==
  Options \in [Sysloggers -> SUBSET {"Console", "NoDelay", "PError"}]

VARIABLES console, stream, slog, text, up

vars == <<shared, console, stream, slog, text, up>>

Con == INSTANCE Console
Dsk == INSTANCE Disk
Sys == INSTANCE Syslog

TypeOK == SharedTypeOK /\ Con!TypeOK /\ Dsk!TypeOK /\ Sys!TypeOK

Init == SharedInit /\ Con!Init /\ Dsk!Init /\ Sys!Init

\* The program ended and is run again.
Restart ==
  /\ proc # "running"
  /\ proc' = "running"
  /\ fds' = [d \in Fds |-> IF d = 1 THEN "stdout"
                           ELSE IF d = 2 THEN "stderr" ELSE "closed"]
  /\ err' = [l \in Loggers |-> "none"]
  /\ ilevel' = [l \in Loggers |-> DEFAULT_LEVEL]
  /\ reused' = FALSE
  /\ console' = [s \in Sinks |-> "good"]
  /\ stream' = [l \in Dsk!Disks |-> [s \in Sinks |-> Dsk!Unopened]]
  /\ slog' = [owner |-> "none", tag |-> Sys!Null, fd |-> 0]
  /\ text' = "progname"
  /\ UNCHANGED up

Next ==
  \/ Con!Next /\ UNCHANGED <<stream, slog, text, up>>
  \/ Dsk!Next /\ UNCHANGED <<console, slog, text, up>>
  \/ Sys!Next /\ UNCHANGED <<console, stream>>
  \/ (LoseStd \/ Return) /\ UNCHANGED <<console, stream, slog, text, up>>
  \/ Restart

Spec == Init /\ [][Next]_vars

-----------------------------------------------------------------------------
(* Properties *)

\* What a descriptor above 2 is open on, and who has it, as long as each is
\* what opening made it: a stream's file or the connection to syslogd.
Holders(d) ==
  {h \in Dsk!Disks \X Sinks : stream[h[1]][h[2]].fd = d}

\* close() closes numbers it does not own, destructors and the C library close
\* the number they once got.  Still every descriptor above 2 has exactly one
\* holder, is open on the holder's own file or connection, and is closed when
\* the holder is gone.
OwnedAbove2 ==
  \A d \in Fds \ StdFds :
    LET n == Cardinality(Holders(d)) + (IF slog.fd = d THEN 1 ELSE 0)
    IN  /\ n <= 1
        /\ fds[d] # "closed" <=> n = 1
        /\ \A h \in Holders(d) : fds[d] = FileOf[h[1]][h[2]]
        /\ slog.fd = d => fds[d] \in {"syslogd", "dead"}

\* Every record of l that is written now arrives where its class says, or
\* nowhere.
ArrivesHome(l) ==
  /\ l \in Consoles => \A s \in Sinks : Con!Reaches(s) \subseteq Con!Home(s)
  /\ l \in Dsk!Disks => \A s \in Sinks : Dsk!Reaches(l, s) \subseteq Dsk!Home(l, s)
  /\ l \in Sysloggers => Sys!Reaches \subseteq Sys!Home

\* As long as nothing was opened as descriptor 1 or 2, no record of any logger
\* strays, whatever the others, their close() and their destructors did.
AtHomeUnlessReused ==
  ~reused => \A l \in Loggers : err[l] # "none" => ArrivesHome(l)

\* Manual: "ConsoleLogger: writes DEBUG and INFO messages to standard output,
\* and other messages to standard error".  So does one that is healthy, closed
\* by nobody, while other loggers are closed and constructed.
HealthyAtHome ==
  \A l \in Consoles : Live(l) /\ Con!good(l) => ArrivesHome(l)

\* Descriptors 1 and 2 can be closed once: of all the console and file loggers
\* of a program that opens nothing as 1 or 2 no two are ERR_CLOSED at the same
\* time, also when a close() failed half way.
OneIsClosed ==
  ~reused => \A l, k \in Loggers \ Sysloggers :
               err[l] = "ERR_CLOSED" /\ err[k] = "ERR_CLOSED" => l = k

\* klogger/syslog.hh: the constructor takes "an identity string that is used
\* to identify the logs in syslog".  So every message that a healthy Syslogger
\* logs is filed under its own.
Identified ==
  [][\A l \in Sysloggers :
       Sys!Logs(l) /\ Sys!good(l) /\ UNCHANGED <<console, stream>> => text' = l]_vars

=============================================================================
