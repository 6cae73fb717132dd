-------------------------------- MODULE Syslog ------------------------------
(***************************************************************************)
(* klog::Syslogger (syslog.cc, klogger/syslog.hh) over openlog, syslog and *)
(* closelog of the GNU C library, whose one connection and one set of      *)
(* options all objects of the class share, and a syslogd that comes and    *)
(* goes.                                                                   *)
(*                                                                         *)
(* openlog keeps the pointer it is given and copies nothing, so a message  *)
(* is filed under what the memory behind the pointer spells when it is     *)
(* logged.  Between two calls a string exists as long as its object: a     *)
(* member as long as the logger, a parameter not at all.                   *)
(***************************************************************************)
EXTENDS Runtime

CONSTANTS Sysloggers,
          Options   \* the options each one is constructed with

VARIABLES
  slog,  \* the C library's: who called openlog last, the string its pointer
         \* points into, the connection's descriptor (0: not connected)
  text,  \* what that memory spells: whose identity, or "garbage"
  up     \* syslogd is running

vars == <<shared, slog, text, up>>

\* The strings that hold an identity: the constructor's parameter name and the
\* member ident, its copy.
Strings == Sysloggers \X {"name", "ident"}
Null == << >>

TypeOK ==
  /\ slog \in [owner : Sysloggers \cup {"none"}, tag : Strings \cup {Null},
               fd : 0..NFds]
  /\ text \in Sysloggers \cup {"progname", "garbage"}
  /\ up \in BOOLEAN

Init ==
  /\ slog = [owner |-> "none", tag |-> Null, fd |-> 0]
  /\ text = "progname"
  /\ up = TRUE

HasOption(o) == slog.owner # "none" /\ o \in Options[slog.owner]

-----------------------------------------------------------------------------
(* The C library *)

\* The connection is made, in descriptor table t, when it can be.
Connected(t) == OpenFd(t, "syslogd", up)

\* It is called by l, and given the characters of string s.
openlog(l, s) ==
  LET c == IF slog.fd = 0 /\ "NoDelay" \in Options[l] THEN Connected(fds)
           ELSE [table |-> fds, fd |-> slog.fd]
  IN  /\ Constructed(l, c.table, "HEALTHY")
      /\ slog' = [owner |-> l, tag |-> s, fd |-> c.fd]
      /\ text' = s[1]
      /\ reused' = (reused \/ (slog.fd = 0 /\ c.fd \in StdFds))

\* The connection's number is still a connection to a running syslogd.
Alive == slog.fd # 0 /\ fds[slog.fd] = "syslogd"

\* A message goes to the connection if it is still one to syslogd.  If not,
\* what has its number is closed and the connection made once more.
syslog ==
  LET c == Connected(CloseFd(fds, slog.fd))
  IN  \/ Alive /\ UNCHANGED <<fds, slog, reused>>
      \/ /\ ~Alive
         /\ fds' = c.table
         /\ slog' = [slog EXCEPT !.fd = c.fd]
         /\ reused' = (reused \/ c.fd \in StdFds)

\* Where a message arrives that is sent now: at syslogd, on the console if
\* there is no connection and LOG_CONS is set; LOG_PERROR makes a copy on
\* descriptor 2.
Reaches ==
  LET connects == Alive \/ Connected(CloseFd(fds, slog.fd)).fd # 0
  IN  (IF connects THEN {"syslogd"}
       ELSE IF HasOption("Console") THEN {"/dev/console"} ELSE {})
        \cup (IF HasOption("PError") THEN Reached(2) ELSE {})

\* Without a pointer the name of the program is used.
closelog ==
  /\ fds' = CloseFd(fds, slog.fd)
  /\ slog' = [slog EXCEPT !.tag = Null, !.fd = 0]
  /\ text' = "progname"

\* syslogd stops, with the sockets connected to it, or starts again.
Daemon ==
  /\ up' = ~up
  /\ fds' = [d \in Fds |-> IF up /\ fds[d] = "syslogd" THEN "dead" ELSE fds[d]]
  /\ UNCHANGED <<proc, err, ilevel, reused, slog, text>>

-----------------------------------------------------------------------------
(* The class *)

Syslogger(l) == openlog(l, <<l, "name">>) /\ UNCHANGED up

\* String s exists between two calls.
Exists(s) == s[2] = "ident" /\ err[s[1]] # "none"

\* What the memory behind the pointer spells when a message is logged.  If its
\* string is gone, others may have taken it, the ones the log method makes for
\* the message among them.
Spelled ==
  {text} \cup (IF slog.tag # Null /\ ~Exists(slog.tag) THEN {"garbage"} ELSE {})

\* All levels make one call of syslog; its priorities are left out.
Log(l) == text' \in Spelled /\ syslog /\ UNCHANGED <<err, ilevel, up>>

debug(l) == Called(l, DEBUG, "running") /\ Log(l)
info(l) == Called(l, INFO, "running") /\ Log(l)
warn(l) == Called(l, WARN, "running") /\ Log(l)
error(l) == Called(l, ERROR, "running") /\ Log(l)
critical(l) == Called(l, CRITICAL, "running") /\ Log(l)
fatal(l) == Called(l, FATAL, "exiting") /\ Log(l)
fatal_code(l) == Called(l, FATAL, "exiting") /\ Log(l)
fatal_noexit(l) == Called(l, FATAL, "running") /\ Log(l)

Logs(l) ==
  \/ debug(l) \/ info(l) \/ warn(l) \/ error(l) \/ critical(l)
  \/ fatal(l) \/ fatal_code(l) \/ fatal_noexit(l)

level(l, v) == SetLevel(l, v) /\ UNCHANGED <<slog, text, up>>

good(l) == err[l] = "HEALTHY"

close(l) ==
  /\ Live(l)
  /\ closelog
  /\ err' = [err EXCEPT ![l] = "ERR_CLOSED"]
  /\ UNCHANGED <<proc, ilevel, reused, up>>

\* The destructor leaves the C library's state alone.
Destroy(l) == Destroyed(l, fds) /\ UNCHANGED <<slog, text, up>>

Next ==
  \/ \E l \in Sysloggers :
       \/ Syslogger(l)
       \/ Logs(l)
       \/ \E v \in LevelChoices : level(l, v)
       \/ close(l)
       \/ Destroy(l)
  \/ Daemon

\* Where its documentation says a message may be found.
Home ==
  {"syslogd", "/dev/console"} \cup (IF HasOption("PError") THEN {"stderr"} ELSE {})

=============================================================================
