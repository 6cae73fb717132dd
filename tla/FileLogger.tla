----------------------------- MODULE FileLogger -----------------------------
(***************************************************************************)
(* klog::FileLogger (filelog.cc, klogger/filelog.hh): one logger object on *)
(* one or two files, across runs of the program.                           *)
(*                                                                         *)
(* A step is a whole method call; its choices are the size of the record   *)
(* and how much of it the flush of std::endl gets onto the disk.  A call   *)
(* that LEVEL_CHECK turns away changes nothing and is a stuttering step.   *)
(* Bounds: MaxCalls log calls; a record fits in the stream's buffer, so it *)
(* reaches the file in one write; descriptors 1 and 2 are open whenever a  *)
(* logger is constructed, so that its files never get those numbers.       *)
(***************************************************************************)
EXTENDS Levels, LogStream

CONSTANTS Opens,        \* the constructor calls the program makes
          LevelChoices, \* the levels the program passes to level()
          MaxCalls      \* bound on the number of log calls

ASSUME OpensAssumption ==
  Opens \subseteq {o \in OpenCalls : o.single => o.errfile = o.logfile}
ASSUME LevelChoicesAssumption == LevelChoices \subseteq Levels
ASSUME MaxCallsAssumption == MaxCalls \in Nat

VARIABLES
  proc,     \* "running", or how the process ended
  live,     \* a FileLogger object exists
  stream,   \* its members outs and errs
  ilevel,   \* its member ilevel
  err,      \* its member err
  std,      \* the open ones of STDOUT_FILENO and STDERR_FILENO
  file,     \* contents of the files; they outlive the process
  calls,    \* log calls so far: the last message's identity
  accepted, \* history: messages that passed LEVEL_CHECK since the object
            \* was constructed, by the file they are documented to go to
  closed    \* history: close() returned 0 since then

vars == <<proc, live, stream, ilevel, err, std, file, calls, accepted, closed>>

TypeOK ==
  /\ proc \in {"running", "returned", "EXIT_FAILURE", "exitcode", "killed"}
  /\ live \in BOOLEAN
  /\ stream \in [Sinks -> Streams]
  /\ ilevel \in LevelChoices \cup {DEFAULT_LEVEL}
  /\ err \in {"HEALTHY", "ERR_OPEN", "ERR_CLOSED", "ERR_CLOSEFAIL"}
  /\ std \subseteq StdFds
  /\ file \in [Paths -> Seq(Cells)]
  /\ calls \in 0..MaxCalls
  /\ accepted \in [Sinks -> Seq(Msgs)]
  /\ closed \in BOOLEAN

-----------------------------------------------------------------------------
(* Construction *)

\* Mutant: app is left out of the default flags.
DEFAULT_FLAGS_NoApp == {"out"}

DEFAULT_FLAGS == {"out", "app"}
TRUNC_FLAGS == {"out", "trunc"}

\* Mutant: the test of truncate is inverted.
flags_Inverted(truncate) == IF truncate THEN DEFAULT_FLAGS ELSE TRUNC_FLAGS

flags(truncate) == IF truncate THEN TRUNC_FLAGS ELSE DEFAULT_FLAGS

\* Both constructors: open outs, then errs whatever became of outs, then look
\* at the two stream states.  The catch clause is dead: no exception mask is
\* set on the streams.
Construct(logfile, outflags, errfile, errflags, okO, okE) ==
  /\ proc = "running" /\ ~live
  /\ std = StdFds
  /\ live' = TRUE
  /\ stream' = [s \in Sinks |-> IF s = "outs"
                                THEN Opened(logfile, outflags, okO)
                                ELSE Opened(errfile, errflags, okE)]
  /\ LET f == [file EXCEPT ![logfile] = FileOpened(@, outflags, okO)]
     IN  file' = [f EXCEPT ![errfile] = FileOpened(@, errflags, okE)]
  /\ ilevel' = DEFAULT_LEVEL
  /\ err' = IF okO /\ okE THEN "HEALTHY" ELSE "ERR_OPEN"
  /\ accepted' = [s \in Sinks |-> << >>]
  /\ closed' = FALSE
  /\ UNCHANGED <<proc, std, calls>>

\* FileLogger(logfile, truncate), also through open_logfile(logfile, truncate)
FileLogger1(logfile, truncate, okO, okE) ==
  Construct(logfile, flags(truncate), logfile, DEFAULT_FLAGS, okO, okE)

\* FileLogger(logfile, errfile, truncate), also through open_logfile
FileLogger2(logfile, errfile, truncate, okO, okE) ==
  Construct(logfile, flags(truncate), errfile, flags(truncate), okO, okE)

OpenWith(o, okO, okE) ==
  IF o.single THEN FileLogger1(o.logfile, o.truncate, okO, okE)
              ELSE FileLogger2(o.logfile, o.errfile, o.truncate, okO, okE)

open_logfile == \E o \in Opens, okO, okE \in BOOLEAN : OpenWith(o, okO, okE)

-----------------------------------------------------------------------------
(* Logging *)

\* Mutant: a failed stream is opened again before the next message.
write_log_Reopening(s, m, k) ==
  LET o == IF stream[s].st = "good" THEN stream[s]
           ELSE Opened(stream[s].path, DEFAULT_FLAGS, TRUE)
  IN  /\ file' = [file EXCEPT ![o.path] = WriteAt(@, o, SubSeq(Bytes(m), 1, k))]
      /\ stream' = [stream EXCEPT ![s] = AfterWrite(o, Bytes(m), k)]

\* Mutant: a record ends with a newline character instead of std::endl.
write_log_NoFlush(s, m, k) ==
  /\ stream' = [stream EXCEPT ![s].buf = @ \o Bytes(m)]
  /\ UNCHANGED file

\* write_log(outs, ...): the << operators fill the buffer and std::endl
\* flushes it; on a stream that is not good every one of them does nothing.
write_log(s, m, k) ==
  IF stream[s].st = "good"
  THEN /\ file' = [file EXCEPT ![stream[s].path] =
                     WriteAt(@, stream[s], SubSeq(Bytes(m), 1, k))]
       /\ stream' = [stream EXCEPT ![s] = AfterWrite(@, Bytes(m), k)]
  ELSE UNCHANGED <<file, stream>>

\* Where the class comment says messages of level c are written.
Documented(c) == IF c \in {DEBUG, INFO} THEN "outs" ELSE "errs"

\* A log method of level c that writes to member s.
Log(c, s) ==
  /\ proc = "running" /\ live
  /\ ~LEVEL_CHECK(ilevel, c)
  /\ calls < MaxCalls
  /\ calls' = calls + 1
  /\ \E n \in Sizes : \E k \in 0..n :
       LET m == [id |-> calls + 1, size |-> n]
       IN  /\ write_log(s, m, k)
           /\ accepted' = [accepted EXCEPT ![Documented(c)] = Append(@, m)]
  /\ UNCHANGED <<live, ilevel, err, std, closed>>

debug == Log(DEBUG, "outs") /\ UNCHANGED proc
info == Log(INFO, "outs") /\ UNCHANGED proc
warn == Log(WARN, "errs") /\ UNCHANGED proc
error == Log(ERROR, "errs") /\ UNCHANGED proc
critical == Log(CRITICAL, "errs") /\ UNCHANGED proc
fatal == Log(FATAL, "errs") /\ proc' = "EXIT_FAILURE"
fatal_code == Log(FATAL, "errs") /\ proc' = "exitcode"
fatal_noexit == Log(FATAL, "errs") /\ UNCHANGED proc

-----------------------------------------------------------------------------
(* The other methods *)

level(l) ==
  /\ proc = "running" /\ live
  /\ ilevel' = l
  /\ UNCHANGED <<proc, live, stream, err, std, file, calls, accepted, closed>>

good == err = "HEALTHY"

\* Mutant: a failed close is reported like a failed write.
close_ErrDisk ==
  /\ proc = "running" /\ live
  /\ 1 \notin std
  /\ err' = "ERR_DISK"
  /\ UNCHANGED <<proc, live, stream, ilevel, std, file, calls, accepted, closed>>

\* close() closes the process's standard descriptors, not the two streams.
close ==
  /\ proc = "running" /\ live
  /\ \/ /\ 1 \notin std
        /\ err' = "ERR_CLOSEFAIL"
        /\ UNCHANGED <<std, closed>>
     \/ /\ 1 \in std /\ 2 \notin std
        /\ std' = std \ {1}
        /\ err' = "ERR_CLOSEFAIL"
        /\ UNCHANGED closed
     \/ /\ StdFds \subseteq std
        /\ std' = {}
        /\ err' = "ERR_CLOSED"
        /\ closed' = TRUE
  /\ UNCHANGED <<proc, live, stream, ilevel, file, calls, accepted>>

\* While no object exists its members have fixed values, except the streams,
\* which still tell where accepted's messages went.
NoObject ==
  /\ live' = FALSE
  /\ ilevel' = DEFAULT_LEVEL
  /\ err' = "ERR_OPEN"
  /\ closed' = FALSE

\* ~FileLogger: errs is destroyed before outs, and closing a filebuf tries
\* once more to write what its buffer still holds.
Destroy ==
  /\ live
  /\ \E kE \in 0..Len(stream["errs"].buf), kO \in 0..Len(stream["outs"].buf) :
       LET f == [file EXCEPT ![stream["errs"].path] =
                   WriteAt(@, stream["errs"], SubSeq(stream["errs"].buf, 1, kE))]
       IN  file' = [f EXCEPT ![stream["outs"].path] =
                   WriteAt(@, stream["outs"], SubSeq(stream["outs"].buf, 1, kO))]
  /\ stream' = [s \in Sinks |-> [stream[s] EXCEPT !.buf = << >>]]
  /\ NoObject
  /\ UNCHANGED <<proc, std, calls, accepted>>

-----------------------------------------------------------------------------
(* The process around the logger *)

delete == proc = "running" /\ Destroy

\* An object with static storage is destroyed while exit() runs.
AtExit == proc \in {"returned", "EXIT_FAILURE", "exitcode"} /\ Destroy

\* The program returns from main, or is killed: no destructor of a heap
\* object runs.
End ==
  /\ proc = "running"
  /\ proc' \in {"returned", "killed"}
  /\ UNCHANGED <<live, stream, ilevel, err, std, file, calls, accepted, closed>>

\* Someone else closes a standard descriptor.
LoseStd ==
  /\ proc = "running" /\ live
  /\ \E fd \in std : std' = std \ {fd}
  /\ UNCHANGED <<proc, live, stream, ilevel, err, file, calls, accepted, closed>>

\* The program is run again; the files are as it left them.
Restart ==
  /\ proc # "running"
  /\ proc' = "running"
  /\ std' = StdFds
  /\ NoObject
  /\ UNCHANGED <<stream, file, calls, accepted>>

Init ==
  /\ proc = "running"
  /\ live = FALSE
  /\ \E p \in Paths : stream = [s \in Sinks |-> Opened(p, DEFAULT_FLAGS, FALSE)]
  /\ ilevel = DEFAULT_LEVEL
  /\ err = "ERR_OPEN"
  /\ std = StdFds
  /\ file = [p \in Paths |-> << >>]
  /\ calls = 0
  /\ accepted = [s \in Sinks |-> << >>]
  /\ closed = FALSE

Next ==
  \/ open_logfile
  \/ debug \/ info \/ warn \/ error \/ critical
  \/ fatal \/ fatal_code \/ fatal_noexit
  \/ \E l \in LevelChoices : level(l)
  \/ close
  \/ delete \/ AtExit \/ End \/ LoseStd \/ Restart

Spec == Init /\ [][Next]_vars

-----------------------------------------------------------------------------
(* Properties *)

\* No constructor call lets two streams keep their own offsets in one file.
NoClobber == \A o \in Opens : o.truncate => o.logfile # o.errfile

\* A stream that never failed has every message logged to it, whole, in the
\* documented file: nothing a later call, the other stream or a restart does
\* tears or overwrites a record (filelog.hh: "all messages are written to
\* logfile", "... to errfile").
GoodIsComplete ==
  \A s \in Sinks : stream[s].st = "good" =>
    \A i \in 1..Len(accepted[s]) :
      Readable(file[stream[s].path], accepted[s][i])

\* After a failed write the rest of the object's messages to that stream is
\* lost, but never a message from the middle: what a file has of one object's
\* messages is a prefix of what was logged, even when the destructor's last
\* flush succeeds late.
NoGaps ==
  \A s \in Sinks : \A i, j \in 1..Len(accepted[s]) :
    i < j /\ Readable(file[stream[s].path], accepted[s][j])
      => Readable(file[stream[s].path], accepted[s][i])

\* An object's records stand in a file in the order of the log calls, also
\* when outs and errs share the file.  The one exception is the record on
\* which a stream failed: the destructor may write it after records the other
\* stream got into the file meanwhile.
CallOrder ==
  \A p \in Paths :
    LET f == file[p]
        From(s, i) == \E j \in 1..Len(accepted[s]) : accepted[s][j].id = f[i][1]
    IN  \A i, j \in 1..Len(f), s, t \in Sinks :
          i < j /\ From(s, i) /\ From(t, j) /\ f[i][1] > f[j][1]
            => s # t /\ stream[t].st = "bad"

\* What DurableLog promises, of each stream: its messages are stored in the
\* order of the calls until the first failure, the failed one possibly late,
\* and what is stored stays stored.
Alive == live /\ proc # "killed"
Ok(s) == stream[s].st = "good"
Logged(s) == Len(accepted[s])
Stored(s) == {i \in 1..Len(accepted[s]) :
                Readable(file[stream[s].path], accepted[s][i])}
Owed(s) == stream[s].buf # << >>
Outs == INSTANCE DurableLog WITH alive <- Alive, ok <- Ok("outs"),
  logged <- Logged("outs"), stored <- Stored("outs"), owed <- Owed("outs")
Errs == INSTANCE DurableLog WITH alive <- Alive, ok <- Ok("errs"),
  logged <- Logged("errs"), stored <- Stored("errs"), owed <- Owed("errs")
Contract == Outs!Spec /\ Errs!Spec

\* Bytes once in a file stay there and stay where they are, whatever the
\* logger, its destructor or a new run does, unless a constructor is called
\* with truncate.
Extends(f, g) == Len(f) <= Len(g) /\ SubSeq(g, 1, Len(f)) = f
Truncates(p) ==
  \E o \in Opens, okO, okE \in BOOLEAN :
    o.truncate /\ p \in {o.logfile, o.errfile} /\ OpenWith(o, okO, okE)
AppendOnly ==
  [][\A p \in Paths : Extends(file[p], file'[p]) \/ Truncates(p)]_vars

\* klogger/logger.hh: good() "returns true if the logger is healthy", and a
\* LogError tells why the logger cannot write log messages.
HealthyCanWrite ==
  live /\ good => \A s \in Sinks : stream[s].st = "good"

\* doc/manual.rst: "The close function closes the file handles": no byte is
\* added through a logger that was closed.
ClosedWritesNothing == [][live /\ closed => UNCHANGED file]_vars

=============================================================================
