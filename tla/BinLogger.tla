------------------------------ MODULE BinLogger -----------------------------
(***************************************************************************)
(* klog::BinLogger (binlog.cc, klogger/binlog.hh) and the control of       *)
(* tlv::write_tlv_log: a record goes into the stream piece by piece, is    *)
(* given up at the first piece that fails, and is flushed only when every  *)
(* piece was accepted; then set_err looks at both streams.                 *)
(*                                                                         *)
(* A step is one write of write_tlv_log, the flush, set_err, or a whole    *)
(* call of another method, so that a full disk and a kill can come between *)
(* any two of them.  One piece is one cell of LogStream.                   *)
(* Bounds: MaxCalls log calls; a stream's buffer holds BufSize pieces and  *)
(* no piece is larger than the buffer; descriptors 1 and 2 are open        *)
(* whenever a logger is constructed.                                       *)
(***************************************************************************)
EXTENDS Levels, LogStream

CONSTANTS Opens,        \* the constructor calls the program makes
          LevelChoices, \* the levels the program passes to level()
          MaxCalls,     \* bound on the number of log calls
          BufSize       \* how many pieces a stream's buffer holds

ASSUME OpensAssumption ==
  Opens \subseteq {o \in OpenCalls : o.single => o.errfile = o.logfile}
ASSUME LevelChoicesAssumption == LevelChoices \subseteq Levels
ASSUME MaxCallsAssumption == MaxCalls \in Nat
ASSUME BufSizeAssumption == BufSize \in Nat \ {0}

VARIABLES
  proc,     \* "running", or how the process ended
  live,     \* a BinLogger object exists
  stream,   \* its members outs and errs
  ilevel,   \* its member ilevel
  err,      \* its member err
  std,      \* the open ones of STDOUT_FILENO and STDERR_FILENO
  rec,      \* the log call in progress
  file,     \* contents of the files; they outlive the process
  calls,    \* log calls so far: the last message's identity
  accepted, \* history: messages that passed LEVEL_CHECK since the object
            \* was constructed, by the stream they went to
  base,     \* history: where the object's part of each file begins
  closed    \* history: close() returned 0 since the construction

vars == <<proc, live, stream, ilevel, err, std, rec, file, calls, accepted,
          base, closed>>
object == <<live, ilevel, std, base, closed>>

\* at: the call's next step; done: pieces accepted by the stream; then: what
\* the process is after the call.
Idle == [at |-> "none"]
InCall == [at : {"write", "set_err"}, sink : Sinks, msg : Msgs,
           done : Nat, then : {"running", "EXIT_FAILURE", "exitcode"}]

TypeOK ==
  /\ proc \in {"running", "returned", "EXIT_FAILURE", "exitcode", "killed"}
  /\ live \in BOOLEAN
  /\ stream \in [Sinks -> Streams]
  /\ ilevel \in LevelChoices \cup {DEFAULT_LEVEL}
  /\ err \in {"HEALTHY", "ERR_OPEN", "ERR_DISK", "ERR_CLOSED", "ERR_CLOSEFAIL"}
  /\ std \subseteq StdFds
  /\ rec \in InCall \cup {Idle}
  /\ rec # Idle => live /\ proc = "running" /\ rec.done <= rec.msg.size
  /\ file \in [Paths -> Seq(Cells)]
  /\ calls \in 0..MaxCalls
  /\ accepted \in [Sinks -> Seq(Msgs)]
  /\ base \in [Paths -> Nat]
  /\ closed \in BOOLEAN

\* The program can call a method of the object.
Ready == proc = "running" /\ live /\ rec = Idle

-----------------------------------------------------------------------------
(* Construction *)

\* Mutant: app is left out of the default flags.
BIN_DEFAULT_FLAGS_NoApp == {"out"}

BIN_DEFAULT_FLAGS == {"out", "app"}
BIN_TRUNC_FLAGS == {"out", "trunc"}

flags(truncate) == IF truncate THEN BIN_TRUNC_FLAGS ELSE BIN_DEFAULT_FLAGS

\* Both constructors open outs, then errs whatever became of outs, then look
\* at the two stream states.
Construct(logfile, outflags, errfile, errflags, okO, okE) ==
  /\ proc = "running" /\ ~live
  /\ std = StdFds
  /\ live' = TRUE
  /\ stream' = [s \in Sinks |-> IF s = "outs"
                                THEN Opened(logfile, outflags, okO)
                                ELSE Opened(errfile, errflags, okE)]
  /\ LET f == [file EXCEPT ![logfile] = FileOpened(@, outflags, okO)]
     IN  file' = [f EXCEPT ![errfile] = FileOpened(@, errflags, okE)]
  /\ ilevel' = DEFAULT_LEVEL
  /\ err' = IF okO /\ okE THEN "HEALTHY" ELSE "ERR_OPEN"
  /\ accepted' = [s \in Sinks |-> << >>]
  /\ base' = [p \in Paths |-> Len(file'[p])]
  /\ closed' = FALSE
  /\ UNCHANGED <<proc, std, rec, calls>>

\* BinLogger(logfile, truncate) and BinLogger(logfile, errfile, truncate),
\* also through open_binlogfile.
OpenWith(o, okO, okE) ==
  Construct(o.logfile, flags(o.truncate),
            o.errfile, IF o.single THEN BIN_DEFAULT_FLAGS ELSE flags(o.truncate),
            okO, okE)

open_binlogfile == \E o \in Opens, okO, okE \in BOOLEAN : OpenWith(o, okO, okE)

-----------------------------------------------------------------------------
(* Logging *)

\* A log method of level c on member s begins.
Call(c, s, then) ==
  /\ Ready
  /\ ~LEVEL_CHECK(ilevel, c)
  /\ calls < MaxCalls
  /\ calls' = calls + 1
  /\ \E n \in Sizes :
       LET m == [id |-> calls + 1, size |-> n]
       IN  /\ rec' = [at |-> "write", sink |-> s, msg |-> m, done |-> 0, then |-> then]
           /\ accepted' = [accepted EXCEPT ![s] = Append(@, m)]
  /\ UNCHANGED <<proc, stream, err, file, object>>

debug == Call(DEBUG, "outs", "running")
info == Call(INFO, "outs", "running")
warn == Call(WARN, "errs", "running")
error == Call(ERROR, "errs", "running")
critical == Call(CRITICAL, "errs", "running")
fatal == Call(FATAL, "errs", "EXIT_FAILURE")
fatal_code == Call(FATAL, "errs", "exitcode")
fatal_noexit == Call(FATAL, "errs", "running")

\* k cells of stream s's buffer reach its file.
Drain(s, k) ==
  file' = [file EXCEPT ![stream[s].path] =
             WriteAt(@, stream[s], SubSeq(stream[s].buf, 1, k))]

\* One outs.write of write_tlv_log and the test of outs.good() behind it: a
\* full buffer is written out first; on a stream that is not good nothing
\* happens and the record is given up.
put ==
  /\ rec.at = "write"
  /\ rec.done < rec.msg.size
  /\ LET s == rec.sink
         cell == <<rec.msg.id, rec.done + 1>>
     IN  \/ /\ stream[s].st # "good"
            /\ rec' = [rec EXCEPT !.at = "set_err"]
            /\ UNCHANGED <<stream, file>>
         \/ /\ stream[s].st = "good" /\ Len(stream[s].buf) < BufSize
            /\ stream' = [stream EXCEPT ![s].buf = Append(@, cell)]
            /\ rec' = [rec EXCEPT !.done = @ + 1]
            /\ UNCHANGED file
         \/ /\ stream[s].st = "good" /\ Len(stream[s].buf) >= BufSize
            /\ \E k \in 0..Len(stream[s].buf) :
                 LET t == AfterWrite(stream[s], stream[s].buf, k)
                 IN  /\ Drain(s, k)
                     /\ \/ /\ t.st = "good"
                           /\ stream' = [stream EXCEPT ![s] = [t EXCEPT !.buf = <<cell>>]]
                           /\ rec' = [rec EXCEPT !.done = @ + 1]
                        \/ /\ t.st # "good"
                           /\ stream' = [stream EXCEPT ![s] = t]
                           /\ rec' = [rec EXCEPT !.at = "set_err"]
  /\ UNCHANGED <<proc, err, calls, accepted, object>>

\* Mutant: the record is left in the buffer.
flush_Missing ==
  /\ rec.at = "write"
  /\ rec.done = rec.msg.size
  /\ rec' = [rec EXCEPT !.at = "set_err"]
  /\ UNCHANGED <<proc, stream, err, file, calls, accepted, object>>

\* write_tlv_log returned true: outs.flush().
flush ==
  /\ rec.at = "write"
  /\ rec.done = rec.msg.size
  /\ \E k \in 0..Len(stream[rec.sink].buf) :
       /\ Drain(rec.sink, k)
       /\ stream' = [stream EXCEPT ![rec.sink] = AfterWrite(@, @.buf, k)]
  /\ rec' = [rec EXCEPT !.at = "set_err"]
  /\ UNCHANGED <<proc, err, calls, accepted, object>>

\* Mutant: only the stream just written to is looked at.
set_err_OneStream ==
  /\ rec.at = "set_err"
  /\ err' = IF stream[rec.sink].st = "good" THEN "HEALTHY" ELSE "ERR_DISK"
  /\ rec' = Idle
  /\ proc' = rec.then
  /\ UNCHANGED <<stream, file, calls, accepted, object>>

\* Mutant: a fatal method returns early when the message was not written.
set_err_SkipsExit ==
  /\ rec.at = "set_err"
  /\ err' = IF \A s \in Sinks : stream[s].st = "good" THEN "HEALTHY" ELSE "ERR_DISK"
  /\ rec' = Idle
  /\ proc' = IF stream[rec.sink].st = "good" THEN rec.then ELSE "running"
  /\ UNCHANGED <<stream, file, calls, accepted, object>>

\* set_err(), and then the fatal methods call exit().
set_err ==
  /\ rec.at = "set_err"
  /\ err' = IF \A s \in Sinks : stream[s].st = "good" THEN "HEALTHY" ELSE "ERR_DISK"
  /\ rec' = Idle
  /\ proc' = rec.then
  /\ UNCHANGED <<stream, file, calls, accepted, object>>

-----------------------------------------------------------------------------
(* The other methods *)

level(l) ==
  /\ Ready
  /\ ilevel' = l
  /\ UNCHANGED <<proc, live, stream, err, std, rec, file, calls, accepted, base, closed>>

good == err = "HEALTHY"

\* Mutant: an invented error code.
close_NoPerm ==
  /\ Ready
  /\ err' = "ERR_NOPERM"
  /\ UNCHANGED <<proc, live, stream, ilevel, std, rec, file, calls, accepted, base, closed>>

\* close() closes the process's standard descriptors, not the two streams.
close ==
  /\ Ready
  /\ \/ /\ 1 \notin std
        /\ err' = "ERR_CLOSEFAIL"
        /\ UNCHANGED <<std, closed>>
     \/ /\ 1 \in std /\ 2 \notin std
        /\ std' = std \ {1}
        /\ err' = "ERR_CLOSEFAIL"
        /\ UNCHANGED closed
     \/ /\ StdFds \subseteq std
        /\ std' = {}
        /\ err' = "ERR_CLOSED"
        /\ closed' = TRUE
  /\ UNCHANGED <<proc, live, stream, ilevel, rec, file, calls, accepted, base>>

\* While no object exists its members have fixed values, except the streams,
\* which still tell where accepted's messages went.
NoObject ==
  /\ live' = FALSE
  /\ ilevel' = DEFAULT_LEVEL
  /\ err' = "ERR_OPEN"
  /\ closed' = FALSE

\* ~BinLogger: errs is destroyed before outs, and closing a filebuf tries
\* once more to write what its buffer still holds.
Destroy ==
  /\ live /\ rec = Idle
  /\ \E kE \in 0..Len(stream["errs"].buf), kO \in 0..Len(stream["outs"].buf) :
       LET f == [file EXCEPT ![stream["errs"].path] =
                   WriteAt(@, stream["errs"], SubSeq(stream["errs"].buf, 1, kE))]
       IN  file' = [f EXCEPT ![stream["outs"].path] =
                   WriteAt(@, stream["outs"], SubSeq(stream["outs"].buf, 1, kO))]
  /\ stream' = [s \in Sinks |-> [stream[s] EXCEPT !.buf = << >>]]
  /\ NoObject
  /\ UNCHANGED <<proc, std, rec, calls, accepted, base>>

-----------------------------------------------------------------------------
(* The process around the logger *)

delete == proc = "running" /\ Destroy

\* An object with static storage is destroyed while exit() runs.
AtExit == proc \in {"returned", "EXIT_FAILURE", "exitcode"} /\ Destroy

\* The program returns from main; no destructor of a heap object runs.
Return ==
  /\ proc = "running" /\ rec = Idle
  /\ proc' = "returned"
  /\ UNCHANGED <<stream, err, rec, file, calls, accepted, object>>

\* The program is killed, possibly in the middle of a record.
Kill ==
  /\ proc = "running"
  /\ proc' = "killed"
  /\ rec' = Idle
  /\ UNCHANGED <<stream, err, file, calls, accepted, object>>

\* Someone else closes a standard descriptor.
LoseStd ==
  /\ Ready
  /\ \E fd \in std : std' = std \ {fd}
  /\ UNCHANGED <<proc, live, stream, ilevel, err, rec, file, calls, accepted, base, closed>>

\* The program is run again; the files are as it left them.
Restart ==
  /\ proc # "running"
  /\ proc' = "running"
  /\ std' = StdFds
  /\ NoObject
  /\ UNCHANGED <<stream, rec, file, calls, accepted, base>>

Init ==
  /\ proc = "running"
  /\ live = FALSE
  /\ \E p \in Paths : stream = [s \in Sinks |-> Opened(p, BIN_DEFAULT_FLAGS, FALSE)]
  /\ ilevel = DEFAULT_LEVEL
  /\ err = "ERR_OPEN"
  /\ std = StdFds
  /\ rec = Idle
  /\ file = [p \in Paths |-> << >>]
  /\ calls = 0
  /\ accepted = [s \in Sinks |-> << >>]
  /\ base = [p \in Paths |-> 0]
  /\ closed = FALSE

\* The steps of a log call in progress.
Step == put \/ flush \/ set_err

Next ==
  \/ open_binlogfile
  \/ debug \/ info \/ warn \/ error \/ critical
  \/ fatal \/ fatal_code \/ fatal_noexit
  \/ Step
  \/ \E l \in LevelChoices : level(l)
  \/ close
  \/ delete \/ AtExit \/ Return \/ Kill \/ LoseStd \/ Restart

\* A log call runs to its end: it is plain sequential code, and writing to a
\* file returns, with success or an error.
Spec == Init /\ [][Next]_vars /\ WF_vars(Step)

-----------------------------------------------------------------------------
(* Properties *)

\* No constructor call lets two streams keep their own offsets in one file.
NoClobber == \A o \in Opens : o.truncate => o.logfile # o.errfile

\* When good() says true between two calls, every message the object accepted
\* is in its file whole: a failure of any write or flush since the
\* construction shows in good(), and never stops showing (klogger/binlog.hh,
\* set_err; klogger/logger.hh: a LogError is the reason that "the logger
\* cannot write log messages").
HealthyIsDurable ==
  Ready /\ good =>
    \A s \in Sinks : \A i \in 1..Len(accepted[s]) :
      Readable(file[stream[s].path], accepted[s][i])

\* When good() says true between two calls, a reader that begins where the
\* object began finds nothing but whole records: no piece of a record given
\* up, no record inside another, also when outs and errs share the file.
Part(p) == SubSeq(file[p], base[p] + 1, Len(file[p]))
WholeRecords(f, msgs) ==
  \A i \in 1..Len(f) :
    \E m \in msgs :
      /\ f[i][1] = m.id
      /\ f[i][2] > 1 => i > 1 /\ f[i - 1] = <<m.id, f[i][2] - 1>>
      /\ f[i][2] < m.size => i < Len(f) /\ f[i + 1] = <<m.id, f[i][2] + 1>>
Accepted == {accepted[x[1]][x[2]] :
               x \in {y \in Sinks \X (1..MaxCalls) : y[2] <= Len(accepted[y[1]])}}
HealthyIsFramed ==
  Ready /\ good => \A p \in Paths : WholeRecords(Part(p), Accepted)

\* A kill at any point, also between two pieces of a record, loses at most
\* the message of the call it interrupts: on a stream that never failed no
\* earlier message is waiting in a buffer.
KillLosesOne ==
  live =>
    \A s \in Sinks : stream[s].st = "good" =>
      \A i \in 1..Len(accepted[s]) :
        \/ Readable(file[stream[s].path], accepted[s][i])
        \/ accepted[s][i].id = calls /\ (rec # Idle \/ proc = "killed")

\* What DurableLog promises, of each stream.  The message of a call counts
\* from the moment its fate is decided: when flush has run, a piece has failed
\* or the process is killed.
Pending(s) == IF rec.at = "write" /\ rec.sink = s THEN 1 ELSE 0
Alive == live /\ proc # "killed"
Ok(s) == stream[s].st = "good"
Logged(s) == Len(accepted[s]) - Pending(s)
Stored(s) == {i \in 1..Len(accepted[s]) :
                Readable(file[stream[s].path], accepted[s][i])}
Owed(s) == stream[s].st # "good" /\ stream[s].buf # << >>
Outs == INSTANCE DurableLog WITH alive <- Alive, ok <- Ok("outs"),
  logged <- Logged("outs"), stored <- Stored("outs"), owed <- Owed("outs")
Errs == INSTANCE DurableLog WITH alive <- Alive, ok <- Ok("errs"),
  logged <- Logged("errs"), stored <- Stored("errs"), owed <- Owed("errs")
Contract == Outs!Spec /\ Errs!Spec

\* A fatal message ends the process with the status the method promises, also
\* when the message cannot be written.
FatalExits ==
  \A e \in {"EXIT_FAILURE", "exitcode"} :
    (rec # Idle /\ rec.then = e) ~> proc \in {e, "killed"}

\* klogger/logger.hh: "a closed logger should return ERR_CLOSED once it is
\* closed"; at least it is never healthy again.
ClosedNeverHealthy == live /\ closed => err # "HEALTHY"

=============================================================================
