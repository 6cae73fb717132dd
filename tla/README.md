# TLA+ models of klogger

klogger is a C++11 logging library: an abstract `Logger` and four
implementations, one for the console, one for syslog, one for text files and
one for binary files.  The modules in this directory model all four loggers, the
streams and files under them, the binary record format, and loggers of all
classes side by side in one process.  `DurableLog` states what a logger on files
promises, and both loggers on files are shown to implement it.  TLC checks the models on small
instances; TLAPS proves all the invariants, and both refinements, for all instances.

Paths below are those of the repository (`src/filelog.cc`, `doc/manual.rst`).

## The system

| Component | State | Operations | Works with |
|---|---|---|---|
| Levels, errors, `LEVEL_CHECK` (`src/klogger/logger.hh`, `src/internal.hh`) | none | the filter at the head of every log method | every logger |
| `FileLogger` (`src/filelog.cc`) | `outs`, `errs`, `ilevel`, `err` | two constructors, six log methods (`fatal` in three forms), `level`, `good`, `error`, `close`, destructor | `write_log` in `src/logger.cc`; two `ofstream`s, possibly on one file; the process's descriptors 1 and 2 |
| `BinLogger` (`src/binlog.cc`) | the same | the same, and `set_err` after every message | `tlv::write_tlv_log`, which writes to the stream in many pieces |
| TLV encoding (`src/tlv.cc`) | none | `write_length`, `write_string`, ..., `write_tlv_log`, `log_length` | `BinLogger` |
| `ConsoleLogger` (`src/console.cc`) | `ilevel`, `err` | the `Logger` interface | `std::cout` and `std::cerr`, descriptors 1 and 2, shared with the program and with the other loggers' `close` |
| `Syslogger` (`src/syslog.cc`) | `ident`, `ilevel`, `err` | the `Logger` interface | the process-wide state of `openlog`, `syslog`, `closelog` |
| Text format (`src/logger.cc`) | none | `write_log`, `log_to_string_nt`, `timestamp` | `FileLogger`, `ConsoleLogger`, `Syslogger` |

The library has no threads and no locks: `doc/funspec.rst:329` sets
"single-threaded console, syslog, and file logger" as its first milestone.  A log
call runs on the caller's thread.  What makes the code hard to test is elsewhere:

* **Failure.**  A disk fills up or an open fails at any moment.  A flush can put
  part of a record on the disk; the stream remembers the error for ever, keeps
  its buffer, and its destructor tries to write the buffer once more.
* **Two streams, one file.**  In the one-file form a logger has two streams on
  one file.
* **Crash and restart.**  Files outlive the process; a kill leaves torn records
  that the next run appends to or truncates.
* **Call sequences.**  `close` closes descriptors 1 and 2 instead of the streams,
  `set_err` assigns `err` again after every message, `good` reports a member and
  not the streams.
* **Shared state of the process.**  Any logger's `close` takes descriptors 1 and 2 away from all;
  the next file opened gets their numbers.  All `ConsoleLogger`s share two streams and their error
  state, all `Syslogger`s one connection, one identity and one set of options.
* **Numbers.**  The length in a record's header is computed by other code than
  the code that writes the record.

What makes each component correct:

* `FileLogger`: nothing accepted is lost, torn, reordered or overwritten as long as
  its stream did not fail; after a failure only the tail is lost; files only grow,
  unless truncation was asked for; `good` and `close` mean what the header says.
* `BinLogger`: `good` is true only if everything accepted is in the file and the file
  has nothing torn in it; a kill costs one message; `fatal` ends the process.
* TLV: a reader recovers every length, and the header's length leads it to the next
  record.
* `ConsoleLogger`, `Syslogger`: loggers that share the process's state do not
  disturb each other.

`PROJECT.json` has the hazards line by line with the properties that cover them.

## Modules

| Module | Models |
|---|---|
| `Levels` | `Level`, `LogError`, `LEVEL_CHECK` |
| `LogStream` | what the loggers use of `std::ofstream` over a POSIX file |
| `FileLogger` | `FileLogger` over `LogStream`, and the process around it |
| `BinLogger` | `BinLogger` over `LogStream`, and the process around it |
| `Tlv` | lengths and records of `tlv.cc` |
| `DurableLog` | abstract: what a logger on files promises of one stream; implemented by `FileLogger` and `BinLogger` |
| `Runtime` | the descriptor table and what all loggers have in common; `close` of the three classes that share it |
| `Console`, `Disk`, `Syslog` | `ConsoleLogger`; `FileLogger` and `BinLogger` as owners of descriptors; `Syslogger` over the C library |
| `Process` | the three side by side on the state of `Runtime` (`INSTANCE`) |
| `MCFileLogger`, `MCBinLogger`, `MCTlv`, `MCProcess` | the instances TLC checks |
| `FileLoggerProofs`, `BinLoggerProofs`, `DurableLogProofs`, `ProcessProofs`, `TlvProofs` | theorems about the module of that name |
| `FileLoggerContract`, `BinLoggerContract` | what the two loggers leave in their files, and that they implement `DurableLog` |
| `LogStreamLemmas` | lemmas about streams and files that both loggers' proofs use |

A definition has the name of the code it stands for where there is one; the `map`
in `PROJECT.json` gives the lines.  An operator whose name ends in a `_Suffix` and
whose comment begins with "Mutant" is a deliberately wrong variant of the definition after
it; no specification uses it.

### LogStream: streams and files

A file is a sequence of cells.  Cell `<<m, i>>` is the i-th piece of the record of
message `m`, so a torn record (some of its pieces), a lost one (none) and one that
was overwritten can be told apart, and nothing else about the text matters.
A record has any length in `Sizes`.

A stream is its path, whether it was opened with `app`, its file offset (kept at 0
for `app` streams, which write at the end of the file), its state and what its buffer holds.
Libstdc++ on Linux, of GCC 12 or later, is the reference for what the code calls:

* opening with `out` but not `app` empties the file, with or without `trunc`;
* a write or flush that reaches only the first `k` of `n` cells sets `bad`, keeps the whole
  buffer and moves the offset by `k`;
* on a stream that is not good `<<`, `write` and `flush` do nothing (older versions of libstdc++ still hand
  such a `flush` to the buffer; they are not modelled);
* the destructor of a stream tries once more to write the buffer; `errs` is
  destroyed before `outs`.

### FileLogger

The variables `stream`, `ilevel` and `err` are the object's members; `live` says
whether an object exists and `proc` whether the process runs and how it ended; `std`
is the open ones of descriptors 1 and 2; `file` outlives the process.
`accepted` and `closed` are history variables that only properties read.

One action is one method call.  `write_log` ends in `std::endl`, so a record is one
flush; how much of it reaches the disk is a nondeterministic choice from nothing to
all, which covers a full disk, an I/O error and a disk that works again later.  The
actions of the process are `End` (return from `main` or a kill), `AtExit` (`exit`
destroys an object with static storage), `LoseStd` (the program closes descriptor 1 or
2) and `Restart`.  A call that `LEVEL_CHECK` turns away changes nothing and is a
stuttering step.

The catch clauses of the constructors (`filelog.cc:54`) are not modelled: no exception
mask is set on the streams, so `open` does not throw.  No code path assigns `ERR_DISK`
in `FileLogger`, and `TypeOK` says so.

### BinLogger

The same state, and `rec`, the log call in progress: which stream, which message, how
many pieces the stream has accepted.  A log call is a series of steps: `put`, one
`outs.write` of `write_tlv_log` and the test of `outs.good()` after it; `flush`, which
`binlog.cc:53` reaches only if every piece was accepted; `set_err`.  A stream's buffer
holds `BufSize` pieces and is written out when the next piece does not fit, so part of a
record can be in the file before its flush.  A kill or a full disk can come between any
two steps.

### Tlv

`write_length` and `length_octets` are functions of the length, with the code's two
scans: one over bits for the number of octets, one over bytes for the first octet to
write.  A string is its length.  The actions are the steps of `write_tlv_log`: the loop of
`log_length` that computes `declared`, the header, the time, the level and the strings;
`size` counts the octets behind the header.  `size_t` has `Octets` octets.

### DurableLog

One stream of one object: `alive`, `ok` (the stream never failed), the number of messages
`logged`, the set `stored` of those a reader finds whole, and `owed` (the one failed message may
still be written when the object is destroyed).  `Store` stores a message before the call
returns; `Fail` loses one and ends the storing; `Drop` is a call after that; `Destroy` may write
the owed message, which is always the next one; `Crash` may lose the message of the call in
progress.  There are no buffers, pieces, offsets, shared files or error codes.

`FileLogger` and `BinLogger` instantiate it once per stream.  The refinement mapping reads
`stored` off the files: the positions in `accepted` whose records are `Readable`.  In
`BinLogger`, where a call is many steps, the message in progress counts as `logged` from
the step that decides its fate.  A truncating constructor begins a new life of the
abstract log; that bytes of earlier objects survive otherwise is `AppendOnly`.

### Process: Runtime, Console, Disk, Syslog

`fds` is the process's descriptor table: what each number is open on.  Opening takes the lowest
free number, or fails when there is none; `close(2)` frees a number whoever holds it.  `err` and
`ilevel` are the members all classes have; `err[l] = "none"` says that there is no object `l`.

* `Console`: `console` is the state of `std::cout` and `std::cerr`.  A write to a closed
  descriptor sets `badbit`, nobody clears it, and the C library drops the text.
* `Disk`: what `FileLogger` and `BinLogger` leave out, the numbers of the two streams' descriptors.
  A record is written whole or not at all, and its contents are left out.
  The destructor closes the numbers it once got, `errs` first.
* `Syslog`: `slog` is the GNU C library's static state: whose options `openlog` set last, which string its
  pointer points into, and the connection's number; `text` is what the memory there spells.  A string is the
  constructor's parameter `name` or the member `ident` of an object, and exists as long as it or the object does
  (`Exists`): between two calls a parameter never does, and when a message is logged others may have taken its memory
  (`Spelled`).  A message to a connection that is no longer one
  closes that number and connects again.  syslogd may stop and start (`Daemon`).

Where a message written now would arrive is an operator (`Reaches`) that both the write
action and the properties use.  `Process` puts the three side by side; a step of one leaves the
variables of the others alone and acts on the shared table.  `exit`, a return from `main`, the
destruction of some, all or none of the objects after it, and the next run of the program are included.

Every execution of `Tlv` ends when `write_tlv_log` returns, so its runs do not check for
deadlock.  The runs of the loggers do: from every state there is a next step.

## Runs

| Run | Checks | Instance |
|---|---|---|
| `file_safe` | `TypeOK`, `GoodIsComplete`, `NoGaps`, `CallOrder`, `AppendOnly`, `Contract` | 2 files, records of 1 and 2 cells, 3 log calls |
| `file_truncated` | violation of `GoodIsComplete` | one file, `truncate` |
| `file_good` | violation of `HealthyCanWrite` | as `file_safe` |
| `file_close` | violation of `ClosedWritesNothing` | as `file_safe` |
| `bin_safe` | `TypeOK`, `HealthyIsDurable`, `HealthyIsFramed`, `KillLosesOne`, `FatalExits`, `Contract` | 2 files, records of 1 and 3 pieces, buffer of 2, 2 log calls |
| `bin_truncated` | violation of `HealthyIsDurable` | one file, `truncate` |
| `bin_closed` | violation of `ClosedNeverHealthy` | as `bin_safe` |
| `tlv_records` | `TypeOK`, `LengthsReadBack`, `ShortIsExact` | 3 octets, records of 2 and 4 strings |
| `tlv_declared` | violation of `DeclaredIsExact` | as `tlv_records` |
| `process_safe` | `TypeOK`, `OwnedAbove2`, `AtHomeUnlessReused`, `OneIsClosed` | a console, a binary and a syslog logger, 4 descriptors |
| `process_reuse` | violation of `HealthyAtHome` | a console, a file and a binary logger, 6 descriptors |
| `syslog_ident` | violation of `Identified` | one syslog logger |

What the passing runs show:

* **`file_safe`.**  Except when two streams keep their own offsets in one file, a stream
  that never failed has all its messages whole in its file (`GoodIsComplete`); of the
  messages to a failed stream a prefix survives, never with a gap, also when the destructor
  flushes late (`NoGaps`); records stand in the order of the calls, also across the two
  streams, except the one record on which a stream failed (`CallOrder`); no byte in a file
  ever moves or goes away (`AppendOnly`).
* **`bin_safe`.**  `good()` of a `BinLogger`, unlike that of a `FileLogger`, can be relied
  on between two calls: when it is true, everything accepted is in the files
  (`HealthyIsDurable`) and the object's part of each file is whole records
  (`HealthyIsFramed`).  A kill at any point costs at most the message of the
  interrupted call (`KillLosesOne`).  A fatal call ends the process although the
  message may not be written (`FatalExits`).
* **`Contract`** (in both).  Each of the two streams of a `FileLogger`, and of a `BinLogger`,
  behaves as `DurableLog` says, step by step: what is stored stays stored, in the order of the
  calls, a failure ends the storing for good, and the one message that may appear late is the
  first one missing.
* **`process_safe`.**  Whatever the loggers do to each other through `close`, destructors and
  syslog's reconnecting, a descriptor above 2 has exactly one holder, is open on the holder's own file or
  connection and is closed with it (`OwnedAbove2`).  As long as nothing was opened as descriptor 1 or 2, every
  message arrives where its class says, or nowhere (`AtHomeUnlessReused`), and no two loggers that `close` descriptors 1
  and 2 are `ERR_CLOSED` at the same time (`OneIsClosed`).
* **`tlv_records`.**  An independent reader of the length octets gets back every length on
  both sides of every change of form (`LengthsReadBack`); with strings of at most 127
  octets the header's length is exact (`ShortIsExact`).  `MCTlv` also evaluates the test
  vectors of `src/tlv_test.cc` as an assumption.

### Bounds, and why they are enough

* *Files:* two.  A logger has at most two streams, and the file operations of different
  files do not interact.
* *Records:* one cell cannot be torn and two can.  For `BinLogger` with a
  buffer of two pieces, a record of one piece fits and one of three does not.
* *Log calls:* three for `FileLogger`: a message before, one on which the stream fails and
  one after it, on any of the streams, over restarts.  Two for `BinLogger`, whose calls take
  several steps each: one that fails and one that follows.
* *Levels:* `level()` takes `DEBUG` and `FATAL`, the two ends; the default `INFO` lies between.
* *`Tlv`:* with three octets there are all forms of one, two and three octets; lengths are on
  both sides of each change.  The theorems hold for any width up to 127 octets, and so for the eight of the code.
* *Constructors:* the passing runs leave out `(file, true)` and `(f, f, true)`, in which two
  streams keep their own offsets in one file; `file_truncated` and `bin_truncated` show
  what happens then.
* *A record fits in the buffer* of a `FileLogger`'s stream (8 KB), so one flush writes it.
  `BinLogger` has the case of a record larger than the buffer.
* *Descriptors 1 and 2 are open* when a logger is constructed in `FileLogger` and `BinLogger`.
  Otherwise its files get those numbers and `close` closes them: `Process` has this case.
* *`Process`:* one logger of each kind is enough for two of them to take a number from each other, and for
  one to close what another uses.  With four descriptors there are two above 1 and 2, and the loggers want three:
  they run out while 1 and 2 are open, and do not once 1 and 2 are free.  `LevelChoices` is `DEBUG`, so that every log
  method can get past the filter.  An object with another level than its first is alone (`MaxBeside` is 0): a level
  decides nothing but which of its own object's messages are dropped, and `debug` goes where `info` goes.  The theorems hold for
  every `MaxBeside`, and so without the bound.
  `FileLogger` and `BinLogger` differ there only in `set_err`, so the passing run has the latter.

### Fairness

`FileLogger` and `Tlv` state no liveness and assume no fairness.  `BinLogger` assumes
`WF_vars(Step)`, where `Step` is the steps of a log call in progress: it is sequential code with bounded
loops, and a write to a file returns, with success or an error.  Nothing makes the program
call a method; it may stay idle, be killed or return at any time.

## Disagreements between the code and what it says

Each is the counterexample of a run.

1. **`file_truncated`, `bin_truncated`.**  `FileLogger(file, true)` and `BinLogger(file, true)`
   open `outs` with `out|trunc` and `errs` with `out|app` on one file (`filelog.cc:51-52`,
   `binlog.cc:69-70`).  `outs` writes at its own offset over what `errs` appended: a
   `warn` followed by an `info` loses the warning on a healthy disk.
2. **`file_good`.**  No log method of `FileLogger` looks at its stream, so `good()` stays true
   after a failed write, while every later message is dropped (`logger.hh:205`).
3. **`file_close`.**  `close()` closes descriptors 1 and 2 and not the files; a closed logger
   goes on writing (`doc/manual.rst:313`).
4. **`bin_closed`.**  The first message after `close()` turns `ERR_CLOSED` into `HEALTHY`
   (`logger.hh:213`).
5. **`tlv_declared`.**  `log_length` counts the octets of a string's length field without the
   `0x80 + n` in front of them; a record with a string of 128 octets or more is longer than its
   header says, so a reader loses the next record.

6. **`process_reuse`.**  `close()` of any logger frees descriptors 1 and 2, the next logger's file is
   opened as descriptor 1, and a `ConsoleLogger` that nobody closed and that calls itself good
   writes into that file (`README.rst:68`).
7. **`syslog_ident`.**  `openlog` keeps the pointer into the constructor's parameter, not into the member
   `ident`; a message is filed under whatever that memory holds when it is logged (`syslog.hh:86`).  There is one logger,
   so that nobody else changes its identity: that another `Syslogger` does is what `syslog.hh:79` warns of.  With
   `<<l, "ident">>` for `<<l, "name">>` in `Syslogger`, `Identified` holds in this instance.

One more was seen while reading, and no run is about it: `doc/manual.rst:283` says that `close` of `ConsoleLogger`
"closes standard input and standard error"; the code closes standard output and standard error (`console.cc:218`).

## Proofs

Every theorem holds for all values of the constants that satisfy the named assumptions of the modules.
Besides types (a record has at least one piece, a buffer holds at least one), they say
that file names are none of the marks of the descriptor table (`PathsAssumption`), that an
object has one class (`ClassesAssumption`), that the number of octets of a `size_t` fits in seven bits
(`OctetsAssumption`) and that the strings of one record, which are in memory together, have a total length that fits
in a `size_t` (`LengthsAssumption`).  Several theorems have one hypothesis more, `NoClobber`: no constructor call
with `truncate` names one file for both streams.  `file_truncated` and `bin_truncated` show that it is needed.

| Component | Property | Theorem |
|---|---|---|
| `FileLogger` | `TypeOK` | `FileLoggerProofs!TypeCorrect` |
| | `GoodIsComplete`, `AppendOnly` | `FileLoggerProofs!Complete`, `!OnlyAppends` (`NoClobber`) |
| | `NoGaps`, `CallOrder`, `Contract` | `FileLoggerContract!Gapless`, `!InCallOrder`, `!Implements` (`NoClobber`) |
| `BinLogger` | `TypeOK` | `BinLoggerProofs!TypeCorrect` |
| | `HealthyIsDurable`, `KillLosesOne` | `BinLoggerProofs!Durability`, `!LossBound` (`NoClobber`) |
| | `HealthyIsFramed`, `Contract` | `BinLoggerContract!Framed`, `!Implements` (`NoClobber`) |
| `DurableLog` | `Complete`, `Prefix` | `DurableLogProofs!NothingMissing`, `!NoMiddleLost` |
| `Process` | `TypeOK`, `OwnedAbove2` | `ProcessProofs!TypeCorrect`, `!Ownership` |
| | `AtHomeUnlessReused`, `OneIsClosed` | `ProcessProofs!NothingStrays`, `!ClosesOnce` |
| `Tlv` | `TypeOK` | `TlvProofs!TypeCorrect` |
| | `LengthsReadBack`, `ShortIsExact` | `TlvProofs!AllReadBack`, `!ShortRecords` |

Each rests on an invariant that is inductive.

### FileLogger

* `TypeInv == TypeOK /\ PosInside`.  `TypeOK` alone is not inductive: a write through a stream whose
  offset lies beyond the end of its file would leave a hole, and the file would be no sequence of
  cells.  `PosInside` says no offset is there.
* `IInv == TypeInv /\ Appending /\ GoodIsComplete`.  `Appending` says that no write overwrites: of a live
  object every stream is an `app` stream or stands at the end of its file, and two streams on one file
  are both `app`.  Every step but a construction then makes each file longer at its end only
  (`StepGrows`), which keeps every readable record readable and is `AppendOnly`; a construction begins
  with an empty `accepted`.
* `OInv == IInv /\ Recorded`.  `NoGaps` is not inductive: it does not say that a message logged after a
  failure leaves nothing in a file, nor what the destructor may still write.  `Recorded` does.  `Numbered`: no
  message has the number of another, in the files or in `accepted`, and numbers grow.  `HoldsBack`: only a stream on which a
  write failed holds something in its buffer.  `KeptAll`: of each stream the first `n` messages are in its file, no piece of
  any after the next one is in a file, and the buffer holds pieces of that next one only.  `CallOrder` is inductive together with
  `OInv`.

The refinement follows the mapping of the instances `D(s)`: under `OInv` the readable messages of a stream are
the first `n` or the first `n + 1`, so every step of the logger is a step of the abstract log or a
stutter, for the one stream and for the other.

### BinLogger

A call is many steps, so the invariants speak of the record in progress.

* `IInv == TypeInv /\ Appending /\ InProgress /\ Quiet /\ Durable /\ Healthy`.  `InProgress`: the message of the
  call is the last one accepted, and as long as its stream is good the pieces it was given are, in order, at the end of the
  file and in the buffer.  `Quiet`: between records a good stream's buffer is empty.  `Durable`: what a good
  stream was told to log is in its file, but for the record in progress, or the one a kill interrupted.  `Healthy`: `good()` means
  that neither stream failed.  `HealthyIsDurable` alone says nothing in the middle of a call, nor where the next write goes;
  `KillLosesOne` is read off the same invariant.
* `OInv == IInv /\ Recorded` and the refinement are as for `FileLogger`, with one lemma per step of a call; `HoldsBack` is
  not needed, since `Quiet` and `InProgress` say what a good stream's buffer holds.
* `FInv == IInv /\ Framing /\ Counted`.  `Framing`: while no stream failed, the object's part of each file is
  whole records, followed by exactly the pieces of the record in progress that have left the buffer
  (`Partial`).  `HealthyIsFramed` is its value between two calls.

### DurableLog

Neither `Complete` nor `Prefix` is inductive alone: `Store` adds a number above all others, so `Prefix` needs
`Complete`.  Together with `Contract` they are a second argument for `NoGaps`, of both loggers, that does not look at
cells.

### Process

* `OwnInv == TypeOK /\ NoObject /\ Owned(fds, Nums, slog.fd)`.  `Nums` is the number each stream of each logger on
  files has.  `Owned`: a number above 2 is open exactly when a stream or the connection to syslogd has it, then only one has, and it
  is open on what belongs to that one.  `NoObject`: who has no object has no numbers.  The lemmas about `Owned` are about one open or one close;
  a constructor of two streams, a destructor or a reconnecting `syslog` are several after each other.
* `StdInv == OwnInv /\ (~reused => AtStd(fds, Nums, slog.fd) /\ ClosedOnce)`.  `AtStd`: 1 and 2 are what they were at the
  start, or closed, and no stream or connection has them.  `ClosedOnce`: if a logger is `ERR_CLOSED`, both are closed and it is the only one.
  `AtHomeUnlessReused` and `OneIsClosed` say nothing of a closed descriptor 1 while no logger is `ERR_CLOSED`, so they are not inductive.

### Tlv

* `LenInv` is `TypeOK`, the form of every item written, and a bound on `declared` after each string.  `TypeOK` says that
  `declared` is a `size_t`, but alone would let the next string make it overflow; the bound, `c` for each string so far, and
  `LengthsAssumption` rule that out (`SumFits`).  What `LengthsReadBack` rests on is `ReadBack`: for every
  length `n` of a `size_t` of any width, the reader gets back `n` from `write_length(n)`.  A length above 127 lies between two
  powers of two (`Between`), so the scan over bits finds the lower one (`HighestBitIs`), and its
  octet is the first that the scan over octets finds not to be zero (`LongIs`); then the sum that the reader has after each octet is `n`
  without the octets still to come (`NumberIs`).  Claims about all numbers, for which one would use induction, are
  proved by looking at the least number of which they fail (`Least`).
* `SumInv`.  `log_length` and `write_tlv_log` go over the same strings in two loops.  The invariant relates them by the sequence
  of the sums on the way: the first loop makes it and the second one follows it.  So the proof needs no induction over the strings,
  only the one over steps.

### Only model-checked

`FatalExits`: liveness under fairness is out of the prover's reach.

## Not modelled

* Several threads: the code is single-threaded by design, see above; several processes on one file: nothing in the
  code or the documents speaks of it.
* Priorities, facilities and the options of `Syslogger` that concern neither a descriptor nor a place a message
  goes to (`PID`, `NoWait`): they are handed through to the C library.
* The order in which static objects of several source files are initialised (`level_strings`,
  `internal.hh:49`): the program's linker chooses it.
* The wording of messages, `timestamp`, `log_to_string_nt`, `hex_encode`: pure formatting; no property is about
  the text.
* The test programs, build files and packaging.

## Plan

All modules of the plan are written:

1. `Levels`, `LogStream`, `FileLogger`, its runs and its three theorems.
2. `BinLogger` and its runs.
3. `Tlv` and its runs.
4. `Runtime`, `Console`, `Disk`, `Syslog` and their composition `Process`.
5. `DurableLog`, its theorems, and the two refinements as properties of `file_safe` and `bin_safe`.
6. The proofs: types and safety of each component, then both refinements.

Every invariant and every refinement the passing runs check is proved.  Left to do: shorten the longest
proofs of `ProcessProofs`, where each class of logger repeats the same steps.

## Running

    tlc -workers 2 -config FileLogger_safe.cfg MCFileLogger     # about a minute and a half
    tlc -workers 2 -config BinLogger_safe.cfg MCBinLogger       # 15 seconds
    tlc -workers 2 -config Tlv_records.cfg MCTlv
    tlc -workers 2 -config Process_safe.cfg MCProcess           # half a minute
    for m in LogStreamLemmas DurableLogProofs FileLoggerProofs FileLoggerContract \
             BinLoggerProofs BinLoggerContract ProcessProofs TlvProofs
    do tlapm $m.tla; done                                       # some minutes
