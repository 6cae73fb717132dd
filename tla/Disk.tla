--------------------------------- MODULE Disk -------------------------------
(***************************************************************************)
(* klog::FileLogger and klog::BinLogger as owners of descriptors: what     *)
(* FileLogger and BinLogger leave out because there the files are never    *)
(* open as descriptor 1 or 2.                                              *)
(***************************************************************************)
EXTENDS Runtime

CONSTANTS FileLoggers, BinLoggers,
          FileOf   \* the files a logger is constructed with, by its streams

Disks == FileLoggers \cup BinLoggers

VARIABLE stream   \* the members outs and errs of each logger

vars == <<shared, stream>>

\* fd: 0 when the stream is not open.  kept: its buffer holds a record that
\* could not be written.
Unopened == [fd |-> 0, st |-> "fail", kept |-> FALSE]

TypeOK ==
  stream \in [Disks -> [Sinks -> [fd : 0..NFds, st : {"good", "fail", "bad"},
                                  kept : BOOLEAN]]]

Init == stream = [l \in Disks |-> [s \in Sinks |-> Unopened]]

-----------------------------------------------------------------------------

\* Both classes: outs is opened before errs.  Opening fails for want of a
\* descriptor or for reasons of the file.
Construct(l) ==
  \E okO, okE \in BOOLEAN :
    LET o == OpenFd(fds, FileOf[l]["outs"], okO)
        e == OpenFd(o.table, FileOf[l]["errs"], okE)
        New(r) == [fd |-> r.fd, st |-> IF r.fd = 0 THEN "fail" ELSE "good",
                   kept |-> FALSE]
    IN  /\ Constructed(l, e.table,
                       IF o.fd # 0 /\ e.fd # 0 THEN "HEALTHY" ELSE "ERR_OPEN")
        /\ stream' = [stream EXCEPT ![l] = [s \in Sinks |->
                        IF s = "outs" THEN New(o) ELSE New(e)]]
        /\ reused' = (reused \/ {o.fd, e.fd} \cap StdFds # {})

\* FileLogger never looks at its streams again; BinLogger's set_err does.
set_err(l) ==
  err' = IF l \in FileLoggers THEN err
         ELSE [err EXCEPT ![l] =
                IF \A s \in Sinks : stream'[l][s].st = "good"
                THEN "HEALTHY" ELSE "ERR_DISK"]

\* Where a message arrives that is written now, or was kept.
Reaches(l, s) ==
  LET m == stream[l][s]
  IN  IF m.st = "good" \/ m.kept THEN Reached(m.fd) ELSE {}

\* write_log and write_tlv_log.
Write(l, s) ==
  /\ \/ stream[l][s].st = "good" /\ Reaches(l, s) # {} /\ UNCHANGED stream
     \/ /\ stream[l][s].st = "good"
        /\ stream' = [stream EXCEPT ![l][s].st = "bad", ![l][s].kept = TRUE]
     \/ stream[l][s].st # "good" /\ UNCHANGED stream
  /\ set_err(l)
  /\ UNCHANGED <<fds, ilevel, reused>>

debug(l) == Called(l, DEBUG, "running") /\ Write(l, "outs")
info(l) == Called(l, INFO, "running") /\ Write(l, "outs")
warn(l) == Called(l, WARN, "running") /\ Write(l, "errs")
error(l) == Called(l, ERROR, "running") /\ Write(l, "errs")
critical(l) == Called(l, CRITICAL, "running") /\ Write(l, "errs")
fatal(l) == Called(l, FATAL, "exiting") /\ Write(l, "errs")
fatal_code(l) == Called(l, FATAL, "exiting") /\ Write(l, "errs")
fatal_noexit(l) == Called(l, FATAL, "running") /\ Write(l, "errs")

level(l, v) == SetLevel(l, v) /\ UNCHANGED stream

\* Mutant: the descriptors of the two streams are closed behind their back.
close_Numbers(l) ==
  /\ Live(l)
  /\ fds' = CloseFd(CloseFd(fds, stream[l]["errs"].fd), stream[l]["outs"].fd)
  /\ err' = [err EXCEPT ![l] = "ERR_CLOSED"]
  /\ UNCHANGED <<proc, ilevel, reused, stream>>

close(l) == CloseStd(l) /\ UNCHANGED stream

\* Mutant: outs is never closed.
Destroy_Leak(l) ==
  /\ Destroyed(l, CloseFd(fds, stream[l]["errs"].fd))
  /\ stream' = [stream EXCEPT ![l] = [s \in Sinks |-> Unopened]]

\* The streams' destructors, errs before outs: each tries once more to write
\* what it kept, then closes its descriptor, whatever that number is by now.
Destroy(l) ==
  /\ Destroyed(l, CloseFd(CloseFd(fds, stream[l]["errs"].fd), stream[l]["outs"].fd))
  /\ stream' = [stream EXCEPT ![l] = [s \in Sinks |-> Unopened]]

Next ==
  \E l \in Disks :
    \/ Construct(l)
    \/ debug(l) \/ info(l) \/ warn(l) \/ error(l) \/ critical(l)
    \/ fatal(l) \/ fatal_code(l) \/ fatal_noexit(l)
    \/ \E v \in LevelChoices : level(l, v)
    \/ close(l)
    \/ Destroy(l)

\* Where the class comments say messages go.
Home(l, s) == {FileOf[l][s]}

=============================================================================
