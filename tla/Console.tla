------------------------------- MODULE Console ------------------------------
(***************************************************************************)
(* klog::ConsoleLogger (console.cc, klogger/console.hh): all objects of    *)
(* the class write to the process's one std::cout and one std::cerr.       *)
(***************************************************************************)
EXTENDS Runtime

CONSTANT Consoles

VARIABLE console  \* the state of std::cout ("outs") and std::cerr ("errs")

vars == <<shared, console>>

TypeOK == console \in [Sinks -> {"good", "bad"}]

Init == console = [s \in Sinks |-> "good"]

-----------------------------------------------------------------------------

ConsoleLogger(l) == Constructed(l, fds, "HEALTHY") /\ UNCHANGED <<console, reused>>

\* Where a message arrives that is written to std::cout or std::cerr now.
Reaches(s) == IF console[s] = "good" THEN Reached(StdFd(s)) ELSE {}

\* write_log(std::cout, ...) or write_log(std::cerr, ...).  A write that fails
\* sets the stream's badbit, which nobody ever clears, and the C library drops
\* the text; on a stream that is bad nothing is written.
write_log(l, s) ==
  /\ \/ Reaches(s) # {} /\ UNCHANGED console
     \/ console' = [console EXCEPT ![s] = "bad"]
  /\ UNCHANGED <<fds, err, ilevel, reused>>

debug(l) == Called(l, DEBUG, "running") /\ write_log(l, "outs")
info(l) == Called(l, INFO, "running") /\ write_log(l, "outs")
warn(l) == Called(l, WARN, "running") /\ write_log(l, "errs")
error(l) == Called(l, ERROR, "running") /\ write_log(l, "errs")
critical(l) == Called(l, CRITICAL, "running") /\ write_log(l, "errs")
fatal(l) == Called(l, FATAL, "exiting") /\ write_log(l, "errs")
fatal_code(l) == Called(l, FATAL, "exiting") /\ write_log(l, "errs")
fatal_noexit(l) == Called(l, FATAL, "running") /\ write_log(l, "errs")

level(l, v) == SetLevel(l, v) /\ UNCHANGED console

good(l) == err[l] = "HEALTHY"

close(l) == CloseStd(l) /\ UNCHANGED console

Destroy(l) == Destroyed(l, fds) /\ UNCHANGED console

Next ==
  \E l \in Consoles :
    \/ ConsoleLogger(l)
    \/ debug(l) \/ info(l) \/ warn(l) \/ error(l) \/ critical(l)
    \/ fatal(l) \/ fatal_code(l) \/ fatal_noexit(l)
    \/ \E v \in LevelChoices : level(l, v)
    \/ close(l)
    \/ Destroy(l)

\* Where the class comment says messages go.
Home(s) == {IF s = "outs" THEN "stdout" ELSE "stderr"}

=============================================================================
