----------------------------- MODULE DurableLog -----------------------------
(***************************************************************************)
(* What the loggers on files promise of one of their two streams, without  *)
(* buffers, records, files and error codes: messages are stored in the     *)
(* order of the calls until the first failure or the end of the process.   *)
(* FileLogger and BinLogger implement it, once per stream.                 *)
(*                                                                         *)
(* Messages of one object are numbered from 1; those of objects before it  *)
(* are AppendOnly's business.                                              *)
(***************************************************************************)
EXTENDS Integers

VARIABLES
  alive,   \* the object can be called
  ok,      \* its stream never failed
  logged,  \* how many messages were logged to the stream
  stored,  \* which of them a reader of the file finds whole
  owed     \* a failed message may still be written when the object goes

vars == <<alive, ok, logged, stored, owed>>

TypeOK ==
  /\ alive \in BOOLEAN
  /\ ok \in BOOLEAN
  /\ logged \in Nat
  /\ stored \in SUBSET (1..logged)
  /\ owed \in BOOLEAN

Init ==
  /\ alive = FALSE /\ ok = FALSE /\ owed = FALSE
  /\ logged = 0 /\ stored = {}

\* A new object; its file may not open.
Open ==
  /\ ~alive
  /\ alive' = TRUE
  /\ ok' \in BOOLEAN
  /\ logged' = 0
  /\ stored' = {}
  /\ owed' = FALSE

\* A message is stored by the time the call returns.
Store ==
  /\ alive /\ ok
  /\ logged' = logged + 1
  /\ stored' = stored \cup {logged'}
  /\ UNCHANGED <<alive, ok, owed>>

\* A message cannot be stored: no later one will be.
Fail ==
  /\ alive /\ ok
  /\ ok' = FALSE
  /\ logged' = logged + 1
  /\ owed' \in BOOLEAN
  /\ UNCHANGED <<alive, stored>>

Drop ==
  /\ alive /\ ~ok
  /\ logged' = logged + 1
  /\ UNCHANGED <<alive, ok, stored, owed>>

\* The object is destroyed; the one message it may owe comes next in the file
\* or never.
Destroy ==
  /\ alive
  /\ alive' = FALSE
  /\ owed' = FALSE
  /\ \/ UNCHANGED stored
     \/ /\ owed
        /\ \E i \in 1..logged : 1..(i - 1) \subseteq stored /\ stored' = stored \cup {i}
  /\ UNCHANGED <<ok, logged>>

\* The process ends under the object: the message of a call in progress is
\* lost, and no other.
Crash ==
  /\ alive
  /\ alive' = FALSE
  /\ logged' \in {logged, logged + 1}
  /\ UNCHANGED <<ok, stored, owed>>

Next == Open \/ Store \/ Fail \/ Drop \/ Destroy \/ Crash

Spec == Init /\ [][Next]_vars

-----------------------------------------------------------------------------
(* What the promise amounts to *)

\* While the object lives and never failed, everything is stored; and what is
\* stored never has a gap, however often it failed or crashed.
Complete == alive /\ ok => stored = 1..logged
Prefix == \A i \in stored : 1..i \subseteq stored

=============================================================================
