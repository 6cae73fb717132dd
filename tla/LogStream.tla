------------------------------ MODULE LogStream -----------------------------
(***************************************************************************)
(* What the loggers use of std::ofstream over a POSIX file (on Linux, with *)
(* the libstdc++ of GCC 12 or later, in which flush does nothing on a      *)
(* stream that is not good): opening with flags, the put buffer, a flush   *)
(* that may write only part of the buffer, the sticky error state and the  *)
(* last flush that closing a stream attempts.  A file is a sequence of     *)
(* cells; cell <<m, i>> is the i-th piece of the record of message m, so   *)
(* torn, lost and overwritten records can be told apart.                   *)
(***************************************************************************)
EXTENDS Integers, Sequences

CONSTANTS Paths,  \* names of the files the program may log to
          Sizes   \* how many cells a record may take

ASSUME SizesAssumption == Sizes \subseteq Nat \ {0}

\* The constructor calls of a logger on files.  single: the one-file form;
\* then errfile = logfile.
OpenCalls == [single : BOOLEAN, logfile : Paths, errfile : Paths,
              truncate : BOOLEAN]

\* Its two streams, and what its close() closes.
Sinks == {"outs", "errs"}
StdFds == {1, 2}

Cells == Nat \X Nat
Msgs == [id : Nat, size : Sizes]

\* The record of message m as it is laid out in a file.
Bytes(m) == [i \in 1..m.size |-> <<m.id, i>>]

\* The whole record of m is in file f, at one place.
Readable(f, m) ==
  \E p \in 0..(Len(f) - m.size) : \A i \in 1..m.size : f[p + i] = <<m.id, i>>

-----------------------------------------------------------------------------
\* pos is the file offset of a stream that was opened without app; an app
\* stream always writes at the end of the file.  buf is what the filebuf
\* still holds.
Streams == [path : Paths, app : BOOLEAN, pos : Nat,
            st : {"good", "fail", "bad"}, buf : Seq(Cells)]

\* ofstream::open: ok says whether the operating system opened the file.
Opened(p, flags, ok) ==
  [path |-> p, app |-> "app" \in flags, pos |-> 0,
   st |-> IF ok THEN "good" ELSE "fail", buf |-> << >>]

\* What opening does to the file's contents: out without app is fopen's "w",
\* with or without trunc.
FileOpened(f, flags, ok) == IF ok /\ "app" \notin flags THEN << >> ELSE f

\* The file after stream s wrote cells c; a stream's offset is never beyond
\* the end of its file here.
WriteAt(f, s, c) ==
  IF s.app THEN f \o c
  ELSE SubSeq(f, 1, s.pos) \o c \o SubSeq(f, s.pos + Len(c) + 1, Len(f))

\* The stream after k of the cells c were written: a short write sets badbit
\* and leaves the whole buffer for the next attempt, at the new offset.
AfterWrite(s, c, k) ==
  [path |-> s.path, app |-> s.app,
   pos |-> IF s.app THEN 0 ELSE s.pos + k,
   st |-> IF k = Len(c) THEN s.st ELSE "bad",
   buf |-> IF k = Len(c) THEN << >> ELSE c]

=============================================================================
