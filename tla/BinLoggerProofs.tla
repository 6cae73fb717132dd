--------------------------- MODULE BinLoggerProofs --------------------------
(***************************************************************************)
(* Proofs about BinLogger for every set of files, record sizes,            *)
(* constructor calls, levels, number of log calls and size of the buffer.  *)
(***************************************************************************)
EXTENDS BinLogger, LogStreamLemmas

-----------------------------------------------------------------------------
(* Types *)

\* A write through a stream whose offset lies beyond the end of its file would
\* leave a file with a hole.
PosInside ==
  live => \A s \in Sinks : stream[s].pos <= Len(file[stream[s].path])

TypeInv == TypeOK /\ PosInside

\* A constructor opens streams at offset 0, whatever the arguments.
LEMMA OpenConstructs ==
  ASSUME open_binlogfile
  PROVE  \E p \in Paths, q \in Paths, fo \in {BIN_DEFAULT_FLAGS, BIN_TRUNC_FLAGS},
            fe \in {BIN_DEFAULT_FLAGS, BIN_TRUNC_FLAGS},
            okO \in BOOLEAN, okE \in BOOLEAN :
           Construct(p, fo, q, fe, okO, okE)
<1>1. PICK o \in Opens, okO \in BOOLEAN, okE \in BOOLEAN : OpenWith(o, okO, okE)
  BY DEF open_binlogfile
<1>2. o.logfile \in Paths /\ o.errfile \in Paths
  BY OpensAssumption DEF OpenCalls
<1>3. flags(o.truncate) \in {BIN_DEFAULT_FLAGS, BIN_TRUNC_FLAGS}
  BY DEF flags
<1> QED
  BY <1>1, <1>2, <1>3 DEF OpenWith

LEMMA OpenType ==
  ASSUME TypeInv, open_binlogfile
  PROVE  TypeInv'
<1> USE DEF TypeInv, TypeOK
<1>1. PICK p \in Paths, q \in Paths, fo \in {BIN_DEFAULT_FLAGS, BIN_TRUNC_FLAGS},
           fe \in {BIN_DEFAULT_FLAGS, BIN_TRUNC_FLAGS},
           okO \in BOOLEAN, okE \in BOOLEAN :
        Construct(p, fo, q, fe, okO, okE)
  BY OpenConstructs
<1>2. /\ Opened(p, fo, okO) \in Streams
      /\ Opened(p, fo, okO).pos = 0
      /\ Opened(q, fe, okE) \in Streams
      /\ Opened(q, fe, okE).pos = 0
  BY OpenedType
<1>3. stream' = [s \in Sinks |-> IF s = "outs" THEN Opened(p, fo, okO)
                                             ELSE Opened(q, fe, okE)]
  BY <1>1 DEF Construct
<1>4. stream' \in [Sinks -> Streams] /\ \A s \in Sinks : stream'[s].pos = 0
  BY <1>2, <1>3
<1>5. file' \in [Paths -> Seq(Cells)]
  <2> DEFINE f == [file EXCEPT ![p] = FileOpened(file[p], fo, okO)]
  <2>1. f \in [Paths -> Seq(Cells)]
    BY FileOpenedType
  <2>2. file' = [f EXCEPT ![q] = FileOpened(f[q], fe, okE)]
    BY <1>1 DEF Construct
  <2> QED
    BY <2>1, <2>2, FileOpenedType
<1>6. PosInside'
  <2> SUFFICES ASSUME NEW s \in Sinks
               PROVE  stream'[s].pos <= Len(file'[stream'[s].path])
    BY DEF PosInside
  <2>1. stream'[s].path \in Paths
    BY <1>4 DEF Streams
  <2>2. Len(file'[stream'[s].path]) \in Nat
    BY <1>5, <2>1
  <2> QED
    BY <1>4, <2>2
<1>7. accepted' \in [Sinks -> Seq(Msgs)]
  BY <1>1 DEF Construct
<1>8. base' \in [Paths -> Nat]
  <2>1. \A r \in Paths : Len(file'[r]) \in Nat
    BY <1>5
  <2> QED
    BY <1>1, <2>1 DEF Construct
<1>9. /\ proc' = proc /\ proc = "running"
      /\ live' = TRUE
      /\ ilevel' = DEFAULT_LEVEL
      /\ err' \in {"HEALTHY", "ERR_OPEN"}
      /\ std' = std
      /\ rec' = rec /\ rec = Idle
      /\ calls' = calls
      /\ closed' = FALSE
  BY <1>1 DEF Construct
<1> QED
  BY <1>4, <1>5, <1>6, <1>7, <1>8, <1>9

\* The start of a log call.
LEMMA CallType ==
  ASSUME TypeInv, NEW c \in Levels, NEW s \in Sinks,
         NEW then \in {"running", "EXIT_FAILURE", "exitcode"}, Call(c, s, then)
  PROVE  TypeInv'
<1> USE DEF TypeInv, TypeOK
<1>1. PICK n \in Sizes :
        LET m == [id |-> calls + 1, size |-> n]
        IN  /\ rec' = [at |-> "write", sink |-> s, msg |-> m, done |-> 0,
                       then |-> then]
            /\ accepted' = [accepted EXCEPT ![s] = Append(@, m)]
  BY DEF Call
<1> DEFINE m == [id |-> calls + 1, size |-> n]
<1>2. calls' = calls + 1 /\ calls' \in 0..MaxCalls /\ calls \in Nat
  BY MaxCallsAssumption DEF Call
<1>3. m \in Msgs /\ m.size \in Nat
  BY <1>2, SizesAssumption DEF Msgs
<1>4. accepted' \in [Sinks -> Seq(Msgs)]
  <2>1. \A q \in Seq(Msgs) : Append(q, m) \in Seq(Msgs)
    BY <1>3
  <2> QED
    BY <1>1, <2>1
<1>5. rec' \in InCall /\ rec'.done = 0 /\ rec'.msg = m
  BY <1>1, <1>3 DEF InCall
<1>6. UNCHANGED <<proc, stream, err, file, live, ilevel, std, base, closed>>
      /\ live /\ proc = "running"
  BY DEF Call, object, Ready
<1> QED
  BY <1>2, <1>3, <1>4, <1>5, <1>6 DEF PosInside

\* The record of a call that is being written.
LEMMA Writing ==
  ASSUME TypeOK, rec.at = "write"
  PROVE  /\ rec \in InCall /\ rec # Idle /\ live /\ proc = "running"
         /\ rec.sink \in Sinks /\ rec.msg \in Msgs /\ rec.done \in Nat
         /\ rec.msg.size \in Nat \ {0} /\ rec.done \in 0..rec.msg.size
         /\ rec.msg.id \in Nat
<1>1. rec # Idle
  BY DEF Idle
<1>2. rec \in InCall /\ rec.done <= rec.msg.size /\ live /\ proc = "running"
  BY <1>1 DEF TypeOK
<1>3. rec.sink \in Sinks /\ rec.msg \in Msgs /\ rec.done \in Nat
  BY <1>2 DEF InCall
<1>4. rec.msg.size \in Nat \ {0} /\ rec.msg.id \in Nat
  BY <1>3, SizesAssumption DEF Msgs
<1> QED
  BY <1>1, <1>2, <1>3, <1>4

\* k cells of s's buffer reach its file and the stream becomes u.
Sends(s, k, u) ==
  /\ file' = Wrote(file, stream[s], SubSeq(stream[s].buf, 1, k))
  /\ stream' = [stream EXCEPT ![s] = u]

LEMMA SendsType ==
  ASSUME TypeInv, live, NEW s \in Sinks, NEW k \in 0..Len(stream[s].buf),
         NEW u \in Streams, u.path = stream[s].path,
         u.pos = AfterWrite(stream[s], stream[s].buf, k).pos, Sends(s, k, u)
  PROVE  /\ file' \in [Paths -> Seq(Cells)]
         /\ stream' \in [Sinks -> Streams]
         /\ \A t \in Sinks : stream'[t].pos <= Len(file'[stream'[t].path])
<1> USE DEF TypeInv, TypeOK
<1>1. stream[s] \in Streams /\ stream[s].pos <= Len(file[stream[s].path])
  BY DEF PosInside
<1>2. /\ file' \in [Paths -> Seq(Cells)]
      /\ \A p \in Paths : Len(file[p]) <= Len(file'[p])
      /\ u.pos <= Len(file'[u.path])
  BY <1>1, FlushType DEF Sends
<1>3. stream' \in [Sinks -> Streams]
  BY DEF Sends
<1>4. ASSUME NEW t \in Sinks PROVE stream'[t].pos <= Len(file'[stream'[t].path])
  <2>1. CASE t = s
    BY <1>2, <2>1 DEF Sends
  <2>2. CASE t # s
    <3>1. stream'[t] = stream[t] /\ stream[t] \in Streams
      BY <2>2 DEF Sends
    <3>2. /\ stream[t].path \in Paths /\ stream[t].pos \in Nat
          /\ stream[t].pos <= Len(file[stream[t].path])
      BY <3>1 DEF Streams, PosInside
    <3>3. /\ file[stream[t].path] \in Seq(Cells)
          /\ file'[stream[t].path] \in Seq(Cells)
      BY <1>2, <3>2
    <3>4. /\ Len(file[stream[t].path]) \in Nat
          /\ Len(file'[stream[t].path]) \in Nat
      BY <3>3, LenProperties
    <3> QED
      BY <1>2, <3>1, <3>2, <3>4
  <2> QED
    BY <2>1, <2>2
<1> QED
  BY <1>2, <1>3, <1>4

\* The outcomes of one step of write_tlv_log or of the flush: the record is
\* given up without a write, the piece fits into the buffer, or the buffer is
\* sent first, with success or with an error.
LEMMA PutSteps ==
  ASSUME TypeOK, put
  PROVE  LET s == rec.sink
             cell == <<rec.msg.id, rec.done + 1>>
         IN  /\ rec.at = "write" /\ rec.done < rec.msg.size
             /\ UNCHANGED <<proc, err, calls, accepted, object>>
             /\ \/ /\ stream[s].st # "good"
                   /\ rec' = [rec EXCEPT !.at = "set_err"]
                   /\ UNCHANGED <<stream, file>>
                \/ /\ stream[s].st = "good"
                   /\ stream' = [stream EXCEPT ![s].buf = Append(@, cell)]
                   /\ rec' = [rec EXCEPT !.done = @ + 1]
                   /\ UNCHANGED file
                \/ /\ stream[s].st = "good"
                   /\ LET n == Len(stream[s].buf)
                          t == AfterWrite(stream[s], stream[s].buf, n)
                      IN  Sends(s, n, [t EXCEPT !.buf = <<cell>>])
                   /\ rec' = [rec EXCEPT !.done = @ + 1]
                \/ /\ stream[s].st = "good"
                   /\ \E k \in 0..Len(stream[s].buf) :
                        /\ k # Len(stream[s].buf)
                        /\ Sends(s, k, AfterWrite(stream[s], stream[s].buf, k))
                   /\ rec' = [rec EXCEPT !.at = "set_err"]
<1> DEFINE s == rec.sink
           cell == <<rec.msg.id, rec.done + 1>>
<1>1. s \in Sinks /\ rec.at = "write" /\ stream[s] \in Streams
  BY Writing DEF put, TypeOK
<1>2. stream[s].buf \in Seq(Cells) /\ Len(stream[s].buf) \in Nat
  BY <1>1 DEF Streams
<1>3. CASE stream[s].st # "good"
  BY <1>3 DEF put
<1>4. CASE stream[s].st = "good" /\ Len(stream[s].buf) < BufSize
  BY <1>2, <1>4, BufSizeAssumption DEF put
<1>5. CASE stream[s].st = "good" /\ ~(Len(stream[s].buf) < BufSize)
  <2>1. PICK k \in 0..Len(stream[s].buf) :
          LET t == AfterWrite(stream[s], stream[s].buf, k)
          IN  /\ Drain(s, k)
              /\ \/ /\ t.st = "good"
                    /\ stream' = [stream EXCEPT ![s] = [t EXCEPT !.buf = <<cell>>]]
                    /\ rec' = [rec EXCEPT !.done = @ + 1]
                 \/ /\ t.st # "good"
                    /\ stream' = [stream EXCEPT ![s] = t]
                    /\ rec' = [rec EXCEPT !.at = "set_err"]
    BY <1>5 DEF put
  <2>2. /\ AfterWrite(stream[s], stream[s].buf, k).st = "good"
             <=> k = Len(stream[s].buf)
        /\ file' = Wrote(file, stream[s], SubSeq(stream[s].buf, 1, k))
    BY <1>1, <1>2, <1>5, <2>1, AfterWriteType DEF Drain, Wrote
  <2> QED
    BY <1>1, <1>5, <2>1, <2>2 DEF Sends, put
<1> QED
  BY <1>3, <1>4, <1>5
LEMMA FlushSteps ==
  ASSUME TypeOK, flush
  PROVE  LET s == rec.sink
         IN  /\ rec.at = "write" /\ rec.done = rec.msg.size
             /\ UNCHANGED <<proc, err, calls, accepted, object>>
             /\ rec' = [rec EXCEPT !.at = "set_err"]
             /\ \E k \in 0..Len(stream[s].buf) :
                  Sends(s, k, AfterWrite(stream[s], stream[s].buf, k))
<1>1. rec.sink \in Sinks /\ stream \in [Sinks -> Streams]
  BY Writing DEF flush, TypeOK
<1>2. PICK k \in 0..Len(stream[rec.sink].buf) :
        /\ Drain(rec.sink, k)
        /\ stream' = [stream EXCEPT ![rec.sink] = AfterWrite(@, @.buf, k)]
  BY DEF flush
<1>3. Sends(rec.sink, k, AfterWrite(stream[rec.sink], stream[rec.sink].buf, k))
  BY <1>1, <1>2 DEF Drain, Wrote, Sends
<1> QED
  BY <1>3 DEF flush

\* What a step of write_tlv_log may do to the record in progress.
LEMMA RecType ==
  ASSUME TypeOK, rec.at = "write",
         \/ rec' = [rec EXCEPT !.at = "set_err"]
         \/ /\ rec.done < rec.msg.size
            /\ rec' = [rec EXCEPT !.done = @ + 1]
  PROVE  /\ rec' \in InCall
         /\ rec'.done <= rec'.msg.size
         /\ rec'.sink = rec.sink /\ rec'.msg = rec.msg /\ rec'.then = rec.then
         /\ rec'.at \in {"write", "set_err"}
<1>1. rec \in InCall /\ rec.done \in Nat /\ rec.msg.size \in Nat
      /\ rec.done <= rec.msg.size
  BY Writing
<1>2. CASE rec' = [rec EXCEPT !.at = "set_err"]
  BY <1>1, <1>2 DEF InCall
<1>3. CASE rec.done < rec.msg.size /\ rec' = [rec EXCEPT !.done = @ + 1]
  BY <1>1, <1>3 DEF InCall
<1> QED
  BY <1>2, <1>3

LEMMA WriteType ==
  ASSUME TypeInv, put \/ flush
  PROVE  TypeInv'
<1> USE DEF TypeInv, TypeOK
<1> DEFINE s == rec.sink
           cell == <<rec.msg.id, rec.done + 1>>
<1>1. /\ rec.at = "write" /\ live /\ proc = "running"
      /\ UNCHANGED <<proc, err, calls, accepted, object>>
      /\ \/ rec' = [rec EXCEPT !.at = "set_err"]
         \/ /\ rec.done < rec.msg.size
            /\ rec' = [rec EXCEPT !.done = @ + 1]
  BY PutSteps, FlushSteps, Writing DEF put, flush
<1>2. s \in Sinks /\ cell \in Cells /\ stream[s] \in Streams
  BY <1>1, Writing DEF Cells
<1>3. stream[s].buf \in Seq(Cells) /\ Len(stream[s].buf) \in 0..Len(stream[s].buf)
  BY <1>2 DEF Streams
<1> DEFINE Inside ==
             /\ file' \in [Paths -> Seq(Cells)]
             /\ stream' \in [Sinks -> Streams]
             /\ \A t \in Sinks : stream'[t].pos <= Len(file'[stream'[t].path])
<1>4. Inside
  <2>1. CASE UNCHANGED <<stream, file>>
    BY <1>1, <2>1 DEF PosInside
  <2>2. CASE stream' = [stream EXCEPT ![s].buf = Append(@, cell)] /\ UNCHANGED file
    <3> HIDE DEF s, cell
    <3>1. Append(stream[s].buf, cell) \in Seq(Cells)
      BY <1>2, <1>3
    <3>2. [stream[s] EXCEPT !.buf = Append(stream[s].buf, cell)] \in Streams
      BY <1>2, <3>1 DEF Streams
    <3> QED
      BY <1>1, <1>2, <2>2, <3>2 DEF PosInside
  <2>3. ASSUME NEW k \in 0..Len(stream[s].buf),
               Sends(s, k, AfterWrite(stream[s], stream[s].buf, k))
        PROVE  Inside
    <3>1. /\ AfterWrite(stream[s], stream[s].buf, k) \in Streams
          /\ AfterWrite(stream[s], stream[s].buf, k).path = stream[s].path
      BY <1>2, <1>3, AfterWriteType
    <3> QED
      BY <1>1, <1>2, <2>3, <3>1, SendsType
  <2>4. ASSUME NEW k \in 0..Len(stream[s].buf),
               Sends(s, k, [AfterWrite(stream[s], stream[s].buf, k)
                              EXCEPT !.buf = <<cell>>])
        PROVE  Inside
    <3> DEFINE t == AfterWrite(stream[s], stream[s].buf, k)
    <3>1. t \in Streams /\ t.path = stream[s].path
      BY <1>2, <1>3, AfterWriteType
    <3>2. <<cell>> \in Seq(Cells)
      BY <1>2
    <3>3. /\ [t EXCEPT !.buf = <<cell>>] \in Streams
          /\ [t EXCEPT !.buf = <<cell>>].path = stream[s].path
          /\ [t EXCEPT !.buf = <<cell>>].pos = t.pos
      BY <3>1, <3>2 DEF Streams
    <3> QED
      BY <1>1, <1>2, <2>4, <3>3, SendsType
  <2> HIDE DEF Inside, s, cell
  <2>5. CASE put
    <3>1. \/ UNCHANGED <<stream, file>>
          \/ stream' = [stream EXCEPT ![s].buf = Append(@, cell)] /\ UNCHANGED file
          \/ \E k \in 0..Len(stream[s].buf) :
               Sends(s, k, AfterWrite(stream[s], stream[s].buf, k))
          \/ LET n == Len(stream[s].buf)
             IN  Sends(s, n, [AfterWrite(stream[s], stream[s].buf, n)
                                EXCEPT !.buf = <<cell>>])
      BY <2>5, PutSteps DEF s, cell
    <3> QED
      BY <1>3, <2>1, <2>2, <2>3, <2>4, <3>1
  <2>6. CASE flush
    BY <2>3, <2>6, FlushSteps DEF s
  <2> QED
    BY <2>5, <2>6
<1>5. rec' \in InCall /\ rec'.done <= rec'.msg.size
  BY <1>1, RecType
<1> QED
  BY <1>1, <1>4, <1>5 DEF PosInside, object

LEMMA DestroyType ==
  ASSUME TypeInv, Destroy
  PROVE  TypeInv'
<1> USE DEF TypeInv, TypeOK
<1>1. /\ stream["errs"] \in Streams /\ stream["outs"] \in Streams
      /\ stream["errs"].pos <= Len(file[stream["errs"].path])
      /\ stream["outs"].pos <= Len(file[stream["outs"].path])
  BY DEF Destroy, PosInside, Sinks
<1>2. file' \in [Paths -> Seq(Cells)]
  <2>1. PICK kE \in 0..Len(stream["errs"].buf), kO \in 0..Len(stream["outs"].buf) :
          file' = Wrote(Wrote(file, stream["errs"], SubSeq(stream["errs"].buf, 1, kE)),
                        stream["outs"], SubSeq(stream["outs"].buf, 1, kO))
    BY DEF Destroy, Wrote
  <2> QED
    BY <1>1, <2>1, LastFlushesType
<1>3. stream' \in [Sinks -> Streams]
  <2>1. << >> \in Seq(Cells)
    OBVIOUS
  <2>2. ASSUME NEW s \in Sinks PROVE [stream[s] EXCEPT !.buf = << >>] \in Streams
    BY <2>1 DEF Streams
  <2> QED
    BY <2>2 DEF Destroy
<1>4. /\ live' = FALSE
      /\ ilevel' = DEFAULT_LEVEL
      /\ err' = "ERR_OPEN"
      /\ closed' = FALSE
      /\ rec = Idle
      /\ UNCHANGED <<proc, std, rec, calls, accepted, base>>
  BY DEF Destroy, NoObject
<1> QED
  BY <1>2, <1>3, <1>4 DEF PosInside

\* The log calls, each with its level, its stream and what the process is
\* after it.
LEMMA LogCalls ==
  ASSUME \/ debug \/ info \/ warn \/ error \/ critical
         \/ fatal \/ fatal_code \/ fatal_noexit
  PROVE  \E c \in Levels, s \in Sinks,
            then \in {"running", "EXIT_FAILURE", "exitcode"} : Call(c, s, then)
BY DEF debug, info, warn, error, critical, fatal, fatal_code, fatal_noexit,
   Levels, Sinks

\* The steps that touch neither files nor streams nor the history.
Others == \/ \E l \in LevelChoices : level(l)
          \/ set_err \/ close \/ Return \/ Kill \/ LoseStd \/ Restart
          \/ UNCHANGED vars

\* Every step is one of these.
LEMMA Steps ==
  ASSUME [Next]_vars
  PROVE  \/ open_binlogfile
         \/ \E c \in Levels, s \in Sinks,
               then \in {"running", "EXIT_FAILURE", "exitcode"} : Call(c, s, then)
         \/ put \/ flush
         \/ Destroy /\ proc # "killed" /\ UNCHANGED proc
         \/ Others
<1>1. CASE \/ debug \/ info \/ warn \/ error \/ critical
           \/ fatal \/ fatal_code \/ fatal_noexit
  BY <1>1, LogCalls
<1>2. CASE delete \/ AtExit
  BY <1>2 DEF delete, AtExit, Destroy
<1> QED
  BY <1>1, <1>2 DEF Next, Step, Others

LEMMA OthersType ==
  ASSUME TypeInv, Others
  PROVE  TypeInv'
<1> USE DEF TypeInv, TypeOK, PosInside
<1>1. ASSUME NEW l \in LevelChoices, level(l) PROVE TypeInv'
  BY <1>1 DEF level
<1>2. CASE set_err
  <2>1. rec # Idle /\ rec \in InCall /\ live /\ proc = "running"
    BY <1>2 DEF set_err, Idle
  <2>2. rec.then \in {"running", "EXIT_FAILURE", "exitcode"}
    BY <2>1 DEF InCall
  <2> QED
    BY <1>2, <2>1, <2>2 DEF set_err, object
<1>3. CASE close
  BY <1>3 DEF close, Ready
<1>4. CASE Return \/ Kill
  BY <1>4 DEF Return, Kill, object
<1>5. CASE LoseStd
  BY <1>5 DEF LoseStd
<1>6. CASE Restart
  BY <1>6 DEF Restart, NoObject
<1>7. CASE UNCHANGED vars
  BY <1>7 DEF vars
<1> QED
  BY <1>1, <1>2, <1>3, <1>4, <1>5, <1>6, <1>7 DEF Others

LEMMA TypeInvInit == Init => TypeInv
<1> SUFFICES ASSUME Init PROVE TypeInv
  OBVIOUS
<1>1. PICK p \in Paths :
        stream = [s \in Sinks |-> Opened(p, BIN_DEFAULT_FLAGS, FALSE)]
  BY DEF Init
<1>2. Opened(p, BIN_DEFAULT_FLAGS, FALSE) \in Streams
  BY OpenedType
<1>3. stream \in [Sinks -> Streams]
  BY <1>1, <1>2
<1>4. calls \in 0..MaxCalls
  BY MaxCallsAssumption DEF Init
<1>5. /\ file \in [Paths -> Seq(Cells)]
      /\ accepted \in [Sinks -> Seq(Msgs)]
      /\ base \in [Paths -> Nat]
  BY DEF Init
<1> QED
  BY <1>3, <1>4, <1>5 DEF Init, TypeInv, TypeOK, PosInside

LEMMA TypeInvInductive == TypeInv /\ [Next]_vars => TypeInv'
<1> SUFFICES ASSUME TypeInv, [Next]_vars PROVE TypeInv'
  OBVIOUS
<1>1. CASE open_binlogfile
  BY <1>1, OpenType
<1>2. ASSUME NEW c \in Levels, NEW s \in Sinks,
             NEW then \in {"running", "EXIT_FAILURE", "exitcode"}, Call(c, s, then)
      PROVE  TypeInv'
  BY <1>2, CallType
<1>3. CASE put \/ flush
  BY <1>3, WriteType
<1>4. CASE Destroy
  BY <1>4, DestroyType
<1>5. CASE Others
  BY <1>5, OthersType
<1> QED
  BY <1>1, <1>2, <1>3, <1>4, <1>5, Steps

\* Every variable keeps its type; in particular a BinLogger never reports an
\* error other than the five its code assigns, a call is in progress only on a
\* living object of a running process, and no file gets a hole.
THEOREM TypeCorrect == Spec => []TypeOK
<1>1. TypeInv => TypeOK
  BY DEF TypeInv
<1> QED
  BY TypeInvInit, TypeInvInductive, <1>1, PTL DEF Spec

-----------------------------------------------------------------------------
(* What the steps of a log call do to the files *)

Apart == ApartIn(stream)

AtEnd(t) == AtEndOf(file[stream[t].path], stream[t])

Appending == live => Apart /\ \A t \in Sinks : AtEnd(t)

\* The message of the call in progress is the last one; while its record is
\* written, the first pieces are at the end of the file and the others in the
\* buffer.
InProgress ==
  /\ rec # Idle => /\ Len(accepted[rec.sink]) > 0
                   /\ accepted[rec.sink][Len(accepted[rec.sink])] = rec.msg
                   /\ rec.msg.id = calls
  /\ rec.at = "write" =>
       LET st == stream[rec.sink]
       IN  IF st.st = "good"
           THEN /\ Holds(st.buf, rec.msg, rec.done)
                /\ EndsWith(file[st.path], rec.msg, rec.done - Len(st.buf))
           ELSE rec.done = 0

\* A step of the call that writes m to s: the record is given up, a piece is
\* taken, a write fails, or the record is stored.
GivesUp(s) ==
  /\ stream[s].st # "good"
  /\ rec'.at = "set_err"
  /\ UNCHANGED <<stream, file>>
Takes(s, m) ==
  /\ stream[s].st = "good" /\ stream'[s].st = "good"
  /\ rec'.at = "write" /\ rec'.done = rec.done + 1
  /\ Holds(stream'[s].buf, m, rec'.done)
  /\ EndsWith(file'[stream[s].path], m, rec'.done - Len(stream'[s].buf))
  /\ GrowsBy(file, file', Pieces(m) \ {<<m.id, m.size>>})
Fails(s, m) ==
  /\ stream[s].st = "good" /\ stream'[s].st = "bad"
  /\ rec'.at = "set_err"
  /\ \A i \in 1..Len(stream'[s].buf) : stream'[s].buf[i][1] = m.id
  /\ GrowsBy(file, file', Pieces(m) \ {<<m.id, m.size>>})
Stores(s, m) ==
  /\ stream[s].st = "good" /\ stream'[s].st = "good"
  /\ rec'.at = "set_err"
  /\ stream'[s].buf = << >>
  /\ EndsWith(file'[stream[s].path], m, m.size)
Effect(s, m) ==
  /\ rec' \in InCall /\ rec'.sink = s /\ rec'.msg = m
  /\ \A t \in Sinks : t # s => stream'[t] = stream[t]
  /\ stream'[s].path = stream[s].path /\ stream'[s].app = stream[s].app
  /\ \A p \in Paths : p # stream[s].path => file'[p] = file[p]
  /\ AtEndOf(file'[stream[s].path], stream'[s])
  /\ GrowsBy(file, file', Pieces(m))
  /\ GivesUp(s) \/ Takes(s, m) \/ Fails(s, m) \/ Stores(s, m)

\* What InProgress says of a record on a stream that never failed.
LEMMA Progress ==
  ASSUME TypeInv, Appending, InProgress, rec.at = "write",
         stream[rec.sink].st = "good"
  PROVE  LET st == stream[rec.sink]
         IN  /\ st \in Streams /\ st.path \in Paths /\ st.buf \in Seq(Cells)
             /\ Len(st.buf) \in Nat
             /\ Holds(st.buf, rec.msg, rec.done)
             /\ EndsWith(file[st.path], rec.msg, rec.done - Len(st.buf))
             /\ st.pos <= Len(file[st.path])
             /\ st.app \/ st.pos = Len(file[st.path])
<1>1. rec.sink \in Sinks /\ live
  BY Writing DEF TypeInv
<1>2. stream[rec.sink] \in Streams
  BY <1>1 DEF TypeInv, TypeOK
<1>3. /\ stream[rec.sink].path \in Paths /\ stream[rec.sink].buf \in Seq(Cells)
      /\ Len(stream[rec.sink].buf) \in Nat
  BY <1>2 DEF Streams
<1> QED
  BY <1>1, <1>2, <1>3 DEF TypeInv, PosInside, Appending, AtEnd, AtEndOf, InProgress

\* Sending k cells of the buffer of the stream the record is written to.
LEMMA SendsRecord ==
  ASSUME TypeInv, Appending, InProgress, rec.at = "write",
         stream[rec.sink].st = "good",
         NEW k \in 0..Len(stream[rec.sink].buf), NEW u,
         u.path = stream[rec.sink].path, u.app = stream[rec.sink].app,
         u.pos = AfterWrite(stream[rec.sink], stream[rec.sink].buf, k).pos,
         Sends(rec.sink, k, u)
  PROVE  LET s == rec.sink
             m == rec.msg
             L == Pieces(m) \ {<<m.id, m.size>>}
         IN  /\ stream'[s] = u /\ \A t \in Sinks : t # s => stream'[t] = stream[t]
             /\ \A p \in Paths : p # stream[s].path => file'[p] = file[p]
             /\ AtEndOf(file'[stream[s].path], u)
             /\ GrowsBy(file, file', Pieces(m))
             /\ k # Len(stream[s].buf) \/ rec.done < m.size => GrowsBy(file, file', L)
             /\ k = Len(stream[s].buf) => EndsWith(file'[stream[s].path], m, rec.done)
<1>1. rec.sink \in Sinks /\ rec.msg \in Msgs /\ rec.done \in 0..rec.msg.size
  BY Writing DEF TypeInv
<1>2. /\ stream \in [Sinks -> Streams] /\ file \in [Paths -> Seq(Cells)]
  BY DEF TypeInv, TypeOK
<1> DEFINE s == rec.sink
           m == rec.msg
           t == AfterWrite(stream[s], stream[s].buf, k)
<1>3. /\ \A p \in Paths : p # stream[s].path => file'[p] = file[p]
      /\ GrowsBy(file, file', Pieces(m))
      /\ k # Len(stream[s].buf) \/ rec.done < m.size
           => GrowsBy(file, file', Pieces(m) \ {<<m.id, m.size>>})
      /\ t.app \/ t.pos = Len(file'[stream[s].path])
      /\ k = Len(stream[s].buf) => EndsWith(file'[stream[s].path], m, rec.done)
  BY <1>1, <1>2, Progress, FlushRecord DEF Sends
<1>4. t.app = u.app
  BY <1>1, <1>2, Progress, AfterWriteType
<1>5. stream'[s] = u /\ \A v \in Sinks : v # s => stream'[v] = stream[v]
  BY <1>1, <1>2 DEF Sends
<1> QED
  BY <1>3, <1>4, <1>5 DEF AtEndOf
LEMMA PutEffect ==
  ASSUME TypeInv, Appending, InProgress, put
  PROVE  Effect(rec.sink, rec.msg)
<1> DEFINE s == rec.sink
           m == rec.msg
           cell == <<m.id, rec.done + 1>>
           L == Pieces(m) \ {<<m.id, m.size>>}
           b == stream[s].buf
<1>1. /\ rec \in InCall /\ rec.at = "write" /\ s \in Sinks /\ m \in Msgs
      /\ rec.done \in Nat /\ rec.done < m.size /\ m.size \in Nat
      /\ stream \in [Sinks -> Streams] /\ file \in [Paths -> Seq(Cells)]
      /\ live
  BY Writing DEF put, TypeInv, TypeOK
<1>2. stream[s] \in Streams /\ stream[s].path \in Paths
  BY <1>1 DEF Streams
<1>3. L \in SUBSET Cells /\ Pieces(m) \in SUBSET Cells /\ cell \in Cells
  BY <1>1, PiecesType DEF Cells, Msgs
<1>4. GrowsBy(file, file, L) /\ GrowsBy(file, file, Pieces(m))
  BY <1>1, GrowsNot
<1>5. AtEndOf(file[stream[s].path], stream[s])
  BY <1>1 DEF Appending, AtEnd
<1>6. /\ rec' = [rec EXCEPT !.done = @ + 1] =>
           /\ rec' \in InCall /\ rec'.sink = s /\ rec'.msg = m
           /\ rec'.at = "write" /\ rec'.done = rec.done + 1
      /\ rec' = [rec EXCEPT !.at = "set_err"] =>
           /\ rec' \in InCall /\ rec'.sink = s /\ rec'.msg = m
           /\ rec'.at = "set_err"
  BY <1>1 DEF InCall
<1>7. CASE /\ stream[s].st # "good"
           /\ rec' = [rec EXCEPT !.at = "set_err"]
           /\ UNCHANGED <<stream, file>>
  BY <1>4, <1>5, <1>6, <1>7 DEF Effect, GivesUp
<1>8. CASE /\ stream[s].st = "good"
           /\ stream' = [stream EXCEPT ![s].buf = Append(@, cell)]
           /\ rec' = [rec EXCEPT !.done = @ + 1]
           /\ UNCHANGED file
  <2>1. /\ stream'[s].st = "good" /\ stream'[s].buf = Append(b, cell)
        /\ stream'[s].path = stream[s].path /\ stream'[s].app = stream[s].app
        /\ stream'[s].pos = stream[s].pos
        /\ \A t \in Sinks : t # s => stream'[t] = stream[t]
    BY <1>1, <1>2, <1>8
  <2>2. /\ b \in Seq(Cells) /\ Holds(b, m, rec.done) /\ Len(b) \in Nat
        /\ EndsWith(file[stream[s].path], m, rec.done - Len(b))
    BY <1>1, <1>8, Progress
  <2>3. Holds(Append(b, cell), m, rec.done + 1)
    BY <1>1, <2>2, HoldsMore
  <2>4. (rec.done + 1) - Len(Append(b, cell)) = rec.done - Len(b)
    <3>1. Len(Append(b, cell)) = Len(b) + 1
      BY <2>2
    <3>2. rec.done \in Nat /\ Len(b) \in Nat
      BY <1>1, <2>2
    <3> QED
      BY <3>1, <3>2
  <2>5. Takes(s, m)
    <3>1. rec'.done = rec.done + 1 /\ rec'.at = "write"
      BY <1>6, <1>8
    <3>2. rec'.done - Len(stream'[s].buf) = rec.done - Len(b)
      BY <2>1, <2>4, <3>1
    <3>3. Holds(stream'[s].buf, m, rec'.done)
      BY <2>1, <2>3, <3>1
    <3> QED
      BY <1>4, <1>8, <2>1, <2>2, <3>1, <3>2, <3>3 DEF Takes
  <2>6. AtEndOf(file'[stream[s].path], stream'[s])
    BY <1>5, <1>8, <2>1 DEF AtEndOf
  <2> QED
    BY <1>4, <1>6, <1>8, <2>1, <2>5, <2>6 DEF Effect
<1>9. CASE /\ stream[s].st = "good"
           /\ Sends(s, Len(b), [AfterWrite(stream[s], b, Len(b)) EXCEPT !.buf = <<cell>>])
           /\ rec' = [rec EXCEPT !.done = @ + 1]
  <2> DEFINE t == AfterWrite(stream[s], b, Len(b))
             u == [t EXCEPT !.buf = <<cell>>]
  <2>1. /\ b \in Seq(Cells) /\ Holds(b, m, rec.done) /\ Len(b) \in 0..Len(b)
    BY <1>1, <1>9, Progress
  <2>2. /\ t \in Streams /\ t.path = stream[s].path /\ t.app = stream[s].app
        /\ t.st = "good"
    BY <1>2, <1>9, <2>1, AfterWriteType
  <2>3. /\ u.path = t.path /\ u.app = t.app /\ u.pos = t.pos
        /\ u.st = t.st /\ u.buf = <<cell>>
    BY <2>2 DEF Streams
  <2> HIDE DEF t, u, b
  <2>4. /\ stream'[s] = u /\ \A v \in Sinks : v # s => stream'[v] = stream[v]
        /\ \A p \in Paths : p # stream[s].path => file'[p] = file[p]
        /\ AtEndOf(file'[stream[s].path], u)
        /\ GrowsBy(file, file', Pieces(m))
        /\ GrowsBy(file, file', L)
        /\ EndsWith(file'[stream[s].path], m, rec.done)
    <3>1. Sends(s, Len(b), u) /\ u.path = stream[s].path /\ u.app = stream[s].app
          /\ u.pos = t.pos
      BY <1>9, <2>2, <2>3 DEF t, u, b
    <3> HIDE DEF L
    <3> QED
      BY <1>1, <1>9, <2>1, <3>1, SendsRecord DEF t, b, L
  <2>5. Holds(<<cell>>, m, rec.done + 1)
    BY <1>1, <2>1, HoldsMore
  <2>6. (rec.done + 1) - Len(<<cell>>) = rec.done
    BY <1>1
  <2>7. Takes(s, m)
    <3>1. rec'.done = rec.done + 1 /\ rec'.at = "write"
      BY <1>6, <1>9
    <3>2. rec'.done - Len(stream'[s].buf) = rec.done
      BY <2>3, <2>4, <2>6, <3>1
    <3>3. Holds(stream'[s].buf, m, rec'.done)
      BY <2>3, <2>4, <2>5, <3>1
    <3> QED
      BY <1>9, <2>2, <2>3, <2>4, <3>1, <3>2, <3>3 DEF Takes
  <2> QED
    BY <1>6, <1>9, <2>2, <2>3, <2>4, <2>7 DEF Effect
<1>10. ASSUME NEW k \in 0..Len(b), k # Len(b), stream[s].st = "good",
              Sends(s, k, AfterWrite(stream[s], b, k)),
              rec' = [rec EXCEPT !.at = "set_err"]
       PROVE  Effect(s, m)
  <2> DEFINE u == AfterWrite(stream[s], b, k)
  <2>1. /\ b \in Seq(Cells) /\ Holds(b, m, rec.done) /\ Len(b) \in Nat
    BY <1>1, <1>10, Progress
  <2>2. /\ u.path = stream[s].path /\ u.app = stream[s].app
        /\ u.st = "bad" /\ u.buf = b
    BY <1>2, <1>10, <2>1, AfterWriteType
  <2>3. \A i \in 1..Len(b) : b[i][1] = m.id
    BY <2>1 DEF Holds
  <2> HIDE DEF b, u
  <2>4. /\ stream'[s] = u /\ \A v \in Sinks : v # s => stream'[v] = stream[v]
        /\ \A p \in Paths : p # stream[s].path => file'[p] = file[p]
        /\ AtEndOf(file'[stream[s].path], u)
        /\ GrowsBy(file, file', Pieces(m))
        /\ GrowsBy(file, file', L)
    <3>1. Sends(s, k, u)
      BY <1>10 DEF u, b
    <3> QED
      BY <1>1, <1>10, <2>2, <3>1, SendsRecord DEF u, b
  <2>5. Fails(s, m)
    BY <1>6, <1>10, <2>2, <2>3, <2>4 DEF Fails
  <2> QED
    BY <1>6, <1>10, <2>2, <2>4, <2>5 DEF Effect
<1> QED
  BY <1>7, <1>8, <1>9, <1>10, PutSteps DEF TypeInv

LEMMA FlushEffect ==
  ASSUME TypeInv, Appending, InProgress, flush
  PROVE  Effect(rec.sink, rec.msg)
<1> DEFINE s == rec.sink
           m == rec.msg
           L == Pieces(m) \ {<<m.id, m.size>>}
           b == stream[s].buf
<1>1. /\ rec \in InCall /\ rec.at = "write" /\ s \in Sinks /\ m \in Msgs
      /\ rec.done = m.size /\ m.size \in Nat \ {0}
      /\ stream \in [Sinks -> Streams]
      /\ rec' = [rec EXCEPT !.at = "set_err"]
  BY Writing DEF flush, TypeInv, TypeOK
<1>2. stream[s] \in Streams /\ stream[s].st = "good"
  BY <1>1 DEF InProgress
<1>3. PICK k \in 0..Len(b) : Sends(s, k, AfterWrite(stream[s], b, k))
  BY FlushSteps DEF TypeInv
<1>4. rec' \in InCall /\ rec'.sink = s /\ rec'.msg = m /\ rec'.at = "set_err"
  BY <1>1 DEF InCall
<1> DEFINE u == AfterWrite(stream[s], b, k)
<1>5. /\ b \in Seq(Cells) /\ Holds(b, m, rec.done) /\ Len(b) \in Nat
  BY <1>1, <1>2, Progress
<1>6. /\ u.path = stream[s].path /\ u.app = stream[s].app
      /\ u.st = IF k = Len(b) THEN "good" ELSE "bad"
      /\ u.buf = IF k = Len(b) THEN << >> ELSE b
  BY <1>2, <1>5, AfterWriteType
<1>7. \A i \in 1..Len(b) : b[i][1] = m.id
  BY <1>5 DEF Holds
<1> HIDE DEF b, u
<1>8. /\ stream'[s] = u /\ \A v \in Sinks : v # s => stream'[v] = stream[v]
      /\ \A p \in Paths : p # stream[s].path => file'[p] = file[p]
      /\ AtEndOf(file'[stream[s].path], u)
      /\ GrowsBy(file, file', Pieces(m))
      /\ k # Len(b) => GrowsBy(file, file', L)
      /\ k = Len(b) => EndsWith(file'[stream[s].path], m, m.size)
  BY <1>1, <1>2, <1>3, <1>6, SendsRecord DEF u, b
<1>9. Fails(s, m) \/ Stores(s, m)
  BY <1>2, <1>4, <1>6, <1>7, <1>8 DEF Fails, Stores
<1> QED
  BY <1>4, <1>6, <1>8, <1>9 DEF Effect

-----------------------------------------------------------------------------
(* The invariant *)

\* The stream s is being written to.
Busy(s) == rec.at = "write" /\ rec.sink = s

\* Between two records a stream that never failed holds nothing back.
Quiet ==
  live /\ proc # "killed" =>
    \A s \in Sinks : stream[s].st = "good" /\ ~Busy(s) => stream[s].buf = << >>

\* What a stream that never failed was told to log is in its file, but for the
\* record in progress.
Durable ==
  live =>
    \A s \in Sinks : stream[s].st = "good" =>
      \A i \in 1..Len(accepted[s]) :
        \/ Readable(file[stream[s].path], accepted[s][i])
        \/ /\ i = Len(accepted[s])
           /\ accepted[s][i].id = calls
           /\ proc = "killed" \/ Busy(s)

Healthy == Ready /\ good => \A s \in Sinks : stream[s].st = "good"

\* HealthyIsDurable is not inductive: it says nothing in the middle of a call,
\* nor where the next write goes.
IInv == TypeInv /\ Appending /\ InProgress /\ Quiet /\ Durable /\ Healthy

\* A new object: its streams are apart, nothing is accepted or held back, and
\* good() tells whether both files opened.
LEMMA OpenAppends ==
  ASSUME NoClobber, TypeInv, open_binlogfile
  PROVE  /\ Appending'
         /\ \A s \in Sinks : accepted'[s] = << >> /\ stream'[s].buf = << >>
         /\ \A p \in Paths : file'[p] \in {file[p], << >>}
         /\ base' = [p \in Paths |-> Len(file'[p])]
         /\ err' = "HEALTHY" => \A s \in Sinks : stream'[s].st = "good"
         /\ rec = Idle /\ proc = "running" /\ ~live /\ live' = TRUE
         /\ UNCHANGED <<proc, rec, calls>>
<1>1. PICK o \in Opens, okO \in BOOLEAN, okE \in BOOLEAN : OpenWith(o, okO, okE)
  BY DEF open_binlogfile
<1> DEFINE L == o.logfile
           M == o.errfile
           F == flags(o.truncate)
<1>2. /\ L \in Paths /\ M \in Paths /\ (o.single => M = L)
      /\ o.truncate \in BOOLEAN /\ (o.truncate => L # M)
  BY OpensAssumption DEF OpenCalls, NoClobber
<1>3. F = IF o.single THEN BIN_DEFAULT_FLAGS ELSE flags(o.truncate)
  BY <1>2 DEF flags
<1>4. Construct(L, F, M, F, okO, okE)
  BY <1>1, <1>3 DEF OpenWith
<1>5. ("app" \notin F => L # M) /\ file \in [Paths -> Seq(Cells)]
  BY <1>2 DEF flags, BIN_DEFAULT_FLAGS, BIN_TRUNC_FLAGS, TypeInv, TypeOK
<1> HIDE DEF L, M, F
<1> DEFINE str == OpenedStreams(L, M, F, okO, okE)
           g == OpenedFiles(file, L, M, F, okO, okE)
<1>6. ApartIn(str)
  BY <1>2, <1>5, OpenedApart
<1>7. \A t \in Sinks : AtEndOf(g[str[t].path], str[t])
  BY <1>2, <1>5, OpenedApart
<1>8. stream' = str /\ file' = g
  BY <1>4 DEF Construct, OpenedStreams, OpenedFiles
<1>9. \A p \in Paths : g[p] \in {file[p], << >>}
  BY <1>2, <1>5 DEF OpenedFiles, FileOpened
<1>10. /\ str["outs"] = Opened(L, F, okO) /\ str["errs"] = Opened(M, F, okE)
  BY DEF OpenedStreams, Sinks
<1>11. /\ str["outs"].buf = << >> /\ str["outs"].st = IF okO THEN "good" ELSE "fail"
       /\ str["errs"].buf = << >> /\ str["errs"].st = IF okE THEN "good" ELSE "fail"
  BY <1>10, <1>2, OpenedType
<1> HIDE DEF str, g
<1>12. Appending'
  BY <1>6, <1>7, <1>8 DEF Appending, Apart, AtEnd
<1>13. err' = "HEALTHY" => \A s \in Sinks : stream'[s].st = "good"
  BY <1>4, <1>8, <1>11 DEF Construct, Sinks
<1>14. \A s \in Sinks : accepted'[s] = << >> /\ stream'[s].buf = << >>
  BY <1>4, <1>8, <1>11 DEF Construct, Sinks
<1>15. /\ base' = [p \in Paths |-> Len(file'[p])]
       /\ rec = Idle /\ proc = "running" /\ ~live /\ live' = TRUE
       /\ UNCHANGED <<proc, rec, calls>>
  BY <1>4 DEF Construct, TypeInv, TypeOK
<1> QED
  BY <1>8, <1>9, <1>12, <1>13, <1>14, <1>15

LEMMA OpenInv ==
  ASSUME NoClobber, IInv, TypeInv', open_binlogfile
  PROVE  IInv'
<1>1. /\ Appending'
      /\ \A s \in Sinks : accepted'[s] = << >> /\ stream'[s].buf = << >>
      /\ err' = "HEALTHY" => \A s \in Sinks : stream'[s].st = "good"
      /\ rec' = Idle
  BY OpenAppends DEF IInv
<1>2. InProgress' /\ Quiet' /\ Healthy'
  BY <1>1 DEF InProgress, Quiet, Healthy, good, Idle
<1>3. Durable'
  <2>1. \A s \in Sinks : 1..Len(accepted'[s]) = {}
    BY <1>1
  <2> QED
    BY <2>1 DEF Durable
<1> QED
  BY <1>1, <1>2, <1>3 DEF IInv

\* A call begins: its message is the last one, and nothing is written yet.
LEMMA CallInv ==
  ASSUME IInv, NEW c \in Levels, NEW s \in Sinks,
         NEW then \in {"running", "EXIT_FAILURE", "exitcode"}, Call(c, s, then),
         TypeInv'
  PROVE  IInv'
<1> USE DEF TypeInv, TypeOK
<1>1. PICK n \in Sizes :
        LET m == [id |-> calls + 1, size |-> n]
        IN  /\ rec' = [at |-> "write", sink |-> s, msg |-> m, done |-> 0,
                       then |-> then]
            /\ accepted' = [accepted EXCEPT ![s] = Append(@, m)]
  BY DEF Call
<1> DEFINE m == [id |-> calls + 1, size |-> n]
<1>2. /\ Ready /\ live' /\ live /\ proc = "running" /\ rec = Idle
      /\ calls' = calls + 1
      /\ UNCHANGED <<proc, live, stream, err, file>>
  BY DEF Call, object, Ready
<1>3. /\ rec'.at = "write" /\ rec'.sink = s /\ rec'.msg = m /\ rec'.done = 0
      /\ m.id = calls + 1 /\ rec' # Idle
  BY <1>1 DEF Idle
<1>4. accepted \in [Sinks -> Seq(Msgs)] /\ accepted' \in [Sinks -> Seq(Msgs)]
  BY DEF IInv
<1>5. /\ accepted'[s] = Append(accepted[s], m)
      /\ \A t \in Sinks : t # s => accepted'[t] = accepted[t]
  BY <1>1, <1>4
<1> HIDE DEF m
<1>6. /\ Len(accepted[s]) \in Nat
      /\ Len(accepted'[s]) = Len(accepted[s]) + 1
      /\ \A i \in 1..Len(accepted[s]) : accepted'[s][i] = accepted[s][i]
      /\ accepted'[s][Len(accepted[s]) + 1] = m
  <2>1. m \in Msgs
    BY <1>3 DEF InCall, Idle
  <2> QED
    BY <1>4, <1>5, <2>1, AppendProperties, LenProperties
<1>7. Appending'
  BY <1>2 DEF IInv, Appending, Apart, AtEnd
<1>8. \A t \in Sinks : stream[t].st = "good" => stream[t].buf = << >>
  BY <1>2 DEF IInv, Quiet, Busy, Idle
<1>9. Quiet'
  BY <1>2, <1>8 DEF Quiet
<1>10. InProgress'
  <2>1. Len(accepted'[s]) > 0
    BY <1>6
  <2>2. ASSUME stream[s].st = "good"
        PROVE  Holds(stream[s].buf, m, 0) /\ EndsWith(file[stream[s].path], m, 0 - Len(stream[s].buf))
    <3>1. stream[s].buf = << >> /\ Len(<< >>) = 0 /\ 0 - 0 = 0
      BY <1>8, <2>2
    <3>2. stream[s] \in Streams /\ file \in [Paths -> Seq(Cells)]
      BY DEF IInv
    <3>3. Len(file[stream[s].path]) \in Nat
      BY <3>2 DEF Streams
    <3> QED
      BY <3>1, <3>3 DEF Holds, EndsWith
  <2> QED
    BY <1>2, <1>3, <1>6, <2>1, <2>2 DEF InProgress
<1>11. Durable'
  <2> SUFFICES ASSUME NEW t \in Sinks, stream[t].st = "good",
                      NEW i \in 1..Len(accepted'[t])
               PROVE  \/ Readable(file[stream[t].path], accepted'[t][i])
                      \/ /\ i = Len(accepted'[t])
                         /\ accepted'[t][i].id = calls'
                         /\ Busy(t)'
    BY <1>2 DEF Durable
  <2>1. CASE t = s /\ i = Len(accepted[s]) + 1
    BY <1>2, <1>3, <1>6, <2>1 DEF Busy
  <2>2. CASE ~(t = s /\ i = Len(accepted[s]) + 1)
    <3>1. i \in 1..Len(accepted[t]) /\ accepted'[t][i] = accepted[t][i]
      BY <1>5, <1>6, <2>2
    <3> QED
      BY <1>2, <3>1 DEF IInv, Durable, Busy, Idle
  <2> QED
    BY <2>1, <2>2
<1>12. Healthy'
  BY <1>2, <1>3 DEF Healthy, Ready
<1> QED
  BY <1>7, <1>9, <1>10, <1>11, <1>12 DEF IInv

\* A step of write_tlv_log and the flush.
LEMMA WriteEffect ==
  ASSUME IInv, put \/ flush
  PROVE  /\ rec.at = "write" /\ rec # Idle /\ rec.sink \in Sinks /\ rec.msg \in Msgs
         /\ live /\ proc = "running"
         /\ rec' # Idle /\ rec'.sink = rec.sink /\ rec'.msg = rec.msg
         /\ UNCHANGED <<proc, err, calls, accepted, object>>
         /\ Effect(rec.sink, rec.msg)
<1>1. Effect(rec.sink, rec.msg)
  BY PutEffect, FlushEffect DEF IInv
<1>2. rec' # Idle
  BY <1>1 DEF Effect, InCall, Idle
<1>3. rec.at = "write" /\ UNCHANGED <<proc, err, calls, accepted, object>>
  BY DEF put, flush
<1> QED
  BY <1>1, <1>2, <1>3, Writing DEF Effect, IInv, TypeInv

LEMMA WriteInv ==
  ASSUME IInv, put \/ flush, TypeInv'
  PROVE  IInv'
<1> DEFINE s == rec.sink
           m == rec.msg
<1>1. /\ rec.at = "write" /\ s \in Sinks /\ m \in Msgs /\ live /\ proc = "running"
      /\ rec # Idle /\ rec' # Idle /\ rec'.sink = s /\ rec'.msg = m
      /\ UNCHANGED <<proc, live, err, calls, accepted>>
      /\ Effect(s, m)
  BY WriteEffect DEF object
<1>2. /\ \A t \in Sinks : t # s => stream'[t] = stream[t]
      /\ stream'[s].path = stream[s].path /\ stream'[s].app = stream[s].app
      /\ \A p \in Paths : p # stream[s].path => file'[p] = file[p]
      /\ AtEndOf(file'[stream[s].path], stream'[s])
      /\ GrowsBy(file, file', Pieces(m))
      /\ GivesUp(s) \/ Takes(s, m) \/ Fails(s, m) \/ Stores(s, m)
  BY <1>1 DEF Effect
<1>3. /\ file \in [Paths -> Seq(Cells)] /\ file' \in [Paths -> Seq(Cells)]
      /\ accepted \in [Sinks -> Seq(Msgs)]
      /\ \A t \in Sinks : stream[t] \in Streams /\ stream[t].path \in Paths
      /\ \A t \in Sinks : stream'[t].path = stream[t].path /\ stream'[t].app = stream[t].app
  BY <1>2 DEF IInv, TypeInv, TypeOK, Streams
<1>4. Appending'
  <2>1. Apart'
    BY <1>1, <1>3 DEF IInv, Appending, Apart, ApartIn, Sinks
  <2>2. ASSUME NEW t \in Sinks PROVE AtEnd(t)'
    <3>1. CASE t = s
      BY <1>2, <3>1 DEF AtEnd
    <3>2. CASE t # s /\ stream[t].path = stream[s].path
      <4>1. stream[t].app
        BY <1>1, <3>2 DEF IInv, Appending, Apart, ApartIn, Sinks
      <4> QED
        BY <1>2, <3>2, <4>1 DEF AtEnd, AtEndOf
    <3>3. CASE t # s /\ stream[t].path # stream[s].path
      BY <1>1, <1>2, <1>3, <3>3 DEF IInv, Appending, AtEnd
    <3> QED
      BY <3>1, <3>2, <3>3
  <2> QED
    BY <2>1, <2>2 DEF Appending
<1>5. InProgress'
  <2>1. ASSUME rec'.at = "write" PROVE Takes(s, m)
    BY <1>2, <2>1 DEF GivesUp, Fails, Stores
  <2> QED
    BY <1>1, <1>2, <2>1 DEF IInv, InProgress, Takes
<1>6. Quiet'
  <2> SUFFICES ASSUME NEW t \in Sinks, stream'[t].st = "good", ~Busy(t)'
               PROVE  stream'[t].buf = << >>
    BY DEF Quiet
  <2>1. CASE t # s
    BY <1>1, <1>2, <2>1 DEF IInv, Quiet, Busy
  <2>2. CASE t = s
    BY <1>1, <1>2, <2>2 DEF GivesUp, Takes, Fails, Stores, Busy
  <2> QED
    BY <2>1, <2>2
<1>7. Durable'
  <2> SUFFICES ASSUME NEW t \in Sinks, stream'[t].st = "good",
                      NEW i \in 1..Len(accepted[t])
               PROVE  \/ Readable(file'[stream[t].path], accepted[t][i])
                      \/ /\ i = Len(accepted[t])
                         /\ accepted[t][i].id = calls
                         /\ Busy(t)'
    BY <1>1, <1>3 DEF Durable
  <2>1. stream[t].st = "good"
    BY <1>2 DEF GivesUp, Takes, Fails, Stores
  <2>2. \/ Readable(file[stream[t].path], accepted[t][i])
        \/ /\ i = Len(accepted[t])
           /\ accepted[t][i].id = calls
           /\ t = s
    BY <1>1, <2>1 DEF IInv, Durable, Busy
  <2>3. CASE Readable(file[stream[t].path], accepted[t][i])
    <3>1. accepted[t][i] \in Msgs /\ stream[t].path \in Paths
      BY <1>3
    <3>2. Pieces(m) \in SUBSET Cells /\ GrowsBy(file, file', Pieces(m))
      BY <1>1, <1>2, PiecesType
    <3>3. Readable(file'[stream[t].path], accepted[t][i])
      BY <1>3, <2>3, <3>1, <3>2, GrownReadable, ZenonT(60)
    <3> QED
      BY <3>3
  <2>4. CASE i = Len(accepted[t]) /\ accepted[t][i].id = calls /\ t = s
    <3>1. CASE Takes(s, m)
      BY <1>1, <2>4, <3>1 DEF Takes, Busy
    <3>2. CASE Stores(s, m)
      <4>1. accepted[t][i] = m
        BY <1>1, <2>4 DEF IInv, InProgress
      <4>2. file'[stream[s].path] \in Seq(Cells)
        BY <1>1, <1>3
      <4>3. EndsWith(file'[stream[s].path], m, m.size)
        BY <3>2 DEF Stores
      <4>4. Readable(file'[stream[s].path], m)
        BY <1>1, <4>2, <4>3, EndsWithAll
      <4> QED
        BY <2>4, <4>1, <4>4
    <3> QED
      BY <1>2, <2>1, <2>4, <3>1, <3>2 DEF GivesUp, Fails
  <2> QED
    BY <2>2, <2>3, <2>4
<1>8. Healthy'
  BY <1>1 DEF Healthy, Ready
<1> QED
  BY <1>4, <1>5, <1>6, <1>7, <1>8 DEF IInv

\* No object is left.
LEMMA DestroyInv ==
  ASSUME IInv, Destroy, TypeInv'
  PROVE  IInv'
<1>1. live' = FALSE /\ rec' = Idle
  BY DEF Destroy, NoObject
<1> QED
  BY <1>1 DEF IInv, Appending, InProgress, Quiet, Durable, Healthy, Ready, Idle

LEMMA OthersInv ==
  ASSUME IInv, Others, TypeInv'
  PROVE  IInv'
<1>1. CASE \/ \E l \in LevelChoices : level(l)
           \/ LoseStd \/ UNCHANGED vars
  <2>1. UNCHANGED <<proc, live, stream, err, rec, file, calls, accepted>>
    BY <1>1 DEF level, LoseStd, vars
  <2> QED
    BY <2>1 DEF IInv, Appending, Apart, AtEnd, InProgress, Quiet, Durable, Healthy,
       Busy, Ready, good
<1>2. CASE set_err
  <2>1. /\ rec' = Idle /\ rec.at = "set_err" /\ proc' = rec.then
        /\ err' = "HEALTHY" => \A s \in Sinks : stream[s].st = "good"
        /\ UNCHANGED <<live, stream, file, calls, accepted>>
    BY <1>2 DEF set_err, object
  <2>2. rec # Idle /\ rec.then # "killed" /\ proc = "running"
    <3>1. rec # Idle
      BY <2>1 DEF Idle
    <3> QED
      BY <3>1 DEF IInv, TypeInv, TypeOK, InCall
  <2>3. Durable'
    BY <2>1, <2>2 DEF IInv, Durable, Busy
  <2>4. Quiet'
    BY <2>1, <2>2 DEF IInv, Quiet, Busy
  <2> QED
    BY <2>1, <2>3, <2>4 DEF IInv, Appending, Apart, AtEnd, InProgress, Healthy,
       Ready, good, Idle
<1>3. CASE close
  <2>1. /\ UNCHANGED <<proc, live, stream, rec, file, calls, accepted>>
        /\ err' # "HEALTHY"
    BY <1>3 DEF close
  <2> QED
    BY <2>1 DEF IInv, Appending, Apart, AtEnd, InProgress, Quiet, Durable, Healthy,
       Busy, good
<1>4. CASE Return \/ Kill
  <2>1. /\ rec' = Idle /\ proc = "running" /\ proc' \in {"returned", "killed"}
        /\ proc' = "returned" => rec = Idle
        /\ UNCHANGED <<live, stream, err, file, calls, accepted>>
    BY <1>4 DEF Return, Kill, object
  <2>2. Durable'
    BY <2>1 DEF IInv, Durable, Busy, Idle
  <2>3. Quiet'
    BY <2>1 DEF IInv, Quiet, Busy, Idle
  <2> QED
    BY <2>1, <2>2, <2>3 DEF IInv, Appending, Apart, AtEnd, InProgress, Healthy,
       Ready, Idle
<1>5. CASE Restart
  <2>1. live' = FALSE /\ rec' = rec /\ proc # "running"
    BY <1>5 DEF Restart, NoObject
  <2>2. rec = Idle
    BY <2>1 DEF IInv, TypeInv, TypeOK
  <2> QED
    BY <2>1, <2>2 DEF IInv, Appending, InProgress, Quiet, Durable, Healthy, Ready, Idle
<1> QED
  BY <1>1, <1>2, <1>3, <1>4, <1>5 DEF Others

LEMMA IInvInit == Init => IInv
<1> SUFFICES ASSUME Init PROVE IInv
  OBVIOUS
<1>1. TypeInv
  BY TypeInvInit
<1>2. live = FALSE /\ rec = Idle
  BY DEF Init
<1> QED
  BY <1>1, <1>2 DEF IInv, Appending, InProgress, Quiet, Durable, Healthy, Ready, Idle

LEMMA IInvInductive ==
  ASSUME NoClobber
  PROVE  IInv /\ [Next]_vars => IInv'
<1> SUFFICES ASSUME IInv, [Next]_vars PROVE IInv'
  OBVIOUS
<1>1. TypeInv'
  BY TypeInvInductive DEF IInv
<1>2. CASE open_binlogfile
  BY <1>1, <1>2, OpenInv
<1>3. ASSUME NEW c \in Levels, NEW s \in Sinks,
             NEW then \in {"running", "EXIT_FAILURE", "exitcode"}, Call(c, s, then)
      PROVE  IInv'
  BY <1>1, <1>3, CallInv
<1>4. CASE put \/ flush
  BY <1>1, <1>4, WriteInv
<1>5. CASE Destroy
  BY <1>1, <1>5, DestroyInv
<1>6. CASE Others
  BY <1>1, <1>6, OthersInv
<1> QED
  BY <1>2, <1>3, <1>4, <1>5, <1>6, Steps

LEMMA Invariant ==
  ASSUME NoClobber
  PROVE  Spec => []IInv
<1>1. IInv /\ [Next]_vars => IInv'
  BY IInvInductive
<1> QED
  BY IInvInit, <1>1, PTL DEF Spec

\* While good() says true between two calls, every message the object accepted
\* is in its file whole, whatever failed or filled up in between.
THEOREM Durability ==
  ASSUME NoClobber
  PROVE  Spec => []HealthyIsDurable
<1>1. IInv => HealthyIsDurable
  <2> SUFFICES ASSUME IInv, Ready, good, NEW s \in Sinks,
                      NEW i \in 1..Len(accepted[s])
               PROVE  Readable(file[stream[s].path], accepted[s][i])
    BY DEF HealthyIsDurable
  <2>1. stream[s].st = "good" /\ live /\ proc # "killed" /\ ~Busy(s)
    BY DEF IInv, Healthy, Ready, Busy, Idle
  <2> QED
    BY <2>1 DEF IInv, Durable
<1> QED
  BY Invariant, <1>1, PTL

\* A process killed at any point, also between two pieces of a record, loses at
\* most the message of the call it was in.
THEOREM LossBound ==
  ASSUME NoClobber
  PROVE  Spec => []KillLosesOne
<1>1. IInv => KillLosesOne
  <2> SUFFICES ASSUME IInv, live, NEW s \in Sinks, stream[s].st = "good",
                      NEW i \in 1..Len(accepted[s])
               PROVE  \/ Readable(file[stream[s].path], accepted[s][i])
                      \/ accepted[s][i].id = calls /\ (rec # Idle \/ proc = "killed")
    BY DEF KillLosesOne
  <2>1. Busy(s) => rec # Idle
    BY DEF Busy, Idle
  <2> QED
    BY <2>1 DEF IInv, Durable
<1> QED
  BY Invariant, <1>1, PTL

=============================================================================
