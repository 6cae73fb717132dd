-------------------------- MODULE FileLoggerProofs --------------------------
(***************************************************************************)
(* Proofs about FileLogger for every set of files, record sizes,           *)
(* constructor calls, levels and number of log calls.                      *)
(***************************************************************************)
EXTENDS FileLogger, LogStreamLemmas

-----------------------------------------------------------------------------
(* Type correctness *)

\* TypeOK is not inductive: a write through a stream whose offset lies beyond
\* the end of its file would leave a file with a hole.
PosInside ==
  live => \A s \in Sinks : stream[s].pos <= Len(file[stream[s].path])

TypeInv == TypeOK /\ PosInside

\* One log call on a good or failed stream.
LEMMA WriteLogType ==
  ASSUME TypeInv, live, NEW s \in Sinks, NEW m \in Msgs, NEW k \in 0..m.size,
         write_log(s, m, k)
  PROVE  /\ stream' \in [Sinks -> Streams]
         /\ file' \in [Paths -> Seq(Cells)]
         /\ \A t \in Sinks : stream'[t].pos <= Len(file'[stream'[t].path])
<1> USE DEF TypeInv, TypeOK
<1>1. CASE stream[s].st = "good"
  <2> DEFINE c == SubSeq(Bytes(m), 1, k)
             p == stream[s].path
  <2>1. /\ Bytes(m) \in Seq(Cells)
        /\ k \in 0..Len(Bytes(m))
    BY BytesType
  <2>2. c \in Seq(Cells) /\ Len(c) = k
    BY <2>1, PrefixType
  <2>3. stream[s] \in Streams /\ p \in Paths /\ file[p] \in Seq(Cells)
    BY DEF Streams
  <2>4. /\ WriteAt(file[p], stream[s], c) \in Seq(Cells)
        /\ Len(WriteAt(file[p], stream[s], c)) >= Len(file[p])
        /\ ~stream[s].app =>
             Len(WriteAt(file[p], stream[s], c)) >= stream[s].pos + Len(c)
    BY <2>2, <2>3, WriteAtType DEF PosInside
  <2>5. /\ AfterWrite(stream[s], Bytes(m), k) \in Streams
        /\ AfterWrite(stream[s], Bytes(m), k).path = p
        /\ AfterWrite(stream[s], Bytes(m), k).pos
             = IF stream[s].app THEN 0 ELSE stream[s].pos + k
    BY <2>1, <2>3, AfterWriteType
  <2>6. /\ file' = [file EXCEPT ![p] = WriteAt(file[p], stream[s], c)]
        /\ stream' = [stream EXCEPT ![s] = AfterWrite(stream[s], Bytes(m), k)]
    BY <1>1 DEF write_log
  <2>7. file' \in [Paths -> Seq(Cells)] /\ stream' \in [Sinks -> Streams]
    BY <2>3, <2>4, <2>5, <2>6
  <2>8. ASSUME NEW t \in Sinks
        PROVE  stream'[t].pos <= Len(file'[stream'[t].path])
    <3>1. CASE t = s
      BY <2>2, <2>3, <2>4, <2>5, <2>6, <3>1
    <3>2. CASE t # s
      <4>1. /\ stream'[t] = stream[t]
            /\ stream[t] \in Streams
            /\ stream[t].path \in Paths
        BY <2>6, <3>2 DEF Streams
      <4>2. stream[t].pos <= Len(file[stream[t].path])
        BY DEF PosInside
      <4>3. Len(file[stream[t].path]) <= Len(file'[stream[t].path])
        BY <2>3, <2>4, <2>6, <4>1
      <4>4. /\ stream[t].pos \in Nat
            /\ Len(file[stream[t].path]) \in Nat
            /\ Len(file'[stream[t].path]) \in Nat
        BY <2>7, <4>1 DEF Streams
      <4> QED
        BY <4>1, <4>2, <4>3, <4>4
    <3> QED
      BY <3>1, <3>2
  <2> QED
    BY <2>7, <2>8
<1>2. CASE stream[s].st # "good"
  BY <1>2 DEF write_log, PosInside
<1> QED
  BY <1>1, <1>2

Flags == {DEFAULT_FLAGS, TRUNC_FLAGS}

\* Both constructors, whatever the arguments.
LEMMA OpenConstructs ==
  ASSUME NEW o \in Opens, NEW okO \in BOOLEAN, NEW okE \in BOOLEAN,
         OpenWith(o, okO, okE)
  PROVE  \E p \in Paths, q \in Paths, fo \in Flags, fe \in Flags :
           Construct(p, fo, q, fe, okO, okE)
<1>1. o.logfile \in Paths /\ o.errfile \in Paths
  BY OpensAssumption DEF OpenCalls
<1>2. flags(o.truncate) \in Flags /\ DEFAULT_FLAGS \in Flags
  BY DEF flags, Flags
<1>3. CASE o.single
  <2>1. Construct(o.logfile, flags(o.truncate), o.logfile, DEFAULT_FLAGS, okO, okE)
    BY <1>3 DEF OpenWith, FileLogger1
  <2> QED
    BY <1>1, <1>2, <2>1
<1>4. CASE ~o.single
  <2>1. Construct(o.logfile, flags(o.truncate), o.errfile, flags(o.truncate), okO, okE)
    BY <1>4 DEF OpenWith, FileLogger2
  <2> QED
    BY <1>1, <1>2, <2>1
<1> QED
  BY <1>3, <1>4

\* A constructor call.
LEMMA OpenType ==
  ASSUME TypeInv, open_logfile
  PROVE  TypeInv'
<1> USE DEF TypeInv, TypeOK
<1>1. PICK p \in Paths, q \in Paths, fo \in Flags, fe \in Flags,
           okO \in BOOLEAN, okE \in BOOLEAN :
        Construct(p, fo, q, fe, okO, okE)
  BY OpenConstructs DEF open_logfile
<1>2. /\ Opened(p, fo, okO) \in Streams
      /\ Opened(p, fo, okO).pos = 0
      /\ Opened(q, fe, okE) \in Streams
      /\ Opened(q, fe, okE).pos = 0
  BY OpenedType
<1>3. stream' = [s \in Sinks |-> IF s = "outs" THEN Opened(p, fo, okO)
                                             ELSE Opened(q, fe, okE)]
  BY <1>1 DEF Construct
<1>4. stream' \in [Sinks -> Streams] /\ \A s \in Sinks : stream'[s].pos = 0
  BY <1>2, <1>3
<1>5. file' \in [Paths -> Seq(Cells)]
  <2> DEFINE f == [file EXCEPT ![p] = FileOpened(file[p], fo, okO)]
  <2>1. f \in [Paths -> Seq(Cells)]
    BY FileOpenedType
  <2>2. file' = [f EXCEPT ![q] = FileOpened(f[q], fe, okE)]
    BY <1>1 DEF Construct
  <2> QED
    BY <2>1, <2>2, FileOpenedType
<1>6. PosInside'
  <2> SUFFICES ASSUME NEW s \in Sinks
               PROVE  stream'[s].pos <= Len(file'[stream'[s].path])
    BY DEF PosInside
  <2>1. stream'[s].path \in Paths
    BY <1>4 DEF Streams
  <2>2. Len(file'[stream'[s].path]) \in Nat
    BY <1>5, <2>1
  <2> QED
    BY <1>4, <2>2
<1>7. accepted' \in [Sinks -> Seq(Msgs)]
  BY <1>1 DEF Construct
<1>8. /\ proc' = proc
      /\ live' = TRUE
      /\ ilevel' = DEFAULT_LEVEL
      /\ err' \in {"HEALTHY", "ERR_OPEN"}
      /\ std' = std
      /\ calls' = calls
      /\ closed' = FALSE
  BY <1>1 DEF Construct
<1> QED
  BY <1>4, <1>5, <1>6, <1>7, <1>8

\* A log call of any level.
LEMMA LogType ==
  ASSUME TypeInv, NEW c \in Levels, NEW s \in Sinks, Log(c, s),
         proc' \in {proc, "EXIT_FAILURE", "exitcode"}
  PROVE  TypeInv'
<1> USE DEF TypeInv, TypeOK
<1>1. PICK n \in Sizes : \E k \in 0..n :
        LET m == [id |-> calls + 1, size |-> n]
        IN  /\ write_log(s, m, k)
            /\ accepted' = [accepted EXCEPT ![Documented(c)] = Append(@, m)]
  BY DEF Log
<1>2. PICK k \in 0..n :
        LET m == [id |-> calls + 1, size |-> n]
        IN  /\ write_log(s, m, k)
            /\ accepted' = [accepted EXCEPT ![Documented(c)] = Append(@, m)]
  BY <1>1
<1> DEFINE m == [id |-> calls + 1, size |-> n]
<1>3. m \in Msgs /\ m.size = n
  BY MaxCallsAssumption DEF Msgs
<1>4. Documented(c) \in Sinks
  BY DEF Documented, Sinks
<1>5. accepted' \in [Sinks -> Seq(Msgs)]
  BY <1>2, <1>3, <1>4
<1>6. calls' \in 0..MaxCalls
  BY MaxCallsAssumption DEF Log
<1>7. /\ stream' \in [Sinks -> Streams]
      /\ file' \in [Paths -> Seq(Cells)]
      /\ \A t \in Sinks : stream'[t].pos <= Len(file'[stream'[t].path])
  BY <1>2, <1>3, WriteLogType DEF Log
<1>8. UNCHANGED <<live, ilevel, err, std, closed>>
  BY DEF Log
<1> QED
  BY <1>5, <1>6, <1>7, <1>8 DEF PosInside

\* The destructor.
LEMMA DestroyType ==
  ASSUME TypeInv, Destroy
  PROVE  TypeInv'
<1> USE DEF TypeInv, TypeOK
<1>1. /\ stream["errs"] \in Streams /\ stream["outs"] \in Streams
      /\ stream["errs"].pos <= Len(file[stream["errs"].path])
      /\ stream["outs"].pos <= Len(file[stream["outs"].path])
  BY DEF Destroy, PosInside, Sinks
<1>2. file' \in [Paths -> Seq(Cells)]
  <2>1. PICK kE \in 0..Len(stream["errs"].buf), kO \in 0..Len(stream["outs"].buf) :
          file' = Wrote(Wrote(file, stream["errs"], SubSeq(stream["errs"].buf, 1, kE)),
                        stream["outs"], SubSeq(stream["outs"].buf, 1, kO))
    BY DEF Destroy, Wrote
  <2> QED
    BY <1>1, <2>1, LastFlushesType
<1>3. stream' \in [Sinks -> Streams]
  <2>1. << >> \in Seq(Cells)
    OBVIOUS
  <2>2. ASSUME NEW s \in Sinks PROVE [stream[s] EXCEPT !.buf = << >>] \in Streams
    BY <2>1 DEF Streams
  <2> QED
    BY <2>2 DEF Destroy
<1>4. /\ live' = FALSE
      /\ ilevel' = DEFAULT_LEVEL
      /\ err' = "ERR_OPEN"
      /\ closed' = FALSE
      /\ UNCHANGED <<proc, std, calls, accepted>>
  BY DEF Destroy, NoObject
<1> QED
  BY <1>2, <1>3, <1>4 DEF PosInside

LEMMA TypeInvInit == Init => TypeInv
<1> SUFFICES ASSUME Init PROVE TypeInv
  OBVIOUS
<1>1. PICK p \in Paths : stream = [s \in Sinks |-> Opened(p, DEFAULT_FLAGS, FALSE)]
  BY DEF Init
<1>2. Opened(p, DEFAULT_FLAGS, FALSE) \in Streams
  BY OpenedType
<1>3. stream \in [Sinks -> Streams]
  BY <1>1, <1>2
<1>4. calls \in 0..MaxCalls
  BY MaxCallsAssumption DEF Init
<1>5. file \in [Paths -> Seq(Cells)] /\ accepted \in [Sinks -> Seq(Msgs)]
  BY DEF Init
<1> QED
  BY <1>3, <1>4, <1>5 DEF Init, TypeInv, TypeOK, PosInside

LEMMA TypeInvInductive == TypeInv /\ [Next]_vars => TypeInv'
<1> SUFFICES ASSUME TypeInv, [Next]_vars PROVE TypeInv'
  OBVIOUS
<1>1. CASE open_logfile
  BY <1>1, OpenType
<1>2. CASE \/ debug \/ info \/ warn \/ error \/ critical
           \/ fatal \/ fatal_code \/ fatal_noexit
  BY <1>2, LogType
  DEF debug, info, warn, error, critical, fatal, fatal_code, fatal_noexit,
      Levels, Sinks
<1>3. ASSUME NEW l \in LevelChoices, level(l) PROVE TypeInv'
  BY <1>3 DEF level, TypeInv, TypeOK, PosInside
<1>4. CASE close
  BY <1>4 DEF close, TypeInv, TypeOK, PosInside
<1>5. CASE delete \/ AtExit
  BY <1>5, DestroyType DEF delete, AtExit
<1>6. CASE End
  BY <1>6 DEF End, TypeInv, TypeOK, PosInside
<1>7. CASE LoseStd
  BY <1>7 DEF LoseStd, TypeInv, TypeOK, PosInside
<1>8. CASE Restart
  BY <1>8 DEF Restart, NoObject, TypeInv, TypeOK, PosInside
<1>9. CASE UNCHANGED vars
  BY <1>9 DEF vars, TypeInv, TypeOK, PosInside
<1> QED
  BY <1>1, <1>2, <1>3, <1>4, <1>5, <1>6, <1>7, <1>8, <1>9 DEF Next

\* Every variable keeps its type; in particular a FileLogger never reports an
\* error other than the four its code assigns, and no file gets a hole.
THEOREM TypeCorrect == Spec => []TypeOK
<1>1. TypeInv => TypeOK
  BY DEF TypeInv
<1> QED
  BY TypeInvInit, TypeInvInductive, <1>1, PTL DEF Spec

-----------------------------------------------------------------------------
(* No record is torn or overwritten: under NoClobber every write appends *)

Apart == ApartIn(stream)

AtEnd(t) == AtEndOf(file[stream[t].path], stream[t])

Appending == live => Apart /\ \A t \in Sinks : AtEnd(t)

IInv == TypeInv /\ Appending /\ GoodIsComplete

\* Every file keeps what it has and may get cells at its end.
Grows == GrowsBy(file, file', Cells)

Waiting == WaitingIn(stream)

LEMMA GrowsKeeps ==
  ASSUME TypeInv, Grows, NEW p \in Paths, NEW m \in Msgs, Readable(file[p], m)
  PROVE  Readable(file'[p], m)
BY GrownReadable DEF TypeInv, TypeOK, Grows

LEMMA UnchangedGrows ==
  ASSUME TypeInv, UNCHANGED file, NEW C
  PROVE  GrowsBy(file, file', C)
BY GrowsNot DEF TypeInv, TypeOK

\* A log call appends what gets through of its record: all of it, and the
\* stream stays good; or not all, and the record waits in the buffer.
Effect(s, m) ==
  /\ GrowsBy(file, file', Pieces(m))
  /\ \A t \in Sinks : stream'[t].path = stream[t].path
  /\ \A t \in Sinks : stream'[t].app = stream[t].app
  /\ \A t \in Sinks : t # s => stream'[t] = stream[t]
  /\ \A t \in Sinks : AtEnd(t)'
  /\ \/ /\ stream[s].st = "good" /\ stream'[s].st = "good"
        /\ stream'[s].buf = << >>
        /\ Readable(file'[stream[s].path], m)
     \/ /\ stream[s].st = "good" /\ stream'[s].st = "bad"
        /\ stream'[s].buf = Bytes(m)
        /\ GrowsBy(file, file', Pieces(m) \ {<<m.id, m.size>>})
     \/ stream[s].st # "good" /\ UNCHANGED <<file, stream>>

LEMMA WriteLogAppends ==
  ASSUME TypeInv, Appending, live, NEW s \in Sinks, NEW m \in Msgs,
         NEW k \in 0..m.size, write_log(s, m, k)
  PROVE  Effect(s, m)
<1> USE DEF TypeInv, TypeOK
<1>1. CASE stream[s].st = "good"
  <2> DEFINE c == SubSeq(Bytes(m), 1, k)
             p == stream[s].path
  <2>1. /\ Bytes(m) \in Seq(Cells)
        /\ Len(Bytes(m)) = m.size
        /\ m.size \in Nat
        /\ k \in 0..Len(Bytes(m))
    BY BytesType
  <2>2. c \in Seq(Cells) /\ Len(c) = k /\ k \in Nat
    BY <2>1, PrefixType
  <2>3. stream[s] \in Streams /\ p \in Paths /\ file[p] \in Seq(Cells)
        /\ stream[s].pos <= Len(file[p])
    BY DEF Streams, PosInside
  <2>4. stream[s].app \/ stream[s].pos = Len(file[p])
    BY <1>1 DEF Appending, AtEnd, AtEndOf
  <2>5. /\ AfterWrite(stream[s], Bytes(m), k).path = p
        /\ AfterWrite(stream[s], Bytes(m), k).app = stream[s].app
        /\ AfterWrite(stream[s], Bytes(m), k).pos
             = IF stream[s].app THEN 0 ELSE stream[s].pos + k
        /\ AfterWrite(stream[s], Bytes(m), k).st
             = IF k = Len(Bytes(m)) THEN stream[s].st ELSE "bad"
        /\ AfterWrite(stream[s], Bytes(m), k).buf
             = IF k = Len(Bytes(m)) THEN << >> ELSE Bytes(m)
    BY <2>1, <2>3, AfterWriteType
  <2>6. /\ file' = Wrote(file, stream[s], c)
        /\ stream' = [stream EXCEPT ![s] = AfterWrite(stream[s], Bytes(m), k)]
    BY <1>1 DEF write_log, Wrote
  <2>7. stream'[s] = AfterWrite(stream[s], Bytes(m), k)
        /\ \A t \in Sinks : t # s => stream'[t] = stream[t]
    BY <2>6
  <2>8. ASSUME NEW C \in SUBSET Cells, c \in Seq(C)
        PROVE  /\ file'[p] = file[p] \o c
               /\ \A q \in Paths : q # p => file'[q] = file[q]
               /\ GrowsBy(file, file', C)
    <3> HIDE DEF c
    <3> QED
      BY <2>3, <2>4, <2>6, <2>8, WriteGrows, ZenonT(60)
  <2>9. /\ Pieces(m) \in SUBSET Cells
        /\ c \in Seq(Pieces(m))
        /\ k < m.size => c \in Seq(Pieces(m) \ {<<m.id, m.size>>})
    BY PiecesType, PrefixPieces
  <2>10. /\ file'[p] = file[p] \o c
         /\ \A q \in Paths : q # p => file'[q] = file[q]
         /\ GrowsBy(file, file', Pieces(m))
    BY <2>8, <2>9
  <2>11. AtEnd(s)'
    <3>1. CASE stream[s].app
      BY <2>5, <2>7, <3>1 DEF AtEnd, AtEndOf
    <3>2. CASE ~stream[s].app
      <4>1. stream[s].pos = Len(file[p])
        BY <2>4, <3>2
      <4>2. Len(file'[p]) = Len(file[p]) + k
        <5>1. Len(file[p] \o c) = Len(file[p]) + Len(c)
          BY <2>2, <2>3
        <5> QED
          BY <2>2, <2>10, <5>1
      <4>3. stream'[s].pos = Len(file'[p]) /\ stream'[s].path = p
        BY <2>5, <2>7, <3>2, <4>1, <4>2
      <4> QED
        BY <4>3 DEF AtEnd, AtEndOf
    <3> QED
      BY <3>1, <3>2
  <2>12. ASSUME NEW t \in Sinks, t # s PROVE AtEnd(t)'
    <3>1. stream'[t] = stream[t] /\ AtEnd(t) /\ stream[t].path \in Paths
      BY <2>7, <2>12 DEF Appending, Streams
    <3>2. CASE stream[t].app
      BY <3>1, <3>2 DEF AtEnd, AtEndOf
    <3>3. CASE ~stream[t].app
      <4>1. stream[t].path # p
        BY <2>12, <3>3 DEF Appending, Apart, ApartIn, Sinks
      <4>2. file'[stream[t].path] = file[stream[t].path]
        BY <2>10, <3>1, <4>1
      <4> QED
        BY <3>1, <4>2 DEF AtEnd
    <3> QED
      BY <3>2, <3>3
  <2>13. CASE k = m.size
    <3>1. c = Bytes(m)
      BY <2>1, <2>13
    <3>2. Readable(file'[p], m)
      BY <2>3, <2>10, <3>1, ReadableNew
    <3> QED
      BY <1>1, <2>1, <2>5, <2>7, <2>10, <2>11, <2>12, <2>13, <3>2 DEF Effect
  <2>14. CASE k # m.size
    <3>1. k < m.size
      BY <2>1, <2>14
    <3>2. Pieces(m) \ {<<m.id, m.size>>} \in SUBSET Cells
      BY <2>9
    <3>3. GrowsBy(file, file', Pieces(m) \ {<<m.id, m.size>>})
      BY <2>8, <2>9, <3>1, <3>2
    <3> QED
      BY <1>1, <2>1, <2>5, <2>7, <2>10, <2>11, <2>12, <2>14, <3>3 DEF Effect
  <2> QED
    BY <2>13, <2>14
<1>2. CASE stream[s].st # "good"
  <2>1. UNCHANGED <<file, stream>>
    BY <1>2 DEF write_log
  <2>2. GrowsBy(file, file', Pieces(m))
    BY <2>1, UnchangedGrows
  <2>3. \A t \in Sinks : AtEnd(t)'
    BY <2>1 DEF Appending, AtEnd
  <2> QED
    BY <1>2, <2>1, <2>2, <2>3 DEF Effect
<1> QED
  BY <1>1, <1>2

\* The destructor appends pieces that wait in the buffers, and nothing else.
LEMMA DestroyAppends ==
  ASSUME TypeInv, Appending, Destroy
  PROVE  GrowsBy(file, file', Waiting)
<1>1. /\ file \in [Paths -> Seq(Cells)] /\ stream \in [Sinks -> Streams]
      /\ \A t \in Sinks : /\ stream[t].pos <= Len(file[stream[t].path])
                         /\ AtEndOf(file[stream[t].path], stream[t])
      /\ ApartIn(stream)
  BY DEF TypeInv, TypeOK, PosInside, Appending, Destroy, Apart, AtEnd
<1>2. PICK kE \in 0..Len(stream["errs"].buf), kO \in 0..Len(stream["outs"].buf) :
        file' = Wrote(Wrote(file, stream["errs"], SubSeq(stream["errs"].buf, 1, kE)),
                      stream["outs"], SubSeq(stream["outs"].buf, 1, kO))
  BY DEF Destroy, Wrote
<1> QED
  BY <1>1, <1>2, LastFlushes DEF Waiting

\* A constructor call: without truncate both streams append and no file
\* changes; with truncate each stream has a file of its own, and an opened one
\* is empty.
LEMMA OpenAppends ==
  ASSUME NoClobber, TypeInv, NEW o \in Opens, NEW okO \in BOOLEAN,
         NEW okE \in BOOLEAN, OpenWith(o, okO, okE)
  PROVE  /\ Appending'
         /\ \A s \in Sinks : accepted'[s] = << >>
         /\ \A p \in Paths :
              file'[p] = file[p] \/ (o.truncate /\ p \in {o.logfile, o.errfile})
<1> DEFINE L == o.logfile
           M == o.errfile
<1>1. L \in Paths /\ M \in Paths /\ (o.single => M = L)
  BY OpensAssumption DEF OpenCalls
<1>2. Construct(L, flags(o.truncate), M, flags(o.truncate), okO, okE)
  <2>1. CASE o.single
    <3>1. ~o.truncate /\ o.truncate \in BOOLEAN
      BY <1>1, <2>1, OpensAssumption DEF NoClobber, OpenCalls
    <3>2. flags(o.truncate) = DEFAULT_FLAGS
      BY <3>1 DEF flags
    <3> QED
      BY <1>1, <2>1, <3>2 DEF OpenWith, FileLogger1
  <2>2. CASE ~o.single
    BY <2>2 DEF OpenWith, FileLogger2
  <2> QED
    BY <2>1, <2>2
<1>3. "app" \notin flags(o.truncate) <=> o.truncate
  BY OpensAssumption DEF flags, DEFAULT_FLAGS, TRUNC_FLAGS, OpenCalls
<1> DEFINE F == flags(o.truncate)
<1>4. /\ stream' = OpenedStreams(L, M, F, okO, okE)
      /\ file' = OpenedFiles(file, L, M, F, okO, okE)
      /\ accepted' = [s \in Sinks |-> << >>]
  BY <1>2 DEF Construct, OpenedStreams, OpenedFiles
<1>5. /\ "app" \notin F => L # M
      /\ file \in [Paths -> Seq(Cells)]
  BY <1>3 DEF NoClobber, TypeInv, TypeOK
<1> HIDE DEF F, L, M
<1> DEFINE str == OpenedStreams(L, M, F, okO, okE)
           g == OpenedFiles(file, L, M, F, okO, okE)
<1>6. ApartIn(str)
  BY <1>1, <1>5, OpenedApart
<1>7. \A t \in Sinks : AtEndOf(g[str[t].path], str[t])
  BY <1>1, <1>5, OpenedApart
<1>8. SameBut(file, g, IF "app" \in F THEN {} ELSE {L, M})
  BY <1>1, <1>5, OpenedApart
<1> HIDE DEF str, g
<1>9. stream' = str /\ file' = g
  BY <1>4 DEF str, g
<1>10. Appending'
  BY <1>6, <1>7, <1>9 DEF Appending, Apart, AtEnd
<1> QED
  BY <1>3, <1>4, <1>8, <1>9, <1>10 DEF SameBut, F, L, M

\* A log call of any level, on the member its class comment names.
LEMMA LogStep ==
  ASSUME TypeInv, Appending, NEW c \in Levels, NEW s \in Sinks,
         s = Documented(c), Log(c, s)
  PROVE  \E m \in Msgs :
           /\ m.id = calls + 1
           /\ calls' = calls + 1
           /\ accepted' = [accepted EXCEPT ![s] = Append(@, m)]
           /\ live /\ live'
           /\ Effect(s, m)
<1>1. PICK n \in Sizes : \E k \in 0..n :
        LET m == [id |-> calls + 1, size |-> n]
        IN  /\ write_log(s, m, k)
            /\ accepted' = [accepted EXCEPT ![s] = Append(@, m)]
  BY DEF Log
<1> DEFINE m == [id |-> calls + 1, size |-> n]
<1>2. m \in Msgs /\ m.size = n /\ m.id = calls + 1
  BY MaxCallsAssumption DEF Msgs, TypeInv, TypeOK
<1>3. PICK k \in 0..m.size :
        /\ write_log(s, m, k)
        /\ accepted' = [accepted EXCEPT ![s] = Append(@, m)]
  BY <1>1
<1>4. live /\ live' /\ calls' = calls + 1
  BY DEF Log
<1> HIDE DEF m
<1>5. Effect(s, m)
  BY <1>2, <1>3, <1>4, WriteLogAppends
<1> QED
  BY <1>2, <1>3, <1>4, <1>5

LEMMA LogAppends ==
  ASSUME IInv, NEW c \in Levels, NEW s \in Sinks, s = Documented(c), Log(c, s)
  PROVE  Grows /\ Appending' /\ GoodIsComplete'
<1> USE DEF IInv
<1>1. PICK m \in Msgs :
        /\ accepted' = [accepted EXCEPT ![s] = Append(@, m)]
        /\ live /\ live'
        /\ Effect(s, m)
  BY LogStep
<1>2. m \in Msgs
  OBVIOUS
<1>3. live /\ UNCHANGED live
  BY <1>1 DEF TypeInv, TypeOK
<1>4. /\ Grows
      /\ \A t \in Sinks : stream'[t].path = stream[t].path
      /\ \A t \in Sinks : stream'[t].app = stream[t].app
      /\ \A t \in Sinks : stream'[t].st = "good" => stream[t].st = "good"
      /\ \A t \in Sinks : AtEnd(t)'
      /\ stream'[s].st = "good" => Readable(file'[stream[s].path], m)
  <2>1. Grows
    BY <1>1, PiecesType, GrowsMore DEF Effect, Grows
  <2> QED
    BY <1>1, <2>1 DEF Effect
<1>5. Appending'
  <2>1. Apart
    BY <1>3 DEF Appending
  <2>2. Apart'
    <3>1. CASE \A t \in Sinks : stream[t].app
      BY <1>4, <3>1 DEF Apart, ApartIn
    <3>2. CASE stream["outs"].path # stream["errs"].path
      BY <1>4, <3>2 DEF Apart, ApartIn, Sinks
    <3> QED
      BY <2>1, <3>1, <3>2 DEF Apart, ApartIn
  <2> QED
    BY <1>4, <2>2 DEF Appending
<1>6. GoodIsComplete'
  <2> SUFFICES ASSUME NEW t \in Sinks, stream'[t].st = "good",
                      NEW i \in 1..Len(accepted'[t])
               PROVE  Readable(file'[stream'[t].path], accepted'[t][i])
    BY DEF GoodIsComplete
  <2>1. /\ stream'[t].path = stream[t].path
        /\ stream[t].st = "good"
        /\ stream[t].path \in Paths
        /\ accepted[t] \in Seq(Msgs)
    <3>1. stream[t] \in Streams /\ accepted[t] \in Seq(Msgs)
      BY DEF TypeInv, TypeOK
    <3> QED
      BY <1>4, <3>1 DEF Streams
  <2>2. ASSUME NEW j \in 1..Len(accepted[t])
        PROVE  Readable(file'[stream[t].path], accepted[t][j])
    <3>1. Readable(file[stream[t].path], accepted[t][j])
      BY <2>1 DEF GoodIsComplete
    <3>2. accepted[t][j] \in Msgs
      BY <2>1
    <3> QED
      BY <1>4, <2>1, <3>1, <3>2, GrowsKeeps
  <2>3. CASE t # s
    <3>1. accepted'[t] = accepted[t]
      BY <1>1, <2>3 DEF TypeInv, TypeOK
    <3> QED
      BY <2>1, <2>2, <3>1
  <2>4. CASE t = s
    <3>1. accepted'[t] = Append(accepted[t], m)
      BY <1>1, <2>4 DEF TypeInv, TypeOK
    <3>2. CASE i \in 1..Len(accepted[t])
      <4>1. accepted'[t][i] = accepted[t][i]
        BY <1>2, <2>1, <3>1, <3>2
      <4> QED
        BY <2>1, <2>2, <3>2, <4>1
    <3>3. CASE i = Len(accepted[t]) + 1
      <4>1. accepted'[t][i] = m
        BY <1>2, <2>1, <3>1, <3>3
      <4> QED
        BY <1>4, <2>1, <2>4, <4>1
    <3>4. Len(accepted'[t]) = Len(accepted[t]) + 1
      BY <1>2, <2>1, <3>1
    <3> QED
      BY <2>1, <3>2, <3>3, <3>4
  <2> QED
    BY <2>3, <2>4
<1> QED
  BY <1>4, <1>5, <1>6

\* A step that only lets files grow and touches no stream state.
LEMMA GrowsComplete ==
  ASSUME IInv, Grows, UNCHANGED accepted,
         \A t \in Sinks : /\ stream'[t].path = stream[t].path
                         /\ stream'[t].st = stream[t].st
  PROVE  GoodIsComplete'
<1> USE DEF IInv
<1> SUFFICES ASSUME NEW t \in Sinks, stream'[t].st = "good",
                    NEW i \in 1..Len(accepted'[t])
             PROVE  Readable(file'[stream'[t].path], accepted'[t][i])
  BY DEF GoodIsComplete
<1>1. Readable(file[stream[t].path], accepted[t][i])
  BY DEF GoodIsComplete
<1>2. accepted[t][i] \in Msgs /\ stream[t].path \in Paths
  <2>1. accepted[t] \in Seq(Msgs) /\ stream[t] \in Streams
    BY DEF TypeInv, TypeOK
  <2> QED
    BY <2>1 DEF Streams
<1> QED
  BY <1>1, <1>2, GrowsKeeps

\* Destroying the object keeps the rest of the invariant.
LEMMA DestroyComplete ==
  ASSUME IInv, Destroy
  PROVE  Grows /\ Appending' /\ GoodIsComplete'
<1>1. Grows
  <2>1. Waiting \subseteq Cells
    BY DEF Waiting, WaitingIn
  <2> QED
    BY <2>1, DestroyAppends, GrowsMore DEF IInv, Grows
<1>2. Appending' /\ UNCHANGED accepted
  BY DEF Destroy, NoObject, Appending
<1>3. ASSUME NEW t \in Sinks
      PROVE  stream'[t].path = stream[t].path /\ stream'[t].st = stream[t].st
  <2>1. stream'[t] = [stream[t] EXCEPT !.buf = << >>] /\ stream[t] \in Streams
    BY DEF Destroy, IInv, TypeInv, TypeOK
  <2> QED
    BY <2>1 DEF Streams
<1> QED
  BY <1>1, <1>2, <1>3, GrowsComplete

\* What a step other than a constructor call does.
LEMMA StepGrows ==
  ASSUME IInv, [Next]_vars, ~open_logfile
  PROVE  Grows /\ Appending' /\ GoodIsComplete'
<1>1. CASE debug \/ info
  <2>1. Log(DEBUG, "outs") \/ Log(INFO, "outs")
    BY <1>1 DEF debug, info
  <2>2. Documented(DEBUG) = "outs" /\ Documented(INFO) = "outs"
    BY DEF Documented
  <2> QED
    BY <2>1, <2>2, LogAppends DEF Levels, Sinks
<1>2. CASE \/ warn \/ error \/ critical
           \/ fatal \/ fatal_code \/ fatal_noexit
  <2>1. \E c \in {WARN, ERROR, CRITICAL, FATAL} : Log(c, "errs")
    BY <1>2 DEF warn, error, critical, fatal, fatal_code, fatal_noexit
  <2>2. \A c \in {WARN, ERROR, CRITICAL, FATAL} : Documented(c) = "errs"
    BY DEF Documented, DEBUG, INFO, WARN, ERROR, CRITICAL, FATAL
  <2> QED
    BY <2>1, <2>2, LogAppends DEF Levels, Sinks
<1>3. CASE delete \/ AtExit
  BY <1>3, DestroyComplete DEF delete, AtExit
<1>4. CASE \/ \E l \in LevelChoices : level(l)
           \/ close \/ End \/ LoseStd \/ Restart \/ UNCHANGED vars
  <2>1. UNCHANGED <<stream, file, accepted>> /\ live' \in {live, FALSE}
    BY <1>4 DEF level, close, End, LoseStd, Restart, NoObject, vars
  <2>2. Grows
    BY <2>1, UnchangedGrows DEF IInv, Grows
  <2>3. Appending'
    BY <2>1 DEF IInv, Appending, Apart, AtEnd
  <2> QED
    BY <2>1, <2>2, <2>3, GrowsComplete
<1> QED
  BY <1>1, <1>2, <1>3, <1>4 DEF Next

\* The inductive invariant holds initially and is kept by every step.
LEMMA IInvInit == Init => IInv
<1> SUFFICES ASSUME Init PROVE IInv
  OBVIOUS
<1>1. TypeInv
  BY TypeInvInit
<1>2. Appending
  BY DEF Init, Appending
<1>3. GoodIsComplete
  <2>1. \A s \in Sinks : accepted[s] = << >>
    BY DEF Init
  <2>2. \A s \in Sinks : 1..Len(accepted[s]) = {}
    BY <2>1
  <2> QED
    BY <2>2 DEF GoodIsComplete
<1> QED
  BY <1>1, <1>2, <1>3 DEF IInv

LEMMA IInvInductive ==
  ASSUME NoClobber
  PROVE  IInv /\ [Next]_vars => IInv'
<1> SUFFICES ASSUME IInv, [Next]_vars PROVE IInv'
  OBVIOUS
<1>1. TypeInv'
  BY TypeInvInductive DEF IInv
<1>2. CASE open_logfile
  <2>1. PICK o \in Opens, okO \in BOOLEAN, okE \in BOOLEAN : OpenWith(o, okO, okE)
    BY <1>2 DEF open_logfile
  <2>2. Appending' /\ \A s \in Sinks : accepted'[s] = << >>
    BY <2>1, OpenAppends DEF IInv
  <2>3. \A s \in Sinks : 1..Len(accepted'[s]) = {}
    BY <2>2
  <2>4. GoodIsComplete'
    BY <2>3 DEF GoodIsComplete
  <2> QED
    BY <1>1, <2>2, <2>4 DEF IInv
<1>3. CASE ~open_logfile
  BY <1>1, <1>3, StepGrows DEF IInv
<1> QED
  BY <1>2, <1>3

\* As long as no constructor call gives two streams their own offsets in one
\* file: a stream that never failed has every message logged to it, whole, in
\* the documented file.
THEOREM Complete ==
  ASSUME NoClobber
  PROVE  Spec => []GoodIsComplete
<1>1. IInv /\ [Next]_vars => IInv'
  BY IInvInductive
<1>2. IInv => GoodIsComplete
  BY DEF IInv
<1> QED
  BY IInvInit, <1>1, <1>2, PTL DEF Spec

\* Under the same condition no byte of a file is ever moved, overwritten or
\* dropped, except by a constructor called with truncate.
THEOREM OnlyAppends ==
  ASSUME NoClobber
  PROVE  Spec => AppendOnly
<1>1. IInv /\ [Next]_vars => IInv'
  BY IInvInductive
<1>2. IInv /\ [Next]_vars
        => \A p \in Paths : Extends(file[p], file'[p]) \/ Truncates(p)
  <2> SUFFICES ASSUME IInv, [Next]_vars, NEW p \in Paths
               PROVE  Extends(file[p], file'[p]) \/ Truncates(p)
    OBVIOUS
  <2>1. file[p] \in Seq(Cells)
    BY DEF IInv, TypeInv, TypeOK
  <2>2. CASE open_logfile
    <3>1. PICK o \in Opens, okO \in BOOLEAN, okE \in BOOLEAN : OpenWith(o, okO, okE)
      BY <2>2 DEF open_logfile
    <3>2. file'[p] = file[p] \/ (o.truncate /\ p \in {o.logfile, o.errfile})
      BY <3>1, OpenAppends DEF IInv
    <3>3. Extends(file[p], file[p])
      BY <2>1 DEF Extends
    <3> QED
      BY <3>1, <3>2, <3>3 DEF Truncates
  <2>3. CASE ~open_logfile
    <3>1. PICK c \in Seq(Cells) : file'[p] = file[p] \o c
      BY <2>3, StepGrows DEF Grows, GrowsBy
    <3> QED
      BY <2>1, <3>1, ConcatExtends DEF Extends
  <2> QED
    BY <2>2, <2>3
<1> QED
  BY IInvInit, <1>1, <1>2, PTL DEF Spec, AppendOnly

=============================================================================
