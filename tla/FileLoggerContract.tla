------------------------- MODULE FileLoggerContract -------------------------
(***************************************************************************)
(* What FileLogger's files keep of one object's messages: no gaps, the     *)
(* order of the calls, and the promise of DurableLog for both streams, for *)
(* every set of files, record sizes, constructor calls and levels.         *)
(***************************************************************************)
EXTENDS FileLoggerProofs

\* Only a stream on which a write failed holds something back.
HoldsBack == \A s \in Sinks : stream[s].buf # << >> => stream[s].st = "bad"

KeptAll == \A s \in Sinks : Kept(file, stream[s], accepted[s])

Recorded == Numbered(file, accepted, calls) /\ HoldsBack /\ KeptAll

\* NoGaps is not inductive: it does not say that a message logged after a
\* failure leaves nothing in a file, nor what the destructor may still write.
OInv == IInv /\ Recorded

-----------------------------------------------------------------------------
(* What each step does to the record *)

\* A constructor call forgets what earlier objects logged, and files are as
\* they were or empty.
LEMMA OpenForgets ==
  ASSUME TypeInv, NEW o \in Opens, NEW okO \in BOOLEAN, NEW okE \in BOOLEAN,
         OpenWith(o, okO, okE)
  PROVE  /\ proc = "running" /\ ~live /\ live' = TRUE
         /\ UNCHANGED <<proc, calls>>
         /\ \A s \in Sinks : accepted'[s] = << >> /\ stream'[s].buf = << >>
         /\ \A p \in Paths : file'[p] \in {file[p], << >>}
<1> USE DEF TypeInv, TypeOK
<1>1. PICK p \in Paths, q \in Paths, fo \in Flags, fe \in Flags :
        Construct(p, fo, q, fe, okO, okE)
  BY OpenConstructs
<1>2. /\ Opened(p, fo, okO).buf = << >>
      /\ Opened(q, fe, okE).buf = << >>
  BY DEF Opened
<1>3. \A s \in Sinks : accepted'[s] = << >> /\ stream'[s].buf = << >>
  BY <1>1, <1>2 DEF Construct, Sinks
<1>4. \A r \in Paths : file'[r] \in {file[r], << >>}
  BY <1>1 DEF Construct, FileOpened
<1> QED
  BY <1>1, <1>3, <1>4 DEF Construct

LEMMA OpenRecorded ==
  ASSUME OInv, TypeInv', open_logfile
  PROVE  Recorded'
<1> USE DEF TypeInv, TypeOK
<1>1. PICK o \in Opens, okO \in BOOLEAN, okE \in BOOLEAN : OpenWith(o, okO, okE)
  BY DEF open_logfile
<1>2. /\ calls' = calls
      /\ \A s \in Sinks : accepted'[s] = << >> /\ stream'[s].buf = << >>
      /\ \A p \in Paths : file'[p] \in {file[p], << >>}
  BY <1>1, OpenForgets DEF OInv, IInv
<1>3. \A s \in Sinks : 1..Len(accepted'[s]) = {}
  BY <1>2
<1>4. Numbered(file', accepted', calls')
  <2>1. ASSUME NEW p \in Paths, NEW i \in 1..Len(file'[p])
        PROVE  file'[p][i][1] <= calls'
    <3>1. file'[p] = file[p]
      <4>1. CASE file'[p] = << >>
        BY <2>1, <4>1
      <4> QED
        BY <1>2, <4>1
    <3>2. file[p][i][1] <= calls
      BY <2>1, <3>1 DEF OInv, Recorded, Numbered
    <3> QED
      BY <1>2, <3>1, <3>2
  <2> QED
    BY <1>3, <2>1 DEF Numbered
<1>5. KeptAll'
  <2> SUFFICES ASSUME NEW s \in Sinks
               PROVE  Kept(file', stream'[s], accepted'[s])
    BY DEF KeptAll
  <2>1. accepted'[s] \in Seq(Msgs) /\ stream'[s] \in Streams
    OBVIOUS
  <2> QED
    BY <1>2, <1>3, <2>1, KeptWhole
<1> QED
  BY <1>2, <1>4, <1>5 DEF Recorded, HoldsBack

LEMMA LogRecorded ==
  ASSUME OInv, IInv', NEW c \in Levels, NEW s \in Sinks, s = Documented(c),
         Log(c, s)
  PROVE  Recorded'
<1> USE DEF IInv, TypeInv, TypeOK
<1>1. PICK m \in Msgs :
        /\ m.id = calls + 1
        /\ calls' = calls + 1
        /\ accepted' = [accepted EXCEPT ![s] = Append(@, m)]
        /\ Effect(s, m)
  BY LogStep DEF OInv
<1>2. /\ Numbered(file, accepted, calls) /\ HoldsBack /\ KeptAll
      /\ GoodIsComplete /\ GoodIsComplete'
      /\ calls \in Nat
  BY MaxCallsAssumption DEF OInv, Recorded
<1>3. /\ Pieces(m) \in SUBSET Cells
      /\ \A d \in Pieces(m) : d[1] = calls + 1
      /\ GrowsBy(file, file', Pieces(m))
  BY <1>1, PiecesType DEF Pieces, Effect
<1>4. /\ \A p \in Paths : ~Mentions(file[p], m.id)
      /\ \A t \in Sinks : \A i \in 1..Len(accepted[t]) : accepted[t][i].id # m.id
  BY <1>1, <1>2, NumberedNew DEF OInv
<1>5. Numbered(file', accepted', calls')
  <2>1. Numbered(file, accepted', calls')
    BY <1>1, <1>2, NumberedNext DEF OInv
  <2>2. \A d \in Pieces(m) : d[1] <= calls' /\ calls' \in Nat
    BY <1>1, <1>2, <1>3
  <2>3. file \in [Paths -> Seq(Cells)] /\ calls' \in Nat
    BY <1>1, <1>2 DEF OInv
  <2> QED
    BY <1>3, <2>1, <2>2, <2>3, NumberedGrows
<1>6. HoldsBack'
  <2> SUFFICES ASSUME NEW t \in Sinks, stream'[t].buf # << >>
               PROVE  stream'[t].st = "bad"
    BY DEF HoldsBack
  <2>1. CASE t # s
    BY <1>1, <1>2, <2>1 DEF Effect, HoldsBack
  <2>2. CASE t = s
    BY <1>1, <1>2, <2>2 DEF Effect, HoldsBack
  <2> QED
    BY <2>1, <2>2
<1>7. ASSUME NEW t \in Sinks PROVE Kept(file', stream'[t], accepted'[t])
  <2>1. /\ stream[t] \in Streams /\ stream'[t] \in Streams
        /\ stream'[t].path = stream[t].path /\ stream[t].path \in Paths
        /\ accepted[t] \in Seq(Msgs) /\ accepted'[t] \in Seq(Msgs)
        /\ file \in [Paths -> Seq(Cells)]
    BY <1>1 DEF OInv, Effect, Streams
  <2>2. PICK n \in 0..Len(accepted[t]) : KeptTo(file, stream[t], accepted[t], n)
    BY <1>2 DEF KeptAll, Kept
  <2>3. CASE t # s
    <3>1. accepted'[t] = accepted[t] /\ stream'[t] = stream[t]
      BY <1>1, <2>3 DEF OInv, Effect
    <3>2. \A d \in Pieces(m) : \A i \in (n + 2)..Len(accepted[t]) :
            d[1] # accepted[t][i].id
      <4>1. \A i \in (n + 2)..Len(accepted[t]) : i \in 1..Len(accepted[t])
        OBVIOUS
      <4> QED
        BY <1>1, <1>3, <1>4, <4>1
    <3>3. KeptTo(file', stream'[t], accepted[t], n)
      BY <1>3, <2>1, <2>2, <3>1, <3>2, KeptGrows
    <3> QED
      BY <3>1, <3>3 DEF Kept
  <2>4. CASE t = s
    <3>1. accepted'[t] = Append(accepted[t], m)
      BY <1>1, <2>4 DEF OInv
    <3>2. CASE stream[t].st = "good" /\ stream'[t].st = "good"
      <4>1. stream'[t].buf = << >>
        BY <1>1, <2>4, <3>2 DEF Effect
      <4>2. \A i \in 1..Len(accepted'[t]) :
              Readable(file'[stream'[t].path], accepted'[t][i])
        BY <1>2, <3>2 DEF GoodIsComplete
      <4> QED
        BY <2>1, <4>1, <4>2, KeptWhole
    <3>3. CASE stream[t].st = "good" /\ stream'[t].st # "good"
      <4>1. stream'[t].buf = Bytes(m)
        BY <1>1, <2>4, <3>3 DEF Effect
      <4>2. \A i \in 1..Len(stream'[t].buf) : stream'[t].buf[i][1] = m.id
        BY <4>1, BytesType DEF Bytes
      <4>3. ASSUME NEW i \in 1..Len(accepted[t])
            PROVE  Readable(file'[stream'[t].path], accepted[t][i])
        <5>1. Readable(file[stream[t].path], accepted[t][i])
          BY <1>2, <3>3 DEF GoodIsComplete
        <5>2. accepted[t][i] \in Msgs
          BY <2>1
        <5> QED
          BY <1>3, <2>1, <5>1, <5>2, GrownReadable
      <4> QED
        BY <2>1, <3>1, <4>2, <4>3, KeptNext DEF Kept
    <3>4. CASE stream[t].st # "good"
      <4>1. UNCHANGED <<file, stream>>
        BY <1>1, <2>4, <3>4 DEF Effect
      <4>2. /\ n \in 0..Len(Append(accepted[t], m))
            /\ KeptTo(file, stream[t], Append(accepted[t], m), n)
        BY <1>4, <2>1, <2>2, KeptDrop
      <4> QED
        BY <3>1, <4>1, <4>2 DEF Kept
    <3> QED
      BY <3>2, <3>3, <3>4
  <2> QED
    BY <2>3, <2>4
<1> QED
  BY <1>5, <1>6, <1>7 DEF Recorded, KeptAll

LEMMA DestroyRecorded ==
  ASSUME OInv, Destroy
  PROVE  Recorded'
<1> USE DEF IInv, TypeInv, TypeOK
<1>1. /\ \A t \in Sinks : stream'[t] = [stream[t] EXCEPT !.buf = << >>]
      /\ UNCHANGED <<calls, accepted>>
  BY DEF Destroy
<1>2. \A t \in Sinks : /\ stream'[t] \in Streams
                       /\ stream'[t].path = stream[t].path
                       /\ stream'[t].buf = << >>
  <2>1. << >> \in Seq(Cells)
    OBVIOUS
  <2> QED
    BY <1>1, <2>1 DEF OInv, Streams
<1>3. /\ file \in [Paths -> Seq(Cells)] /\ stream \in [Sinks -> Streams]
      /\ accepted \in [Sinks -> Seq(Msgs)] /\ calls \in Nat
      /\ Numbered(file, accepted, calls)
      /\ \A t \in Sinks : Kept(file, stream[t], accepted[t])
      /\ GrowsBy(file, file', WaitingIn(stream))
  BY DestroyAppends, MaxCallsAssumption DEF OInv, Recorded, KeptAll, Waiting
<1>4. Numbered(file', accepted', calls')
  BY <1>1, <1>3, NumberedDestroy
<1>5. KeptAll'
  BY <1>1, <1>2, <1>3, KeptDestroy DEF KeptAll
<1> QED
  BY <1>2, <1>4, <1>5 DEF Recorded, HoldsBack

-----------------------------------------------------------------------------
(* The invariant *)

\* The steps that log and destroy nothing.
LEMMA OtherSteps ==
  ASSUME \/ \E l \in LevelChoices : level(l)
         \/ close \/ End \/ LoseStd \/ Restart \/ UNCHANGED vars
  PROVE  UNCHANGED <<stream, file, calls, accepted>>
BY DEF level, close, End, LoseStd, Restart, NoObject, vars

\* The log calls, each on the member its class comment names.
LEMMA LogCalls ==
  ASSUME \/ debug \/ info \/ warn \/ error \/ critical
         \/ fatal \/ fatal_code \/ fatal_noexit
  PROVE  \E c \in Levels, s \in Sinks :
           /\ s = Documented(c)
           /\ Log(c, s)
           /\ proc' \in {proc, "EXIT_FAILURE", "exitcode"}
<1>1. CASE debug \/ info
  <2>1. \E c \in {DEBUG, INFO} : Log(c, "outs") /\ UNCHANGED proc
    BY <1>1 DEF debug, info
  <2>2. Documented(DEBUG) = "outs" /\ Documented(INFO) = "outs"
    BY DEF Documented
  <2> QED
    BY <2>1, <2>2 DEF Levels, Sinks
<1>2. CASE \/ warn \/ error \/ critical
           \/ fatal \/ fatal_code \/ fatal_noexit
  <2>1. \E c \in {WARN, ERROR, CRITICAL, FATAL} :
          Log(c, "errs") /\ proc' \in {proc, "EXIT_FAILURE", "exitcode"}
    BY <1>2 DEF warn, error, critical, fatal, fatal_code, fatal_noexit
  <2>2. \A c \in {WARN, ERROR, CRITICAL, FATAL} : Documented(c) = "errs"
    BY DEF Documented, DEBUG, INFO, WARN, ERROR, CRITICAL, FATAL
  <2> QED
    BY <2>1, <2>2 DEF Levels, Sinks
<1> QED
  BY <1>1, <1>2

LEMMA OInvInit == Init => OInv
<1> SUFFICES ASSUME Init PROVE OInv
  OBVIOUS
<1>1. IInv
  BY IInvInit
<1>2. PICK p \in Paths : stream = [s \in Sinks |-> Opened(p, DEFAULT_FLAGS, FALSE)]
  BY DEF Init
<1>3. \A s \in Sinks : stream[s].buf = << >> /\ accepted[s] = << >>
  BY <1>2 DEF Init, Opened
<1>4. \A s \in Sinks : 1..Len(accepted[s]) = {}
  BY <1>3
<1>5. \A q \in Paths : 1..Len(file[q]) = {}
  BY DEF Init
<1>6. Numbered(file, accepted, calls)
  BY <1>4, <1>5 DEF Numbered
<1>7. KeptAll
  <2> SUFFICES ASSUME NEW s \in Sinks PROVE Kept(file, stream[s], accepted[s])
    BY DEF KeptAll
  <2>1. stream[s] \in Streams /\ accepted[s] \in Seq(Msgs)
    BY <1>1 DEF IInv, TypeInv, TypeOK
  <2> QED
    BY <1>3, <1>4, <2>1, KeptWhole
<1> QED
  BY <1>1, <1>3, <1>6, <1>7 DEF OInv, Recorded, HoldsBack

LEMMA OInvInductive ==
  ASSUME NoClobber
  PROVE  OInv /\ [Next]_vars => OInv'
<1> SUFFICES ASSUME OInv, [Next]_vars PROVE OInv'
  OBVIOUS
<1>1. IInv' /\ TypeInv'
  BY IInvInductive DEF OInv, IInv
<1> SUFFICES Recorded'
  BY <1>1 DEF OInv
<1>2. CASE open_logfile
  BY <1>1, <1>2, OpenRecorded
<1>3. CASE \/ debug \/ info \/ warn \/ error \/ critical
           \/ fatal \/ fatal_code \/ fatal_noexit
  BY <1>1, <1>3, LogCalls, LogRecorded
<1>4. CASE delete \/ AtExit
  BY <1>1, <1>4, DestroyRecorded DEF delete, AtExit
<1>5. CASE \/ \E l \in LevelChoices : level(l)
           \/ close \/ End \/ LoseStd \/ Restart \/ UNCHANGED vars
  <2>1. UNCHANGED <<stream, file, calls, accepted>>
    BY <1>5, OtherSteps
  <2> QED
    BY <2>1 DEF OInv, Recorded, HoldsBack, KeptAll
<1> QED
  BY <1>2, <1>3, <1>4, <1>5 DEF Next

\* What a file has of one object's messages is a prefix of what was logged to
\* it, also when the destructor's last flush succeeds late.
THEOREM Gapless ==
  ASSUME NoClobber
  PROVE  Spec => []NoGaps
<1>1. OInv /\ [Next]_vars => OInv'
  BY OInvInductive
<1>2. OInv => NoGaps
  <2> SUFFICES ASSUME OInv, NEW s \in Sinks, NEW i \in 1..Len(accepted[s]),
                      NEW j \in 1..Len(accepted[s]), i < j,
                      Readable(file[stream[s].path], accepted[s][j])
               PROVE  Readable(file[stream[s].path], accepted[s][i])
    BY DEF NoGaps
  <2>1. /\ stream[s] \in Streams /\ accepted[s] \in Seq(Msgs)
        /\ file \in [Paths -> Seq(Cells)]
        /\ Kept(file, stream[s], accepted[s])
    BY DEF OInv, IInv, TypeInv, TypeOK, Recorded, KeptAll
  <2> QED
    BY <2>1, KeptNoGap
<1> QED
  BY OInvInit, <1>1, <1>2, PTL DEF Spec

-----------------------------------------------------------------------------
(* The order of the records *)

LEMMA OrderUse ==
  ASSUME CallOrder, NEW p \in Paths, NEW s \in Sinks, NEW t \in Sinks,
         NEW i \in 1..Len(file[p]), NEW j \in 1..Len(file[p]), i < j,
         \E k \in 1..Len(accepted[s]) : accepted[s][k].id = file[p][i][1],
         \E k \in 1..Len(accepted[t]) : accepted[t][k].id = file[p][j][1],
         file[p][i][1] > file[p][j][1]
  PROVE  s # t /\ stream[t].st = "bad"
BY DEF CallOrder

\* A cell of a file after a step was there or was written.
LEMMA NewCell ==
  ASSUME TypeInv, NEW C \in SUBSET Cells, GrowsBy(file, file', C), NEW p \in Paths
  PROVE  /\ Len(file[p]) \in Nat
         /\ Len(file'[p]) \in Nat
         /\ \A i \in 1..Len(file[p]) : file'[p][i] = file[p][i]
         /\ \A i \in 1..Len(file'[p]) : i > Len(file[p]) => file'[p][i] \in C
BY GrownCell DEF TypeInv, TypeOK

\* A new record is the last one of its file, and has the highest number.
LEMMA LogOrder ==
  ASSUME OInv, CallOrder, NEW c \in Levels, NEW u \in Sinks,
         u = Documented(c), Log(c, u)
  PROVE  CallOrder'
<1> USE DEF IInv, TypeInv, TypeOK
<1>1. PICK m \in Msgs :
        /\ m.id = calls + 1
        /\ calls' = calls + 1
        /\ accepted' = [accepted EXCEPT ![u] = Append(@, m)]
        /\ Effect(u, m)
  BY LogStep DEF OInv
<1> SUFFICES ASSUME NEW p \in Paths, NEW s \in Sinks, NEW t \in Sinks,
                    NEW i \in 1..Len(file'[p]), NEW j \in 1..Len(file'[p]), i < j,
                    NEW k \in 1..Len(accepted'[s]), NEW l \in 1..Len(accepted'[t]),
                    accepted'[s][k].id = file'[p][i][1],
                    accepted'[t][l].id = file'[p][j][1],
                    file'[p][i][1] > file'[p][j][1]
             PROVE  s # t /\ stream'[t].st = "bad"
  BY DEF CallOrder
<1>2. /\ Pieces(m) \in SUBSET Cells
      /\ \A d \in Pieces(m) : d[1] = calls + 1
      /\ GrowsBy(file, file', Pieces(m))
      /\ calls \in Nat
  BY <1>1, PiecesType, MaxCallsAssumption DEF Pieces, Effect, OInv
<1>3. /\ Len(file[p]) \in Nat
      /\ Len(file'[p]) \in Nat
      /\ \A x \in 1..Len(file[p]) : file'[p][x] = file[p][x]
      /\ \A x \in 1..Len(file'[p]) : x > Len(file[p]) => file'[p][x] \in Pieces(m)
  BY <1>2, NewCell DEF OInv
<1>4. \A x \in 1..Len(file[p]) : file[p][x][1] \in Nat /\ file[p][x][1] <= calls
  <2>1. \A x \in 1..Len(file[p]) : file[p][x] \in Cells
    BY ElementOfSeq DEF OInv
  <2> QED
    BY <2>1 DEF OInv, Recorded, Numbered, Cells
<1>5. i \in 1..Len(file[p]) /\ j \in 1..Len(file[p])
  <2>1. CASE j > Len(file[p])
    <3>1. file'[p][j][1] = calls + 1
      BY <1>2, <1>3, <2>1
    <3>2. CASE i > Len(file[p])
      BY <1>2, <1>3, <3>1, <3>2
    <3>3. CASE i <= Len(file[p])
      <4>1. file'[p][i][1] \in Nat /\ file'[p][i][1] <= calls
        BY <1>3, <1>4, <3>3
      <4> QED
        BY <1>2, <3>1, <4>1
    <3> QED
      BY <1>3, <3>2, <3>3
  <2>2. CASE j <= Len(file[p])
    BY <1>3, <2>2
  <2> QED
    BY <1>3, <2>1, <2>2
<1>6. /\ k \in 1..Len(accepted[s]) /\ accepted[s][k] = accepted'[s][k]
      /\ l \in 1..Len(accepted[t]) /\ accepted[t][l] = accepted'[t][l]
  <2>1. accepted'[s][k] # m /\ accepted'[t][l] # m
    <3>1. file'[p][i][1] # calls + 1 /\ file'[p][j][1] # calls + 1
      BY <1>2, <1>3, <1>4, <1>5, SMTT(60)
    <3> QED
      BY <1>1, <3>1
  <2> QED
    BY <1>1, <2>1, AcceptedNext DEF OInv
<1>7. s # t /\ stream[t].st = "bad"
  <2>1. /\ accepted[s][k].id = file[p][i][1]
        /\ accepted[t][l].id = file[p][j][1]
        /\ file[p][i][1] > file[p][j][1]
    BY <1>3, <1>5, <1>6
  <2> QED
    BY <1>5, <1>6, <2>1, OrderUse
<1>8. stream'[t].st = "bad"
  <2>1. CASE t # u
    BY <1>1, <1>7, <2>1 DEF Effect
  <2>2. CASE t = u
    BY <1>1, <1>7, <2>2 DEF Effect
  <2> QED
    BY <2>1, <2>2
<1> QED
  BY <1>7, <1>8

LEMMA WaitingNext ==
  ASSUME OInv, NEW d \in Waiting, NEW t \in Sinks,
         NEW n \in 0..Len(accepted[t]), KeptTo(file, stream[t], accepted[t], n)
  PROVE  \A i \in 1..Len(accepted[t]) :
           d[1] = accepted[t][i].id => i = n + 1 /\ stream[t].buf # << >>
BY WaitingIsNext DEF OInv, Recorded, KeptAll, IInv, TypeInv, TypeOK, Waiting

\* What the destructor writes late are pieces of the record on which a stream
\* failed, and of that stream's records no later one is in a file.
LEMMA DestroyOrder ==
  ASSUME OInv, CallOrder, Destroy
  PROVE  CallOrder'
<1> USE DEF IInv, TypeInv, TypeOK
<1>1. /\ \A t \in Sinks : stream'[t].st = stream[t].st
      /\ accepted' = accepted
  BY DEF Destroy, OInv, Streams
<1> SUFFICES ASSUME NEW p \in Paths, NEW s \in Sinks, NEW t \in Sinks,
                    NEW i \in 1..Len(file'[p]), NEW j \in 1..Len(file'[p]), i < j,
                    NEW k \in 1..Len(accepted[s]), NEW l \in 1..Len(accepted[t]),
                    accepted[s][k].id = file'[p][i][1],
                    accepted[t][l].id = file'[p][j][1],
                    file'[p][i][1] > file'[p][j][1]
             PROVE  s # t /\ stream[t].st = "bad"
  BY <1>1, SMTT(60) DEF CallOrder
<1>2. GrowsBy(file, file', Waiting) /\ Waiting \in SUBSET Cells
  BY DestroyAppends DEF OInv, Waiting, WaitingIn
<1>3. /\ Len(file[p]) \in Nat
      /\ Len(file'[p]) \in Nat
      /\ \A x \in 1..Len(file[p]) : file'[p][x] = file[p][x]
      /\ \A x \in 1..Len(file'[p]) : x > Len(file[p]) => file'[p][x] \in Waiting
  <2> HIDE DEF TypeInv
  <2> QED
    BY <1>2, NewCell DEF OInv
<1>4. CASE j <= Len(file[p])
  <2>1. i \in 1..Len(file[p]) /\ j \in 1..Len(file[p])
    BY <1>3, <1>4
  <2>2. /\ accepted[s][k].id = file[p][i][1]
        /\ accepted[t][l].id = file[p][j][1]
        /\ file[p][i][1] > file[p][j][1]
    BY <1>3, <2>1
  <2> QED
    BY <2>1, <2>2, OrderUse
<1>5. CASE j > Len(file[p])
  <2>1. PICK n \in 0..Len(accepted[t]) : KeptTo(file, stream[t], accepted[t], n)
    BY DEF OInv, Recorded, KeptAll, Kept
  <2>2. l = n + 1 /\ stream[t].buf # << >>
    <3>1. file'[p][j] \in Waiting
      BY <1>3, <1>5
    <3> QED
      BY <2>1, <3>1, WaitingNext
  <2>3. stream[t].st = "bad"
    BY <2>2 DEF OInv, Recorded, HoldsBack
  <2>4. ASSUME s = t PROVE FALSE
    <3>1. /\ accepted[t][k].id > accepted[t][l].id
          /\ accepted[t][k].id \in Nat /\ accepted[t][l].id \in Nat
          /\ k \in 1..Len(accepted[t])
      <4>1. accepted[t][k] \in Msgs /\ accepted[t][l] \in Msgs
        BY <2>4, ElementOfSeq DEF OInv
      <4> QED
        BY <2>4, <4>1 DEF Msgs
    <3>2. ~(k < l) /\ k # l
      BY <3>1, SMTT(60) DEF OInv, Recorded, Numbered
    <3>3. k \in (n + 2)..Len(accepted[t])
      BY <2>1, <2>2, <3>1, <3>2
    <3>4. CASE i <= Len(file[p])
      <4>1. i \in 1..Len(file[p]) /\ file[p][i][1] = accepted[t][k].id
        BY <1>3, <2>4, <3>4
      <4> QED
        BY <2>1, <3>3, <4>1 DEF KeptTo, Mentions
    <3>5. CASE i > Len(file[p])
      <4>1. file'[p][i] \in Waiting
        BY <1>3, <3>5
      <4>2. k = n + 1
        BY <2>1, <2>4, <3>1, <4>1, WaitingNext
      <4> QED
        BY <2>2, <3>2, <4>2
    <3> QED
      BY <1>3, <3>4, <3>5
  <2> QED
    BY <2>3, <2>4
<1> QED
  BY <1>3, <1>4, <1>5

LEMMA CallOrderInductive ==
  ASSUME OInv, CallOrder, [Next]_vars
  PROVE  CallOrder'
<1>1. CASE open_logfile
  <2>1. \A s \in Sinks : accepted'[s] = << >>
    BY <1>1, OpenForgets DEF open_logfile, OInv, IInv
  <2>2. \A s \in Sinks : 1..Len(accepted'[s]) = {}
    BY <2>1
  <2> QED
    BY <2>2 DEF CallOrder
<1>2. CASE \/ debug \/ info \/ warn \/ error \/ critical
           \/ fatal \/ fatal_code \/ fatal_noexit
  BY <1>2, LogCalls, LogOrder
<1>3. CASE delete \/ AtExit
  BY <1>3, DestroyOrder DEF delete, AtExit
<1>4. CASE \/ \E l \in LevelChoices : level(l)
           \/ close \/ End \/ LoseStd \/ Restart \/ UNCHANGED vars
  <2>1. UNCHANGED <<stream, file, calls, accepted>>
    BY <1>4, OtherSteps
  <2> QED
    BY <2>1 DEF CallOrder
<1> QED
  BY <1>1, <1>2, <1>3, <1>4 DEF Next

\* An object's records stand in every file in the order of the log calls, but
\* for the one record on which a stream failed.
THEOREM InCallOrder ==
  ASSUME NoClobber
  PROVE  Spec => []CallOrder
<1>1. OInv /\ [Next]_vars => OInv'
  BY OInvInductive
<1>2. Init => CallOrder
  <2>1. Init => \A s \in Sinks : 1..Len(accepted[s]) = {}
    BY DEF Init
  <2> QED
    BY <2>1 DEF CallOrder
<1>3. OInv /\ CallOrder /\ [Next]_vars => CallOrder'
  BY CallOrderInductive
<1> QED
  BY OInvInit, <1>1, <1>2, <1>3, PTL DEF Spec

-----------------------------------------------------------------------------
(* The promise of DurableLog, of each stream *)

D(s) == INSTANCE DurableLog WITH alive <- Alive, ok <- Ok(s),
  logged <- Logged(s), stored <- Stored(s), owed <- Owed(s)

\* Steps that leave the files, the streams and the history alone.
LEMMA SameRecord ==
  ASSUME NEW s \in Sinks, UNCHANGED <<stream, file, accepted>>
  PROVE  UNCHANGED <<Ok(s), Logged(s), Stored(s), Owed(s)>>
BY DEF Ok, Logged, Stored, Owed

LEMMA OpenPromises ==
  ASSUME OInv, open_logfile, NEW s \in Sinks
  PROVE  D(s)!Open
<1>1. /\ ~live /\ live' = TRUE /\ proc' = "running"
      /\ accepted'[s] = << >> /\ stream'[s].buf = << >>
  BY OpenForgets DEF open_logfile, OInv, IInv
<1>2. Alive = FALSE /\ Alive' = TRUE
  BY <1>1 DEF Alive
<1>3. Logged(s)' = 0 /\ Stored(s)' = {}
  BY <1>1 DEF Logged, Stored
<1>4. Owed(s)' = FALSE /\ Ok(s)' \in BOOLEAN
  BY <1>1 DEF Owed, Ok
<1> QED
  BY <1>2, <1>3, <1>4, Zenon DEF D!Open

\* A log call stores its message, fails to, or drops it; for the other stream
\* nothing happens.
LEMMA LogPromises ==
  ASSUME OInv, NEW c \in Levels, NEW u \in Sinks, u = Documented(c), Log(c, u),
         proc' \in {proc, "EXIT_FAILURE", "exitcode"}, NEW s \in Sinks
  PROVE  D(s)!Store \/ D(s)!Fail \/ D(s)!Drop \/ UNCHANGED D(s)!vars
<1> USE DEF IInv, TypeInv, TypeOK
<1>1. PICK m \in Msgs :
        /\ m.id = calls + 1
        /\ accepted' = [accepted EXCEPT ![u] = Append(@, m)]
        /\ live /\ live'
        /\ Effect(u, m)
  BY LogStep DEF OInv
<1>2. Alive = TRUE /\ Alive' = TRUE
  BY <1>1 DEF Log, Alive
<1> DEFINE p == stream[s].path
<1>3. /\ file \in [Paths -> Seq(Cells)]
      /\ p \in Paths /\ stream'[s].path = p
      /\ accepted[s] \in Seq(Msgs)
      /\ GrowsBy(file, file', Pieces(m))
      /\ Pieces(m) \in SUBSET Cells
      /\ \A d \in Pieces(m) : d[1] = m.id
  BY <1>1, PiecesType DEF OInv, Effect, Streams, Pieces
<1>4. /\ \A q \in Paths : ~Mentions(file[q], m.id)
      /\ \A i \in 1..Len(accepted[s]) : accepted[s][i].id # m.id
  <2>1. /\ Numbered(file, accepted, calls)
        /\ accepted \in [Sinks -> Seq(Msgs)]
        /\ calls \in Nat
    BY MaxCallsAssumption DEF OInv, Recorded
  <2> QED
    BY <1>1, <1>3, <2>1, NumberedNew
<1>5. StoredIn(file'[p], accepted[s]) = StoredIn(file[p], accepted[s])
  BY <1>3, <1>4, StoredSame
<1>6. CASE s # u
  <2>1. stream'[s] = stream[s] /\ accepted'[s] = accepted[s]
    BY <1>1, <1>6 DEF Effect, OInv
  <2>2. UNCHANGED <<Ok(s), Logged(s), Stored(s), Owed(s)>>
    BY <1>5, <2>1 DEF Ok, Logged, Stored, StoredIn, Owed
  <2> QED
    BY <1>2, <2>2, Zenon DEF D!vars
<1>7. CASE s = u
  <2>1. accepted'[s] = Append(accepted[s], m) /\ Logged(s)' = Logged(s) + 1
    BY <1>1, <1>3, <1>7 DEF OInv, Logged
  <2>2. /\ Readable(file'[p], m) => Stored(s)' = Stored(s) \cup {Logged(s)'}
        /\ ~Readable(file'[p], m) => Stored(s)' = Stored(s)
    <3>1. /\ Stored(s) = StoredIn(file[p], accepted[s])
          /\ Stored(s)' = StoredIn(file'[p], Append(accepted[s], m))
          /\ Logged(s)' = Len(accepted[s]) + 1
      BY <1>3, <2>1 DEF Stored, StoredIn, Logged
    <3> QED
      BY <1>3, <1>5, <3>1, StoredAppend
  <2>3. CASE stream[s].st = "good" /\ stream'[s].st = "good"
    <3>1. Ok(s) = TRUE /\ Ok(s)' = TRUE /\ Owed(s) = FALSE /\ Owed(s)' = FALSE
      BY <1>1, <1>7, <2>3 DEF Effect, Ok, Owed, OInv, Recorded, HoldsBack
    <3>2. Readable(file'[p], m)
      BY <1>1, <1>7, <2>3 DEF Effect
    <3> QED
      BY <1>2, <2>1, <2>2, <3>1, <3>2, Zenon DEF D!Store
  <2>4. CASE stream[s].st = "good" /\ stream'[s].st # "good"
    <3>1. Ok(s) = TRUE /\ Ok(s)' = FALSE /\ Owed(s)' \in BOOLEAN
      BY <2>4 DEF Ok, Owed
    <3>2. GrowsBy(file, file', Pieces(m) \ {<<m.id, m.size>>})
      BY <1>1, <1>7, <2>4 DEF Effect
    <3>3. ~Readable(file[p], m)
      <4>1. file[p] \in Seq(Cells)
        BY <1>3
      <4> QED
        BY <1>3, <1>4, <4>1, NotMentioned
    <3>4. ~Readable(file'[p], m)
      <4>1. /\ Pieces(m) \ {<<m.id, m.size>>} \in SUBSET Cells
            /\ <<m.id, m.size>> \notin Pieces(m) \ {<<m.id, m.size>>}
        BY <1>3
      <4>2. PICK C \in SUBSET Cells : GrowsBy(file, file', C) /\ <<m.id, m.size>> \notin C
        BY <3>2, <4>1
      <4>3. file \in [Paths -> Seq(Cells)] /\ p \in Paths /\ m \in Msgs
        BY <1>3
      <4> QED
        BY <3>3, <4>2, <4>3, GrownReadableOld, ZenonT(60)
    <3> QED
      BY <1>2, <2>1, <2>2, <3>1, <3>4, Zenon DEF D!Fail
  <2>5. CASE stream[s].st # "good"
    <3>1. UNCHANGED <<file, stream>>
      BY <1>1, <1>7, <2>5 DEF Effect
    <3>2. Ok(s) = FALSE /\ Ok(s)' = FALSE /\ Owed(s)' = Owed(s)
      BY <2>5, <3>1 DEF Ok, Owed
    <3>3. ~Readable(file'[p], m)
      <4>1. file[p] \in Seq(Cells)
        BY <1>3
      <4> QED
        BY <1>3, <1>4, <3>1, <4>1, NotMentioned
    <3> QED
      BY <1>2, <2>1, <2>2, <3>2, <3>3, Zenon DEF D!Drop
  <2> QED
    BY <2>3, <2>4, <2>5
<1> QED
  BY <1>6, <1>7

\* The destructor writes what the stream owes, wholly or not.
LEMMA DestroyPromises ==
  ASSUME OInv, Destroy, proc # "killed", UNCHANGED proc, NEW s \in Sinks
  PROVE  D(s)!Destroy
<1> USE DEF IInv, TypeInv, TypeOK
<1>1. /\ stream'[s] = [stream[s] EXCEPT !.buf = << >>]
      /\ UNCHANGED accepted
      /\ live /\ ~live'
  BY DEF Destroy, NoObject
<1>2. Alive = TRUE /\ Alive' = FALSE
  BY <1>1 DEF Alive
<1>3. /\ file \in [Paths -> Seq(Cells)]
      /\ stream[s] \in Streams /\ stream[s].path \in Paths
      /\ accepted[s] \in Seq(Msgs)
      /\ stream'[s].path = stream[s].path
      /\ stream'[s].st = stream[s].st
      /\ stream'[s].buf = << >>
  BY <1>1 DEF OInv, Streams
<1>4. Owed(s)' = FALSE /\ Ok(s)' = Ok(s) /\ Logged(s)' = Logged(s)
  BY <1>1, <1>3 DEF Owed, Ok, Logged
<1>5. Stored(s)' = StoredIn(file'[stream[s].path], accepted[s])
  BY <1>1, <1>3 DEF Stored, StoredIn
<1>6. \/ Stored(s)' = Stored(s)
      \/ /\ Owed(s)
         /\ \E i \in 1..Logged(s) :
              1..(i - 1) \subseteq Stored(s) /\ Stored(s)' = Stored(s) \cup {i}
  <2>1. /\ stream \in [Sinks -> Streams] /\ accepted \in [Sinks -> Seq(Msgs)]
        /\ calls \in Nat /\ Numbered(file, accepted, calls)
        /\ \A t \in Sinks : Kept(file, stream[t], accepted[t])
        /\ GrowsBy(file, file', WaitingIn(stream))
    BY DestroyAppends, MaxCallsAssumption DEF OInv, Recorded, KeptAll, Waiting
  <2> DEFINE X == StoredIn(file[stream[s].path], accepted[s])
             Y == StoredIn(file'[stream[s].path], accepted[s])
  <2>2. \/ Y = X
        \/ /\ stream[s].buf # << >>
           /\ \E i \in 1..Len(accepted[s]) : 1..(i - 1) \subseteq X /\ Y = X \cup {i}
    BY <1>3, <2>1, StoredDestroy, ZenonT(60)
  <2>3. X = Stored(s)
    BY DEF Stored, StoredIn
  <2> QED
    BY <1>5, <2>2, <2>3 DEF Logged, Owed
<1> QED
  BY <1>2, <1>4, <1>6, Zenon DEF D!Destroy

LEMMA StepPromises ==
  ASSUME OInv, [Next]_vars, NEW s \in Sinks
  PROVE  D(s)!Next \/ UNCHANGED D(s)!vars
<1>1. CASE open_logfile
  BY <1>1, OpenPromises, Zenon DEF D!Next
<1>2. CASE \/ debug \/ info \/ warn \/ error \/ critical
           \/ fatal \/ fatal_code \/ fatal_noexit
  BY <1>2, LogCalls, LogPromises, Zenon DEF D!Next
<1>3. CASE delete \/ AtExit
  <2>1. Destroy /\ proc # "killed" /\ UNCHANGED proc
    BY <1>3 DEF delete, AtExit, Destroy
  <2> QED
    BY <2>1, DestroyPromises, Zenon DEF D!Next
<1>4. CASE \/ \E l \in LevelChoices : level(l)
           \/ close \/ End \/ LoseStd \/ Restart \/ UNCHANGED vars
  <2>1. UNCHANGED <<Ok(s), Logged(s), Stored(s), Owed(s)>>
    BY <1>4, OtherSteps, SameRecord
  <2>2. Alive' = Alive \/ (Alive = TRUE /\ Alive' = FALSE)
    BY <1>4 DEF level, close, End, LoseStd, Restart, NoObject, vars, Alive,
       OInv, IInv, TypeInv, TypeOK
  <2> QED
    BY <2>1, <2>2, Zenon DEF D!Next, D!Crash, D!vars
<1> QED
  BY <1>1, <1>2, <1>3, <1>4 DEF Next

LEMMA InitPromises ==
  ASSUME Init, NEW s \in Sinks
  PROVE  D(s)!Init
<1>1. ~live /\ accepted[s] = << >>
  BY DEF Init
<1>2. stream[s].st = "fail" /\ stream[s].buf = << >>
  <2>1. \A p : /\ Opened(p, DEFAULT_FLAGS, FALSE).st = "fail"
               /\ Opened(p, DEFAULT_FLAGS, FALSE).buf = << >>
    BY DEF Opened
  <2> QED
    BY <2>1 DEF Init
<1>3. Alive = FALSE /\ Ok(s) = FALSE /\ Owed(s) = FALSE
  BY <1>1, <1>2 DEF Alive, Ok, Owed
<1>4. Logged(s) = 0 /\ Stored(s) = {}
  BY <1>1 DEF Logged, Stored
<1> QED
  BY <1>3, <1>4, Zenon DEF D!Init

\* FileLogger implements DurableLog, once for each of its streams.
THEOREM Implements ==
  ASSUME NoClobber
  PROVE  Spec => Contract
<1>1. OInv /\ [Next]_vars => OInv'
  BY OInvInductive
<1>2. "outs" \in Sinks /\ "errs" \in Sinks
  BY DEF Sinks
<1>3. Init => Outs!Init /\ Errs!Init
  <2>1. Init => D("outs")!Init /\ D("errs")!Init
    BY <1>2, InitPromises
  <2> QED
    BY <2>1 DEF D!Init, Outs!Init, Errs!Init
<1>4. OInv /\ [Next]_vars => [Outs!Next]_(Outs!vars) /\ [Errs!Next]_(Errs!vars)
  <2>1. OInv /\ [Next]_vars =>
          /\ D("outs")!Next \/ UNCHANGED D("outs")!vars
          /\ D("errs")!Next \/ UNCHANGED D("errs")!vars
    BY <1>2, StepPromises
  <2> QED
    BY <2>1
    DEF D!Next, D!vars, D!Open, D!Store, D!Fail, D!Drop, D!Destroy, D!Crash,
        Outs!Next, Outs!vars, Outs!Open, Outs!Store, Outs!Fail, Outs!Drop,
        Outs!Destroy, Outs!Crash,
        Errs!Next, Errs!vars, Errs!Open, Errs!Store, Errs!Fail, Errs!Drop,
        Errs!Destroy, Errs!Crash
<1> QED
  BY OInvInit, <1>1, <1>3, <1>4, PTL DEF Spec, Contract, Outs!Spec, Errs!Spec

=============================================================================
