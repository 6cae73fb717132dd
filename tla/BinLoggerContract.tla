-------------------------- MODULE BinLoggerContract -------------------------
(***************************************************************************)
(* What BinLogger's files keep of one object's records: the promise of     *)
(* DurableLog for both streams, and whole records only while good() is     *)
(* true, for every set of files, record sizes, constructor calls, levels   *)
(* and size of the buffer.                                                 *)
(***************************************************************************)
EXTENDS BinLoggerProofs

KeptAll == \A s \in Sinks : Kept(file, stream[s], accepted[s])

Recorded == Numbered(file, accepted, calls) /\ KeptAll

\* The promise is about messages stored late and dropped, of which IInv says
\* nothing.
OInv == IInv /\ Recorded

-----------------------------------------------------------------------------
(* What each step does to the record *)

LEMMA OpenRecorded ==
  ASSUME NoClobber, OInv, IInv', open_binlogfile
  PROVE  Recorded'
<1> USE DEF IInv, TypeInv, TypeOK
<1>1. /\ calls' = calls
      /\ \A s \in Sinks : accepted'[s] = << >> /\ stream'[s].buf = << >>
      /\ \A p \in Paths : file'[p] \in {file[p], << >>}
  BY OpenAppends DEF OInv
<1>2. \A s \in Sinks : 1..Len(accepted'[s]) = {}
  BY <1>1
<1>3. Numbered(file', accepted', calls')
  <2>1. ASSUME NEW p \in Paths, NEW i \in 1..Len(file'[p])
        PROVE  file'[p][i][1] <= calls'
    <3>1. file'[p] = file[p]
      <4>1. CASE file'[p] = << >>
        BY <2>1, <4>1
      <4> QED
        BY <1>1, <4>1
    <3>2. file[p][i][1] <= calls
      BY <2>1, <3>1 DEF OInv, Recorded, Numbered
    <3> QED
      BY <1>1, <3>1, <3>2
  <2> QED
    BY <1>2, <2>1 DEF Numbered
<1>4. KeptAll'
  <2> SUFFICES ASSUME NEW s \in Sinks
               PROVE  Kept(file', stream'[s], accepted'[s])
    BY DEF KeptAll
  <2>1. accepted'[s] \in Seq(Msgs) /\ stream'[s] \in Streams
    OBVIOUS
  <2> QED
    BY <1>1, <1>2, <2>1, KeptWhole
<1> QED
  BY <1>3, <1>4 DEF Recorded

\* A call begins: its message is new, and nothing of it is in a file.
LEMMA CallStep ==
  ASSUME OInv, NEW c \in Levels, NEW s \in Sinks,
         NEW then \in {"running", "EXIT_FAILURE", "exitcode"}, Call(c, s, then)
  PROVE  /\ \E m \in Msgs :
              /\ m.id = calls + 1
              /\ accepted' = [accepted EXCEPT ![s] = Append(@, m)]
              /\ \A p \in Paths : ~Mentions(file[p], m.id)
         /\ calls' = calls + 1 /\ calls \in Nat
         /\ rec' # Idle /\ rec'.at = "write" /\ rec'.sink = s
         /\ live /\ proc = "running" /\ rec = Idle
         /\ UNCHANGED <<proc, live, stream, file>>
<1> USE DEF IInv, TypeInv, TypeOK
<1>1. PICK n \in Sizes :
        LET m == [id |-> calls + 1, size |-> n]
        IN  /\ rec' = [at |-> "write", sink |-> s, msg |-> m, done |-> 0,
                       then |-> then]
            /\ accepted' = [accepted EXCEPT ![s] = Append(@, m)]
  BY DEF Call
<1> DEFINE m == [id |-> calls + 1, size |-> n]
<1>2. calls \in Nat /\ m \in Msgs /\ m.id = calls + 1
  BY MaxCallsAssumption DEF OInv, Msgs
<1>3. \A p \in Paths : ~Mentions(file[p], calls + 1)
  BY <1>2, NumberedNew DEF OInv, Recorded
<1> QED
  BY <1>1, <1>2, <1>3 DEF Call, Ready, object, Idle

LEMMA CallRecorded ==
  ASSUME OInv, IInv', NEW c \in Levels, NEW s \in Sinks,
         NEW then \in {"running", "EXIT_FAILURE", "exitcode"}, Call(c, s, then)
  PROVE  Recorded'
<1> USE DEF IInv, TypeInv, TypeOK
<1>1. PICK m \in Msgs :
        /\ m.id = calls + 1
        /\ accepted' = [accepted EXCEPT ![s] = Append(@, m)]
        /\ \A p \in Paths : ~Mentions(file[p], m.id)
  BY CallStep
<1>2. calls' = calls + 1 /\ calls \in Nat /\ UNCHANGED <<stream, file>>
  BY CallStep
<1>3. /\ file \in [Paths -> Seq(Cells)] /\ accepted \in [Sinks -> Seq(Msgs)]
      /\ stream \in [Sinks -> Streams]
      /\ Numbered(file, accepted, calls) /\ KeptAll
  BY DEF OInv, Recorded
<1>4. Numbered(file', accepted', calls')
  BY <1>1, <1>2, <1>3, NumberedNext
<1>5. ASSUME NEW t \in Sinks PROVE Kept(file', stream'[t], accepted'[t])
  <2>1. PICK n \in 0..Len(accepted[t]) : KeptTo(file, stream[t], accepted[t], n)
    BY <1>3 DEF KeptAll, Kept
  <2>2. CASE t # s
    BY <1>1, <1>2, <1>3, <2>1, <2>2 DEF Kept
  <2>3. CASE t = s
    <3>1. accepted'[t] = Append(accepted[t], m) /\ accepted[t] \in Seq(Msgs)
          /\ stream[t] \in Streams
      BY <1>1, <1>3, <2>3
    <3>2. /\ n \in 0..Len(Append(accepted[t], m))
          /\ KeptTo(file, stream[t], Append(accepted[t], m), n)
      BY <1>1, <2>1, <3>1, KeptDrop
    <3> QED
      BY <1>2, <3>1, <3>2 DEF Kept
  <2> QED
    BY <2>2, <2>3
<1> QED
  BY <1>4, <1>5 DEF Recorded, KeptAll

\* A step of write_tlv_log and the flush: on a stream that never failed all but
\* the message being written are in the file.
LEMMA WriteRecorded ==
  ASSUME OInv, IInv', put \/ flush
  PROVE  Recorded'
<1> USE DEF TypeInv, TypeOK
<1> DEFINE s == rec.sink
           m == rec.msg
<1>1. /\ s \in Sinks /\ m \in Msgs /\ live /\ rec # Idle
      /\ proc = "running" /\ UNCHANGED <<calls, accepted>>
      /\ Effect(s, m)
  BY WriteEffect DEF OInv
<1>2. /\ Len(accepted[s]) > 0 /\ accepted[s][Len(accepted[s])] = m /\ m.id = calls
      /\ Durable
  BY <1>1 DEF OInv, IInv, InProgress
<1>3. /\ file \in [Paths -> Seq(Cells)] /\ accepted \in [Sinks -> Seq(Msgs)]
      /\ stream \in [Sinks -> Streams] /\ stream' \in [Sinks -> Streams]
      /\ calls \in Nat
      /\ Numbered(file, accepted, calls) /\ KeptAll
  BY MaxCallsAssumption DEF OInv, IInv, Recorded
<1>4. /\ Pieces(m) \in SUBSET Cells
      /\ \A d \in Pieces(m) : d[1] = m.id
      /\ GrowsBy(file, file', Pieces(m))
  BY <1>1, PiecesType DEF Pieces, Effect
<1>5. Numbered(file', accepted, calls)
  <2>1. \A d \in Pieces(m) : d[1] = calls
    BY <1>2, <1>4
  <2>2. \A d \in Pieces(m) : d[1] <= calls
    BY <1>3, <2>1
  <2> QED
    BY <1>3, <1>4, <2>2, NumberedGrows
<1>6. ASSUME NEW t \in Sinks PROVE Kept(file', stream'[t], accepted[t])
  <2>1. /\ stream[t] \in Streams /\ stream'[t] \in Streams
        /\ stream'[t].path = stream[t].path /\ stream[t].path \in Paths
        /\ accepted[t] \in Seq(Msgs) /\ Len(accepted[t]) \in Nat
    <3>1. stream'[t].path = stream[t].path
      BY <1>1 DEF Effect
    <3>2. stream[t] \in Streams /\ stream'[t] \in Streams /\ accepted[t] \in Seq(Msgs)
      BY <1>3
    <3> QED
      BY <3>1, <3>2, LenProperties DEF Streams
  <2>2. PICK n \in 0..Len(accepted[t]) : KeptTo(file, stream[t], accepted[t], n)
    BY <1>3 DEF KeptAll, Kept
  <2>3. CASE t # s
    <3>1. stream'[t] = stream[t]
      BY <1>1, <2>3 DEF Effect
    <3>2. Len(accepted[s]) \in 1..Len(accepted[s])
      <4>1. accepted[s] \in Seq(Msgs)
        BY <1>1, <1>3
      <4> QED
        BY <1>2, <4>1, LenProperties
    <3>3. \A i \in 1..Len(accepted[t]) : accepted[t][i].id # m.id
      BY <1>1, <1>2, <1>3, <2>3, <3>2 DEF Numbered
    <3>4. \A d \in Pieces(m) : \A i \in (n + 2)..Len(accepted[t]) :
            d[1] # accepted[t][i].id
      <4>1. \A i \in (n + 2)..Len(accepted[t]) : i \in 1..Len(accepted[t])
        BY <2>1
      <4> QED
        BY <1>4, <3>3, <4>1
    <3>5. KeptTo(file', stream'[t], accepted[t], n)
      BY <1>3, <1>4, <2>1, <2>2, <3>1, <3>4, KeptGrows
    <3> QED
      BY <3>5 DEF Kept
  <2>4. CASE t = s /\ GivesUp(s)
    BY <1>3, <2>4 DEF GivesUp, KeptAll
  <2>5. CASE t = s /\ ~GivesUp(s)
    <3> DEFINE l == Len(accepted[t])
    <3>1. l \in Nat /\ l > 0 /\ accepted[t][l] = m
      BY <1>2, <2>1, <2>5
    <3>2. Takes(s, m) \/ Fails(s, m) \/ Stores(s, m)
      BY <1>1, <2>5 DEF Effect
    <3>3. stream[t].st = "good"
      BY <2>5, <3>2 DEF Takes, Fails, Stores
    <3>4. \A i \in 1..Len(stream'[t].buf) : stream'[t].buf[i][1] = m.id
      BY <2>5, <3>2 DEF Takes, Fails, Stores, Holds
    <3>5. ASSUME NEW i \in 1..(l - 1)
          PROVE  Readable(file'[stream'[t].path], accepted[t][i])
      <4>1. i \in 1..l /\ i # l
        BY <3>1
      <4>2. Readable(file[stream[t].path], accepted[t][i])
        BY <1>1, <1>2, <3>3, <4>1 DEF Durable
      <4>3. accepted[t][i] \in Msgs
        BY <2>1, <4>1
      <4> QED
        BY <1>3, <1>4, <2>1, <4>2, <4>3, GrownReadable
    <3>6. /\ l - 1 \in 0..l /\ ((l - 1) + 2)..l = {}
          /\ l - 1 < l /\ (l - 1) + 1 = l
      BY <3>1
    <3>7. KeptTo(file', stream'[t], accepted[t], l - 1)
      BY <3>1, <3>4, <3>5, <3>6 DEF KeptTo
    <3> QED
      BY <3>6, <3>7 DEF Kept
  <2> QED
    BY <2>3, <2>4, <2>5
<1> QED
  BY <1>1, <1>5, <1>6 DEF Recorded, KeptAll

\* What the destructor writes comes from the two buffers.
LEMMA DestroyGrows ==
  ASSUME IInv, Destroy
  PROVE  GrowsBy(file, file', WaitingIn(stream))
<1>1. PICK kE \in 0..Len(stream["errs"].buf), kO \in 0..Len(stream["outs"].buf) :
        file' = Wrote(Wrote(file, stream["errs"], SubSeq(stream["errs"].buf, 1, kE)),
                      stream["outs"], SubSeq(stream["outs"].buf, 1, kO))
  BY DEF Destroy, Wrote
<1>2. /\ file \in [Paths -> Seq(Cells)] /\ stream \in [Sinks -> Streams]
      /\ ApartIn(stream)
      /\ \A t \in Sinks : /\ stream[t].pos <= Len(file[stream[t].path])
                          /\ AtEndOf(file[stream[t].path], stream[t])
  BY DEF Destroy, IInv, TypeInv, TypeOK, PosInside, Appending, Apart, AtEnd
<1> QED
  BY <1>1, <1>2, LastFlushes

LEMMA DestroyRecorded ==
  ASSUME OInv, IInv', Destroy
  PROVE  Recorded'
<1> USE DEF IInv, TypeInv, TypeOK
<1>1. UNCHANGED <<calls, accepted>>
  BY DEF Destroy
<1>2. \A t \in Sinks : /\ stream'[t] \in Streams
                       /\ stream'[t].path = stream[t].path
                       /\ stream'[t].buf = << >>
  <2>1. \A t \in Sinks : stream'[t] = [stream[t] EXCEPT !.buf = << >>]
    BY DEF Destroy
  <2>2. << >> \in Seq(Cells)
    OBVIOUS
  <2> QED
    BY <2>1, <2>2 DEF OInv, Streams
<1>3. /\ file \in [Paths -> Seq(Cells)] /\ stream \in [Sinks -> Streams]
      /\ accepted \in [Sinks -> Seq(Msgs)] /\ calls \in Nat
      /\ Numbered(file, accepted, calls)
      /\ \A t \in Sinks : Kept(file, stream[t], accepted[t])
      /\ GrowsBy(file, file', WaitingIn(stream))
  BY DestroyGrows, MaxCallsAssumption DEF OInv, Recorded, KeptAll
<1>4. Numbered(file', accepted', calls')
  BY <1>1, <1>3, NumberedDestroy
<1>5. KeptAll'
  BY <1>1, <1>2, <1>3, KeptDestroy DEF KeptAll
<1> QED
  BY <1>4, <1>5 DEF Recorded

LEMMA OthersRecord ==
  ASSUME Others
  PROVE  UNCHANGED <<stream, file, calls, accepted>>
BY DEF Others, level, set_err, close, Return, Kill, LoseStd, Restart, vars

LEMMA OInvInit == Init => OInv
<1> SUFFICES ASSUME Init PROVE OInv
  OBVIOUS
<1>1. IInv
  BY IInvInit
<1>2. PICK p \in Paths :
        stream = [s \in Sinks |-> Opened(p, BIN_DEFAULT_FLAGS, FALSE)]
  BY DEF Init
<1>3. \A s \in Sinks : stream[s].buf = << >> /\ accepted[s] = << >>
  BY <1>2 DEF Init, Opened
<1>4. \A s \in Sinks : 1..Len(accepted[s]) = {}
  BY <1>3
<1>5. \A q \in Paths : 1..Len(file[q]) = {}
  BY DEF Init
<1>6. Numbered(file, accepted, calls)
  BY <1>4, <1>5 DEF Numbered
<1>7. KeptAll
  <2> SUFFICES ASSUME NEW s \in Sinks PROVE Kept(file, stream[s], accepted[s])
    BY DEF KeptAll
  <2>1. stream[s] \in Streams /\ accepted[s] \in Seq(Msgs)
    BY <1>1 DEF IInv, TypeInv, TypeOK
  <2> QED
    BY <1>3, <1>4, <2>1, KeptWhole
<1> QED
  BY <1>1, <1>6, <1>7 DEF OInv, Recorded

LEMMA OInvInductive ==
  ASSUME NoClobber
  PROVE  OInv /\ [Next]_vars => OInv'
<1> SUFFICES ASSUME OInv, [Next]_vars PROVE OInv'
  OBVIOUS
<1>1. IInv'
  BY IInvInductive DEF OInv
<1> SUFFICES Recorded'
  BY <1>1 DEF OInv
<1>2. CASE open_binlogfile
  BY <1>1, <1>2, OpenRecorded
<1>3. ASSUME NEW c \in Levels, NEW s \in Sinks,
             NEW then \in {"running", "EXIT_FAILURE", "exitcode"}, Call(c, s, then)
      PROVE  Recorded'
  BY <1>1, <1>3, CallRecorded
<1>4. CASE put \/ flush
  BY <1>1, <1>4, WriteRecorded
<1>5. CASE Destroy
  BY <1>1, <1>5, DestroyRecorded
<1>6. CASE Others
  BY <1>6, OthersRecord DEF OInv, Recorded, KeptAll
<1> QED
  BY <1>2, <1>3, <1>4, <1>5, <1>6, Steps

-----------------------------------------------------------------------------
(* The promise of DurableLog, of each stream *)

D(s) == INSTANCE DurableLog WITH alive <- Alive, ok <- Ok(s),
  logged <- Logged(s), stored <- Stored(s), owed <- Owed(s)

LEMMA OpenPromises ==
  ASSUME NoClobber, OInv, open_binlogfile, NEW s \in Sinks
  PROVE  D(s)!Open
<1>1. /\ ~live /\ live' = TRUE /\ proc' = "running" /\ rec' = Idle
      /\ accepted'[s] = << >> /\ stream'[s].buf = << >>
  BY OpenAppends DEF OInv, IInv
<1>2. Alive = FALSE /\ Alive' = TRUE
  BY <1>1 DEF Alive
<1>3. Logged(s)' = 0 /\ Stored(s)' = {}
  <2>1. Pending(s)' = 0
    BY <1>1 DEF Pending, Idle
  <2> QED
    BY <1>1, <2>1 DEF Logged, Stored
<1>4. Owed(s)' = FALSE /\ Ok(s)' \in BOOLEAN
  BY <1>1 DEF Owed, Ok
<1> QED
  BY <1>2, <1>3, <1>4, Zenon DEF D!Open

\* The message of a call that begins does not count yet.
LEMMA CallPromises ==
  ASSUME OInv, NEW c \in Levels, NEW u \in Sinks,
         NEW then \in {"running", "EXIT_FAILURE", "exitcode"}, Call(c, u, then),
         NEW s \in Sinks
  PROVE  UNCHANGED D(s)!vars
<1>1. PICK m \in Msgs :
        /\ accepted' = [accepted EXCEPT ![u] = Append(@, m)]
        /\ \A p \in Paths : ~Mentions(file[p], m.id)
  BY CallStep
<1>2. /\ rec = Idle /\ rec'.at = "write" /\ rec'.sink = u
      /\ UNCHANGED <<proc, live, stream, file>>
  BY CallStep
<1>3. /\ file \in [Paths -> Seq(Cells)] /\ accepted \in [Sinks -> Seq(Msgs)]
      /\ stream[s].path \in Paths
  BY DEF OInv, IInv, TypeInv, TypeOK, Streams
<1>4. Pending(s) = 0 /\ Pending(s)' = IF u = s THEN 1 ELSE 0
  BY <1>2 DEF Pending, Idle
<1>5. Alive' = Alive /\ Ok(s)' = Ok(s) /\ Owed(s)' = Owed(s)
  BY <1>2 DEF Alive, Ok, Owed
<1>6. CASE s # u
  <2>1. Logged(s)' = Logged(s) /\ Stored(s)' = Stored(s)
    BY <1>1, <1>2, <1>3, <1>4, <1>6 DEF Logged, Stored
  <2> QED
    BY <1>5, <2>1, Zenon DEF D!vars
<1>7. CASE s = u
  <2>1. accepted[s] \in Seq(Msgs) /\ accepted'[s] = Append(accepted[s], m)
    BY <1>1, <1>3, <1>7
  <2>2. Logged(s)' = Logged(s)
    <3>1. Len(accepted'[s]) = Len(accepted[s]) + 1 /\ Len(accepted[s]) \in Nat
      BY <2>1
    <3> QED
      BY <1>4, <1>7, <3>1 DEF Logged
  <2>3. Stored(s)' = Stored(s)
    <3>1. file[stream[s].path] \in Seq(Cells)
      BY <1>3
    <3>2. ~Readable(file[stream[s].path], m)
      BY <1>1, <1>3, <3>1, NotMentioned
    <3>3. StoredIn(file[stream[s].path], Append(accepted[s], m))
            = StoredIn(file[stream[s].path], accepted[s])
      BY <2>1, <3>2, StoredAppend
    <3> QED
      BY <1>2, <2>1, <3>3 DEF Stored, StoredIn
  <2> QED
    BY <1>5, <2>2, <2>3, Zenon DEF D!vars
<1> QED
  BY <1>6, <1>7

\* What a step of a call that writes m to stream u leaves a reader of stream s:
\* only the last piece of m makes a difference, and only to m.
LEMMA WriteStored ==
  ASSUME OInv, put \/ flush, NEW s \in Sinks
  PROVE  LET u == rec.sink
             m == rec.msg
             n == Len(accepted[s])
             p == stream[s].path
         IN  /\ n \in Nat /\ accepted[s] \in Seq(Msgs)
             /\ s # u => Stored(s)' = Stored(s)
             /\ s = u => n > 0 /\ accepted[s][n] = m
             /\ s = u /\ GrowsBy(file, file', Pieces(m) \ {<<m.id, m.size>>})
                  => Stored(s)' = Stored(s)
             /\ s = u /\ Readable(file'[p], m) => Stored(s)' = Stored(s) \cup {n}
<1> USE DEF IInv, TypeInv, TypeOK
<1> DEFINE u == rec.sink
           m == rec.msg
           n == Len(accepted[s])
           p == stream[s].path
           a == accepted[s]
           L == Pieces(m) \ {<<m.id, m.size>>}
<1>1. /\ u \in Sinks /\ m \in Msgs /\ rec # Idle /\ UNCHANGED accepted
      /\ Effect(u, m)
  BY WriteEffect DEF OInv
<1>2. /\ Len(accepted[u]) > 0 /\ accepted[u][Len(accepted[u])] = m
  BY <1>1 DEF OInv, InProgress
<1>3. /\ file \in [Paths -> Seq(Cells)] /\ accepted \in [Sinks -> Seq(Msgs)]
      /\ p \in Paths /\ stream'[s].path = p
      /\ Numbered(file, accepted, calls)
  BY <1>1 DEF OInv, Recorded, Effect, Streams
<1>4. /\ Pieces(m) \in SUBSET Cells /\ L \in SUBSET Cells
      /\ \A d \in Pieces(m) : d[1] = m.id
      /\ GrowsBy(file, file', Pieces(m))
  BY <1>1, PiecesType DEF Pieces, Effect
<1>5. a \in Seq(Msgs) /\ n \in Nat /\ Len(accepted[u]) \in 1..Len(accepted[u])
  <2>1. accepted[u] \in Seq(Msgs) /\ a \in Seq(Msgs)
    BY <1>1, <1>3
  <2> QED
    BY <1>2, <2>1, LenProperties
<1>6. Stored(s) = StoredIn(file[p], a) /\ Stored(s)' = StoredIn(file'[p], a)
  BY <1>1, <1>3 DEF Stored, StoredIn
<1>7. CASE s # u
  <2>1. \A i \in 1..Len(a) : a[i].id # m.id
    BY <1>1, <1>2, <1>3, <1>5, <1>7 DEF Numbered
  <2>2. \A i \in 1..Len(a) : <<a[i].id, a[i].size>> \notin Pieces(m)
    BY <1>4, <2>1
  <2>3. Stored(s)' = Stored(s)
    BY <1>3, <1>4, <1>5, <1>6, <2>2, StoredSame, ZenonT(60)
  <2> QED
    BY <1>5, <1>7, <2>3
<1>8. CASE s = u
  <2>1. n > 0 /\ a[n] = m /\ n \in 1..n
    BY <1>2, <1>5, <1>8
  <2>2. ASSUME NEW i \in 1..n, i # n PROVE <<a[i].id, a[i].size>> \notin Pieces(m)
    <3>1. i < n
      BY <1>5, <2>2
    <3>2. a[i].id < a[n].id
      BY <1>3, <2>1, <3>1 DEF Numbered
    <3>3. a[i].id \in Nat /\ a[n].id \in Nat
      <4>1. a[i] \in Msgs /\ a[n] \in Msgs
        BY <1>5, <2>1
      <4> QED
        BY <4>1 DEF Msgs
    <3>4. a[i].id # m.id
      BY <2>1, <3>2, <3>3
    <3> QED
      BY <1>4, <3>4
  <2>3. ASSUME GrowsBy(file, file', L) PROVE Stored(s)' = Stored(s)
    <3>1. \A i \in 1..Len(a) : <<a[i].id, a[i].size>> \notin L
      BY <2>1, <2>2
    <3> HIDE DEF L
    <3> QED
      BY <1>3, <1>4, <1>5, <1>6, <2>3, <3>1, StoredSame, ZenonT(60)
  <2>4. ASSUME Readable(file'[p], m) PROVE Stored(s)' = Stored(s) \cup {n}
    <3>1. ASSUME NEW i \in 1..n, i # n
          PROVE  Readable(file'[p], a[i]) <=> Readable(file[p], a[i])
      <4>1. a[i] \in Msgs
        BY <1>5
      <4>2. Readable(file[p], a[i]) => Readable(file'[p], a[i])
        BY <1>3, <1>4, <4>1, GrownReadable
      <4>3. Readable(file'[p], a[i]) => Readable(file[p], a[i])
        BY <1>3, <1>4, <2>2, <3>1, <4>1, GrownReadableOld
      <4> QED
        BY <4>2, <4>3
    <3>2. Readable(file'[p], a[n])
      BY <2>1, <2>4
    <3> QED
      BY <1>6, <2>1, <3>1, <3>2 DEF StoredIn
  <2> QED
    BY <1>5, <1>8, <2>1, <2>3, <2>4
<1> QED
  BY <1>7, <1>8

\* A call's message counts when its last piece is flushed, when a piece fails,
\* or when it is given up; pieces that a stream takes count for nothing.
LEMMA WritePromises ==
  ASSUME OInv, IInv', put \/ flush, NEW s \in Sinks
  PROVE  D(s)!Store \/ D(s)!Fail \/ D(s)!Drop \/ UNCHANGED D(s)!vars
<1> DEFINE u == rec.sink
           m == rec.msg
           n == Len(accepted[s])
           L == Pieces(m) \ {<<m.id, m.size>>}
<1>1. /\ u \in Sinks /\ m \in Msgs /\ rec.at = "write" /\ live /\ live' = live
      /\ proc = "running" /\ rec'.sink = u /\ rec'.msg = m
      /\ UNCHANGED <<proc, accepted>>
      /\ Effect(u, m)
  BY WriteEffect DEF OInv, object
<1>2. Alive = TRUE /\ Alive' = TRUE
  BY <1>1 DEF Alive
<1>3. n \in Nat
  BY WriteStored
<1>4. CASE s # u
  <2>1. stream'[s] = stream[s]
    BY <1>1, <1>4 DEF Effect
  <2>2. Ok(s)' = Ok(s) /\ Owed(s)' = Owed(s)
    BY <2>1 DEF Ok, Owed
  <2>3. Logged(s)' = Logged(s)
    BY <1>1, <1>4 DEF Logged, Pending
  <2>4. Stored(s)' = Stored(s)
    BY <1>4, WriteStored
  <2> QED
    BY <1>2, <2>2, <2>3, <2>4, Zenon DEF D!vars
<1>5. CASE s = u
  <2>1. Logged(s) = n - 1
    BY <1>1, <1>3, <1>5 DEF Logged, Pending
  <2>2. ASSUME rec'.at = "set_err" PROVE Logged(s)' = Logged(s) + 1 /\ Logged(s)' = n
    <3>1. Pending(s)' = 0
      BY <2>2 DEF Pending
    <3> QED
      BY <1>1, <1>3, <2>1, <3>1 DEF Logged
  <2>3. ASSUME GrowsBy(file, file', L) PROVE Stored(s)' = Stored(s)
    BY <1>5, <2>3, WriteStored
  <2>4. CASE GivesUp(u)
    <3>1. Ok(s) = FALSE /\ Ok(s)' = FALSE /\ Owed(s)' = Owed(s)
      BY <1>5, <2>4 DEF GivesUp, Ok, Owed
    <3>2. Logged(s)' = Logged(s) + 1
      BY <2>2, <2>4 DEF GivesUp
    <3>3. Stored(s)' = Stored(s)
      BY <1>1, <2>4 DEF GivesUp, Stored
    <3> QED
      BY <1>2, <3>1, <3>2, <3>3, Zenon DEF D!Drop
  <2>5. CASE Takes(u, m)
    <3>1. Ok(s)' = Ok(s) /\ Owed(s) = FALSE /\ Owed(s)' = FALSE
      BY <1>5, <2>5 DEF Takes, Ok, Owed
    <3>2. Logged(s)' = Logged(s)
      BY <1>1, <1>5, <2>5 DEF Takes, Logged, Pending
    <3>3. Stored(s)' = Stored(s)
      BY <2>3, <2>5 DEF Takes
    <3> QED
      BY <1>2, <3>1, <3>2, <3>3, Zenon DEF D!vars
  <2>6. CASE Fails(u, m)
    <3>1. Ok(s) = TRUE /\ Ok(s)' = FALSE /\ Owed(s)' \in BOOLEAN
      BY <1>5, <2>6 DEF Fails, Ok, Owed
    <3>2. Logged(s)' = Logged(s) + 1
      BY <2>2, <2>6 DEF Fails
    <3>3. Stored(s)' = Stored(s)
      BY <2>3, <2>6 DEF Fails
    <3> QED
      BY <1>2, <3>1, <3>2, <3>3, Zenon DEF D!Fail
  <2>7. CASE Stores(u, m)
    <3>1. Ok(s) = TRUE /\ Ok(s)' = TRUE /\ Owed(s) = FALSE /\ Owed(s)' = FALSE
      BY <1>5, <2>7 DEF Stores, Ok, Owed
    <3>2. Logged(s)' = Logged(s) + 1 /\ Logged(s)' = n
      BY <2>2, <2>7 DEF Stores
    <3>3. Readable(file'[stream[s].path], m)
      <4>1. stream[s].path \in Paths /\ file' \in [Paths -> Seq(Cells)]
        BY DEF OInv, IInv, TypeInv, TypeOK, Streams
      <4>2. file'[stream[s].path] \in Seq(Cells)
        BY <4>1
      <4> QED
        BY <1>1, <1>5, <2>7, <4>2, EndsWithAll DEF Stores
    <3>4. Stored(s)' = Stored(s) \cup {Logged(s)'}
      BY <1>5, <3>2, <3>3, WriteStored
    <3> QED
      BY <1>2, <3>1, <3>2, <3>4, Zenon DEF D!Store
  <2> QED
    BY <1>1, <2>4, <2>5, <2>6, <2>7 DEF Effect
<1> QED
  BY <1>4, <1>5

\* The destructor writes what the stream owes, wholly or not.
LEMMA DestroyPromises ==
  ASSUME OInv, Destroy, proc # "killed", UNCHANGED proc, NEW s \in Sinks
  PROVE  D(s)!Destroy
<1> USE DEF IInv, TypeInv, TypeOK
<1>1. /\ stream'[s] = [stream[s] EXCEPT !.buf = << >>]
      /\ UNCHANGED <<rec, accepted>>
      /\ live /\ ~live' /\ rec = Idle
  BY DEF Destroy, NoObject
<1>2. Alive = TRUE /\ Alive' = FALSE
  BY <1>1 DEF Alive
<1>3. /\ stream[s] \in Streams /\ accepted[s] \in Seq(Msgs)
      /\ stream'[s].path = stream[s].path
      /\ stream'[s].st = stream[s].st
      /\ stream'[s].buf = << >>
  BY <1>1 DEF OInv, Streams
<1>4. Owed(s)' = FALSE /\ Ok(s)' = Ok(s) /\ Logged(s)' = Logged(s)
  BY <1>1, <1>3 DEF Owed, Ok, Logged, Pending
<1>5. Logged(s) = Len(accepted[s])
  <2>1. Pending(s) = 0 /\ Len(accepted[s]) \in Nat
    BY <1>1, <1>3 DEF Pending, Idle
  <2> QED
    BY <2>1 DEF Logged
<1>6. stream[s].buf # << >> => Owed(s)
  BY <1>1 DEF OInv, Quiet, Busy, Owed, Idle
<1>7. Stored(s)' = StoredIn(file'[stream[s].path], accepted[s])
  BY <1>1, <1>3 DEF Stored, StoredIn
<1>8. \/ Stored(s)' = Stored(s)
      \/ /\ Owed(s)
         /\ \E i \in 1..Logged(s) :
              1..(i - 1) \subseteq Stored(s) /\ Stored(s)' = Stored(s) \cup {i}
  <2>1. /\ file \in [Paths -> Seq(Cells)] /\ stream \in [Sinks -> Streams]
        /\ accepted \in [Sinks -> Seq(Msgs)]
        /\ calls \in Nat /\ Numbered(file, accepted, calls)
        /\ \A t \in Sinks : Kept(file, stream[t], accepted[t])
        /\ GrowsBy(file, file', WaitingIn(stream))
    BY DestroyGrows, MaxCallsAssumption DEF OInv, Recorded, KeptAll
  <2> DEFINE X == StoredIn(file[stream[s].path], accepted[s])
             Y == StoredIn(file'[stream[s].path], accepted[s])
  <2>2. \/ Y = X
        \/ /\ stream[s].buf # << >>
           /\ \E i \in 1..Len(accepted[s]) : 1..(i - 1) \subseteq X /\ Y = X \cup {i}
    BY <1>3, <2>1, StoredDestroy, ZenonT(60)
  <2>3. X = Stored(s)
    BY DEF Stored, StoredIn
  <2> QED
    BY <1>5, <1>6, <1>7, <2>2, <2>3
<1> QED
  BY <1>2, <1>4, <1>8, Zenon DEF D!Destroy

\* No other step changes what counts, but for the end of the process.
LEMMA OthersPromise ==
  ASSUME OInv, Others, NEW s \in Sinks
  PROVE  D(s)!Crash \/ UNCHANGED D(s)!vars
<1> USE DEF IInv, TypeInv, TypeOK
<1>1. UNCHANGED <<stream, file, accepted>>
  BY OthersRecord
<1>2. Ok(s)' = Ok(s) /\ Owed(s)' = Owed(s) /\ Stored(s)' = Stored(s)
  BY <1>1 DEF Ok, Owed, Stored
<1>3. CASE Kill
  <2>1. Alive' = FALSE /\ (live = TRUE => Alive = TRUE) /\ (live = FALSE => Alive = FALSE)
    BY <1>3 DEF Kill, Alive, object
  <2>2. Logged(s)' \in {Logged(s), Logged(s) + 1}
    <3>1. Pending(s)' = 0 /\ Pending(s) \in {0, 1}
      BY <1>3 DEF Kill, Pending, Idle
    <3>2. Len(accepted[s]) \in Nat
      <4>1. accepted[s] \in Seq(Msgs)
        BY DEF OInv
      <4> QED
        BY <4>1, LenProperties
    <3> QED
      BY <1>1, <3>1, <3>2 DEF Logged
  <2>3. CASE live = TRUE
    BY <1>2, <2>1, <2>2, <2>3, Zenon DEF D!Crash
  <2>4. CASE live = FALSE
    <3>1. rec = Idle /\ rec' = Idle
      BY <1>3, <2>4 DEF OInv, Kill
    <3>2. Logged(s)' = Logged(s)
      BY <1>1, <3>1 DEF Logged, Pending
    <3> QED
      BY <1>2, <2>1, <2>4, <3>2, Zenon DEF D!vars
  <2> QED
    BY <2>3, <2>4 DEF OInv
<1>4. CASE ~Kill
  <2>1. Logged(s)' = Logged(s)
    <3>1. Pending(s)' = Pending(s)
      BY <1>4 DEF Others, level, set_err, close, Return, LoseStd, Restart, vars,
         Pending, Idle
    <3> QED
      BY <1>1, <3>1 DEF Logged
  <2>2. Alive' = Alive \/ (Alive = TRUE /\ Alive' = FALSE)
    <3>1. CASE set_err
      <4>1. rec # Idle
        BY <3>1 DEF set_err, Idle
      <4>2. rec.then # "killed" /\ proc = "running"
        BY <4>1 DEF OInv, InCall
      <4> QED
        BY <3>1, <4>2 DEF set_err, object, Alive
    <3>2. CASE ~set_err
      BY <1>4, <3>2 DEF Others, level, close, Return, LoseStd, Restart, NoObject,
         vars, object, Alive, OInv
    <3> QED
      BY <3>1, <3>2
  <2> QED
    BY <1>2, <2>1, <2>2, Zenon DEF D!Crash, D!vars
<1> QED
  BY <1>3, <1>4

LEMMA StepPromises ==
  ASSUME NoClobber, OInv, [Next]_vars, NEW s \in Sinks
  PROVE  D(s)!Next \/ UNCHANGED D(s)!vars
<1>1. CASE open_binlogfile
  BY <1>1, OpenPromises, Zenon DEF D!Next
<1>2. ASSUME NEW c \in Levels, NEW u \in Sinks,
             NEW then \in {"running", "EXIT_FAILURE", "exitcode"}, Call(c, u, then)
      PROVE  UNCHANGED D(s)!vars
  BY <1>2, CallPromises, Zenon
<1>3. CASE put \/ flush
  <2>1. IInv'
    BY IInvInductive DEF OInv
  <2> QED
    BY <1>3, <2>1, WritePromises, Zenon DEF D!Next
<1>4. CASE Destroy /\ proc # "killed" /\ UNCHANGED proc
  BY <1>4, DestroyPromises, Zenon DEF D!Next
<1>5. CASE Others
  BY <1>5, OthersPromise, Zenon DEF D!Next
<1> QED
  BY <1>1, <1>2, <1>3, <1>4, <1>5, Steps, Zenon

LEMMA InitPromises ==
  ASSUME Init, NEW s \in Sinks
  PROVE  D(s)!Init
<1>1. ~live /\ accepted[s] = << >> /\ rec = Idle
  BY DEF Init
<1>2. stream[s].st = "fail" /\ stream[s].buf = << >>
  <2>1. \A p : /\ Opened(p, BIN_DEFAULT_FLAGS, FALSE).st = "fail"
               /\ Opened(p, BIN_DEFAULT_FLAGS, FALSE).buf = << >>
    BY DEF Opened
  <2> QED
    BY <2>1 DEF Init
<1>3. Alive = FALSE /\ Ok(s) = FALSE /\ Owed(s) = FALSE
  BY <1>1, <1>2 DEF Alive, Ok, Owed
<1>4. Logged(s) = 0 /\ Stored(s) = {}
  <2>1. Pending(s) = 0
    BY <1>1 DEF Pending, Idle
  <2> QED
    BY <1>1, <2>1 DEF Logged, Stored
<1> QED
  BY <1>3, <1>4, Zenon DEF D!Init

\* BinLogger implements DurableLog, once for each of its streams: to its caller
\* a record written piece by piece is stored at once, or not at all.
THEOREM Implements ==
  ASSUME NoClobber
  PROVE  Spec => Contract
<1>1. OInv /\ [Next]_vars => OInv'
  BY OInvInductive
<1>2. "outs" \in Sinks /\ "errs" \in Sinks
  BY DEF Sinks
<1>3. Init => Outs!Init /\ Errs!Init
  <2>1. Init => D("outs")!Init /\ D("errs")!Init
    BY <1>2, InitPromises
  <2> QED
    BY <2>1 DEF D!Init, Outs!Init, Errs!Init
<1>4. OInv /\ [Next]_vars => [Outs!Next]_(Outs!vars) /\ [Errs!Next]_(Errs!vars)
  <2>1. OInv /\ [Next]_vars =>
          /\ D("outs")!Next \/ UNCHANGED D("outs")!vars
          /\ D("errs")!Next \/ UNCHANGED D("errs")!vars
    BY <1>2, StepPromises
  <2> QED
    BY <2>1
    DEF D!Next, D!vars, D!Open, D!Store, D!Fail, D!Drop, D!Destroy, D!Crash,
        Outs!Next, Outs!vars, Outs!Open, Outs!Store, Outs!Fail, Outs!Drop,
        Outs!Destroy, Outs!Crash,
        Errs!Next, Errs!vars, Errs!Open, Errs!Store, Errs!Fail, Errs!Drop,
        Errs!Destroy, Errs!Crash
<1> QED
  BY OInvInit, <1>1, <1>3, <1>4, PTL DEF Spec, Contract, Outs!Spec, Errs!Spec

-----------------------------------------------------------------------------
(* The framing of the records *)

\* From lo to hi the file f is whole records of msgs.
FramedTo(f, lo, hi, msgs) ==
  \A i \in (lo + 1)..hi :
    \E m \in msgs :
      /\ f[i][1] = m.id
      /\ f[i][2] > 1 => i > lo + 1 /\ f[i - 1] = <<m.id, f[i][2] - 1>>
      /\ f[i][2] < m.size => i < hi /\ f[i + 1] = <<m.id, f[i][2] + 1>>

LEMMA FramedSame ==
  ASSUME NEW f, NEW g, NEW lo \in Nat, NEW hi \in Nat, NEW msgs, NEW more,
         FramedTo(f, lo, hi, msgs), msgs \subseteq more,
         \A i \in 1..hi : g[i] = f[i]
  PROVE  FramedTo(g, lo, hi, more)
<1> SUFFICES ASSUME NEW i \in (lo + 1)..hi
             PROVE  \E m \in more :
                      /\ g[i][1] = m.id
                      /\ g[i][2] > 1 => i > lo + 1 /\ g[i - 1] = <<m.id, g[i][2] - 1>>
                      /\ g[i][2] < m.size => i < hi /\ g[i + 1] = <<m.id, g[i][2] + 1>>
  BY DEF FramedTo
<1>1. PICK m \in msgs :
        /\ f[i][1] = m.id
        /\ f[i][2] > 1 => i > lo + 1 /\ f[i - 1] = <<m.id, f[i][2] - 1>>
        /\ f[i][2] < m.size => i < hi /\ f[i + 1] = <<m.id, f[i][2] + 1>>
  BY DEF FramedTo
<1>2. /\ g[i] = f[i]
      /\ i > lo + 1 => g[i - 1] = f[i - 1]
      /\ i < hi => g[i + 1] = f[i + 1]
  OBVIOUS
<1> QED
  BY <1>1, <1>2

\* One more whole record.
LEMMA FramedRecord ==
  ASSUME NEW f, NEW lo \in Nat, NEW hi \in Nat, lo <= hi, NEW msgs,
         FramedTo(f, lo, hi, msgs), NEW m \in msgs, m.size \in Nat,
         \A i \in 1..m.size : f[hi + i] = <<m.id, i>>
  PROVE  FramedTo(f, lo, hi + m.size, msgs)
<1> DEFINE h == hi + m.size
           Whole(i) == \E n \in msgs :
             /\ f[i][1] = n.id
             /\ f[i][2] > 1 => i > lo + 1 /\ f[i - 1] = <<n.id, f[i][2] - 1>>
             /\ f[i][2] < n.size => i < h /\ f[i + 1] = <<n.id, f[i][2] + 1>>
<1>1. ASSUME NEW i \in (lo + 1)..hi PROVE Whole(i)
  <2>1. PICK n \in msgs :
          /\ f[i][1] = n.id
          /\ f[i][2] > 1 => i > lo + 1 /\ f[i - 1] = <<n.id, f[i][2] - 1>>
          /\ f[i][2] < n.size => i < hi /\ f[i + 1] = <<n.id, f[i][2] + 1>>
    BY DEF FramedTo
  <2>2. i < hi => i < h
    OBVIOUS
  <2> QED
    BY <2>1, <2>2
<1>2. ASSUME NEW i \in (hi + 1)..h PROVE Whole(i)
  <2>1. PICK k \in 1..m.size : k = i - hi /\ i = hi + k
    OBVIOUS
  <2>2. f[i] = <<m.id, k>> /\ f[i][1] = m.id /\ f[i][2] = k
    BY <2>1
  <2>3. k > 1 => i > lo + 1 /\ f[i - 1] = <<m.id, k - 1>>
    <3> SUFFICES ASSUME k > 1 PROVE i > lo + 1 /\ f[i - 1] = <<m.id, k - 1>>
      OBVIOUS
    <3>1. k - 1 \in 1..m.size /\ i - 1 = hi + (k - 1) /\ i > lo + 1
      BY <2>1
    <3> QED
      BY <3>1
  <2>4. k < m.size => i < h /\ f[i + 1] = <<m.id, k + 1>>
    <3> SUFFICES ASSUME k < m.size PROVE i < h /\ f[i + 1] = <<m.id, k + 1>>
      OBVIOUS
    <3>1. k + 1 \in 1..m.size /\ i + 1 = hi + (k + 1) /\ i < h
      BY <2>1
    <3> QED
      BY <3>1
  <2> HIDE DEF h
  <2> QED
    BY <2>2, <2>3, <2>4
<1>3. \A i \in (lo + 1)..h : i \in (lo + 1)..hi \/ i \in (hi + 1)..h
  OBVIOUS
<1> QED
  BY <1>1, <1>2, <1>3 DEF FramedTo

\* What a reader sees who begins at lo.
LEMMA FramedPart ==
  ASSUME NEW f \in Seq(Cells), NEW lo \in 0..Len(f), NEW msgs,
         FramedTo(f, lo, Len(f), msgs)
  PROVE  WholeRecords(SubSeq(f, lo + 1, Len(f)), msgs)
<1> DEFINE g == SubSeq(f, lo + 1, Len(f))
<1>1. /\ Len(f) \in Nat /\ Len(g) = Len(f) - lo
      /\ \A i \in 1..Len(g) : g[i] = f[lo + i]
  OBVIOUS
<1> HIDE DEF g
<1> SUFFICES ASSUME NEW i \in 1..Len(g)
             PROVE  \E m \in msgs :
                      /\ g[i][1] = m.id
                      /\ g[i][2] > 1 => i > 1 /\ g[i - 1] = <<m.id, g[i][2] - 1>>
                      /\ g[i][2] < m.size => i < Len(g) /\ g[i + 1] = <<m.id, g[i][2] + 1>>
  BY DEF WholeRecords, g
<1>2. lo + i \in (lo + 1)..Len(f)
  BY <1>1
<1>3. PICK m \in msgs :
        /\ f[lo + i][1] = m.id
        /\ f[lo + i][2] > 1 =>
             lo + i > lo + 1 /\ f[(lo + i) - 1] = <<m.id, f[lo + i][2] - 1>>
        /\ f[lo + i][2] < m.size =>
             lo + i < Len(f) /\ f[lo + i + 1] = <<m.id, f[lo + i][2] + 1>>
  BY <1>2 DEF FramedTo
<1>4. g[i] = f[lo + i]
  BY <1>1
<1>5. lo + i > lo + 1 => i > 1 /\ g[i - 1] = f[(lo + i) - 1]
  <2> SUFFICES ASSUME lo + i > lo + 1 PROVE i > 1 /\ g[i - 1] = f[(lo + i) - 1]
    OBVIOUS
  <2>1. i > 1 /\ i - 1 \in 1..Len(g) /\ lo + (i - 1) = (lo + i) - 1
    BY <1>1
  <2> QED
    BY <1>1, <2>1
<1>6. lo + i < Len(f) => i < Len(g) /\ g[i + 1] = f[lo + i + 1]
  <2> SUFFICES ASSUME lo + i < Len(f) PROVE i < Len(g) /\ g[i + 1] = f[lo + i + 1]
    OBVIOUS
  <2>1. i < Len(g) /\ i + 1 \in 1..Len(g) /\ lo + (i + 1) = lo + i + 1
    BY <1>1
  <2> QED
    BY <1>1, <2>1
<1> QED
  BY <1>3, <1>4, <1>5, <1>6

\* How many pieces of the record in progress are in file p.
Partial(p) ==
  IF rec.at = "write" /\ stream[rec.sink].path = p
  THEN rec.done - Len(stream[rec.sink].buf) ELSE 0

\* As long as no stream failed, the object's part of each file is whole records
\* and the pieces of the record in progress.
Framing ==
  live /\ proc # "killed" /\ (\A s \in Sinks : stream[s].st = "good") =>
    \A p \in Paths :
      LET hi == Len(file[p]) - Partial(p)
      IN  base[p] <= hi /\ FramedTo(file[p], base[p], hi, Accepted)

\* Every message is one of Accepted.
Counted == \A s \in Sinks : Len(accepted[s]) <= calls

\* HealthyIsFramed is not inductive: it does not say what is in the files in the
\* middle of a record.
FInv == IInv /\ Framing /\ Counted

Among(acc) == {acc[x[1]][x[2]] :
                 x \in {y \in Sinks \X (1..MaxCalls) : y[2] <= Len(acc[y[1]])}}

LEMMA InAmong ==
  ASSUME NEW acc, NEW s \in Sinks, acc[s] \in Seq(Msgs), Len(acc[s]) <= MaxCalls,
         NEW i \in 1..Len(acc[s])
  PROVE  acc[s][i] \in Among(acc)
<1>1. Len(acc[s]) \in Nat
  BY LenProperties
<1>2. i \in 1..MaxCalls /\ i <= Len(acc[s])
  BY <1>1, MaxCallsAssumption
<1> DEFINE x == <<s, i>>
<1>3. x \in {y \in Sinks \X (1..MaxCalls) : y[2] <= Len(acc[y[1]])}
  BY <1>2
<1>4. acc[x[1]][x[2]] = acc[s][i]
  OBVIOUS
<1> QED
  BY <1>3, <1>4 DEF Among

LEMMA OpenFramed ==
  ASSUME NoClobber, FInv, IInv', open_binlogfile
  PROVE  Framing' /\ Counted'
<1>1. /\ \A s \in Sinks : accepted'[s] = << >>
      /\ base' = [p \in Paths |-> Len(file'[p])]
      /\ rec' = Idle /\ UNCHANGED calls
  BY OpenAppends DEF FInv, IInv
<1>2. calls \in Nat /\ file' \in [Paths -> Seq(Cells)]
  BY MaxCallsAssumption DEF FInv, IInv, TypeInv, TypeOK
<1>3. Counted'
  BY <1>1, <1>2 DEF Counted
<1>4. ASSUME NEW p \in Paths
      PROVE  LET hi == Len(file'[p]) - Partial(p)'
             IN  base'[p] <= hi /\ FramedTo(file'[p], base'[p], hi, Accepted')
  <2>1. Len(file'[p]) \in Nat
    <3>1. file'[p] \in Seq(Cells)
      BY <1>2
    <3> QED
      BY <3>1, LenProperties
  <2>2. Partial(p)' = 0
    BY <1>1 DEF Partial, Idle
  <2>3. base'[p] = Len(file'[p]) /\ Len(file'[p]) - Partial(p)' = Len(file'[p])
    BY <1>1, <2>1, <2>2
  <2>4. (base'[p] + 1)..Len(file'[p]) = {}
    BY <2>1, <2>3
  <2> QED
    BY <2>1, <2>3, <2>4 DEF FramedTo
<1> QED
  BY <1>3, <1>4 DEF Framing

\* What Framing says of file p, with the types the lemmas need.
FramedFile(p, hi) ==
  /\ hi \in Nat /\ base[p] \in Nat /\ base[p] <= hi /\ hi <= Len(file[p])
  /\ hi = Len(file[p]) - Partial(p)
  /\ FramedTo(file[p], base[p], hi, Accepted)

LEMMA FramingUse ==
  ASSUME FInv, live, proc # "killed", \A s \in Sinks : stream[s].st = "good",
         NEW p \in Paths
  PROVE  \E hi \in Nat : FramedFile(p, hi)
<1> DEFINE hi == Len(file[p]) - Partial(p)
<1>1. base[p] <= hi /\ FramedTo(file[p], base[p], hi, Accepted)
  BY DEF FInv, Framing
<1>2. file[p] \in Seq(Cells) /\ base[p] \in Nat
  BY DEF FInv, IInv, TypeInv, TypeOK
<1>3. Partial(p) \in Nat
  <2>1. CASE rec.at = "write"
    <3>1. rec.sink \in Sinks /\ rec.done \in Nat
      BY <2>1, Writing DEF FInv, IInv, TypeInv
    <3>2. stream[rec.sink] \in Streams
      BY <3>1 DEF FInv, IInv, TypeInv, TypeOK
    <3>3. Len(stream[rec.sink].buf) \in Nat
      BY <3>2, LenProperties DEF Streams
    <3>4. Len(stream[rec.sink].buf) <= rec.done
      BY <2>1, <3>1 DEF FInv, IInv, InProgress, Holds
    <3> QED
      BY <3>1, <3>3, <3>4 DEF Partial
  <2>2. CASE rec.at # "write"
    BY <2>2 DEF Partial
  <2> QED
    BY <2>1, <2>2
<1>4. Len(file[p]) \in Nat
  BY <1>2, LenProperties
<1>5. hi \in Nat /\ hi <= Len(file[p])
  BY <1>1, <1>2, <1>3, <1>4
<1> QED
  BY <1>1, <1>2, <1>5 DEF FramedFile

LEMMA CallFramed ==
  ASSUME FInv, IInv', NEW c \in Levels, NEW s \in Sinks,
         NEW then \in {"running", "EXIT_FAILURE", "exitcode"}, Call(c, s, then)
  PROVE  Framing' /\ Counted'
<1> USE DEF IInv, TypeInv, TypeOK
<1>1. PICK n \in Sizes :
        LET m == [id |-> calls + 1, size |-> n]
        IN  /\ rec' = [at |-> "write", sink |-> s, msg |-> m, done |-> 0,
                       then |-> then]
            /\ accepted' = [accepted EXCEPT ![s] = Append(@, m)]
  BY DEF Call
<1> DEFINE m == [id |-> calls + 1, size |-> n]
<1>2. /\ live /\ proc = "running" /\ rec = Idle
      /\ calls' = calls + 1
      /\ UNCHANGED <<proc, live, stream, file, base>>
  BY DEF Call, object, Ready
<1>3. /\ accepted \in [Sinks -> Seq(Msgs)] /\ calls \in Nat /\ m \in Msgs
      /\ accepted' \in [Sinks -> Seq(Msgs)] /\ calls' <= MaxCalls
  <2>1. calls \in Nat /\ calls' <= MaxCalls
    BY MaxCallsAssumption DEF FInv
  <2>2. m \in Msgs
    BY <2>1 DEF Msgs
  <2> QED
    BY <2>1, <2>2 DEF FInv
<1>4. rec'.at = "write" /\ rec'.sink = s /\ rec'.done = 0
  BY <1>1
<1>5. accepted' = [accepted EXCEPT ![s] = Append(@, m)]
  BY <1>1
<1> HIDE DEF m
<1>6. ASSUME NEW t \in Sinks
      PROVE  /\ Len(accepted[t]) \in Nat
             /\ Len(accepted'[t]) \in {Len(accepted[t]), Len(accepted[t]) + 1}
             /\ \A i \in 1..Len(accepted[t]) : accepted'[t][i] = accepted[t][i]
  <2>1. accepted[t] \in Seq(Msgs)
    BY <1>3
  <2>2. /\ Len(accepted[t]) \in Nat
        /\ Len(Append(accepted[t], m)) = Len(accepted[t]) + 1
        /\ \A i \in 1..Len(accepted[t]) : Append(accepted[t], m)[i] = accepted[t][i]
    BY <1>3, <2>1, AppendProperties, LenProperties
  <2>3. accepted'[t] = accepted[t] \/ accepted'[t] = Append(accepted[t], m)
    BY <1>3, <1>5
  <2> QED
    BY <2>2, <2>3
<1>7. Counted'
  <2>1. \A t \in Sinks : Len(accepted[t]) <= calls
    BY DEF FInv, Counted
  <2> QED
    BY <1>2, <1>3, <1>6, <2>1 DEF Counted
<1>8. Accepted \subseteq Accepted'
  <2> SUFFICES ASSUME NEW x \in Sinks \X (1..MaxCalls), x[2] <= Len(accepted[x[1]])
               PROVE  accepted[x[1]][x[2]] \in Accepted'
    BY DEF Accepted
  <2>1. x[1] \in Sinks /\ x[2] \in 1..Len(accepted[x[1]])
    BY <1>6, MaxCallsAssumption
  <2>2. /\ x[2] \in 1..Len(accepted'[x[1]])
        /\ accepted'[x[1]][x[2]] = accepted[x[1]][x[2]]
    BY <1>6, <2>1
  <2>3. accepted'[x[1]][x[2]] \in Accepted'
    <3>1. accepted'[x[1]] \in Seq(Msgs) /\ Len(accepted'[x[1]]) <= MaxCalls
      <4>1. accepted'[x[1]] \in Seq(Msgs)
        BY <1>3, <2>1
      <4>2. Len(accepted'[x[1]]) <= calls' /\ Len(accepted'[x[1]]) \in Nat
        BY <1>7, <2>1, <4>1, LenProperties DEF Counted
      <4> QED
        BY <1>2, <1>3, <4>1, <4>2, MaxCallsAssumption
    <3>2. accepted'[x[1]][x[2]] \in Among(accepted')
      BY <2>1, <2>2, <3>1, InAmong
    <3> QED
      BY <3>2 DEF Accepted, Among
  <2> QED
    BY <2>2, <2>3
<1>9. Framing'
  <2> SUFFICES ASSUME \A t \in Sinks : stream[t].st = "good", NEW p \in Paths
               PROVE  LET hi == Len(file[p]) - Partial(p)'
                      IN  base[p] <= hi /\ FramedTo(file[p], base[p], hi, Accepted')
    BY <1>2 DEF Framing
  <2>1. PICK hi \in Nat : FramedFile(p, hi)
    BY <1>2, FramingUse
  <2>2. Partial(p) = 0 /\ Partial(p)' = 0
    <3>1. stream[s].buf = << >> /\ Len(<< >>) = 0 /\ 0 - 0 = 0
      BY <1>2 DEF FInv, Quiet, Busy, Idle
    <3> QED
      BY <1>2, <1>4, <3>1 DEF Partial, Idle
  <2>3. FramedTo(file[p], base[p], hi, Accepted')
    BY <1>8, <2>1, FramedSame DEF FramedFile
  <2> QED
    BY <2>1, <2>2, <2>3 DEF FramedFile
<1> QED
  BY <1>7, <1>9

\* Where the record in progress begins does not move while it is written.
LEMMA WriteStart ==
  ASSUME IInv, put \/ flush,
         stream[rec.sink].st = "good", stream'[rec.sink].st = "good"
  PROVE  LET p == stream[rec.sink].path
         IN  Len(file'[p]) - (rec'.done - Len(stream'[rec.sink].buf))
               = Len(file[p]) - (rec.done - Len(stream[rec.sink].buf))
<1> DEFINE s == rec.sink
           st == stream[s]
           b == st.buf
           p == st.path
           cell == <<rec.msg.id, rec.done + 1>>
<1>1. rec.at = "write" /\ TypeInv /\ TypeOK
  BY DEF put, flush, IInv, TypeInv
<1>2. /\ s \in Sinks /\ rec.done \in Nat /\ rec \in InCall /\ live
      /\ stream \in [Sinks -> Streams] /\ file \in [Paths -> Seq(Cells)]
  BY <1>1, Writing DEF TypeOK
<1>3. /\ st \in Streams /\ p \in Paths /\ b \in Seq(Cells) /\ Len(b) \in Nat
      /\ Len(b) \in 0..Len(b)
  BY <1>2 DEF Streams
<1>4. file[p] \in Seq(Cells) /\ Len(file[p]) \in Nat
  BY <1>2, <1>3, LenProperties
<1>5. st.pos <= Len(file[p]) /\ (st.app \/ st.pos = Len(file[p]))
  BY <1>1, Progress DEF IInv
\* A flush that leaves the stream good writes the whole buffer.
<1>6. ASSUME Wrote(file, st, SubSeq(b, 1, Len(b))) = file'
      PROVE  Len(file'[p]) = Len(file[p]) + Len(b)
  <2>1. SubSeq(b, 1, Len(b)) = b
    BY <1>3
  <2> HIDE DEF st, b
  <2>2. file'[p] = WriteAt(file[p], st, b)
    BY <1>2, <1>3, <1>6, <2>1 DEF Wrote
  <2>3. WriteAt(file[p], st, b) = file[p] \o b
    BY <1>3, <1>4, <1>5, WriteAtEnd
  <2> QED
    BY <1>3, <1>4, <2>2, <2>3
<1>7. CASE put
  <2>1. CASE /\ stream' = [stream EXCEPT ![s].buf = Append(@, cell)]
             /\ rec' = [rec EXCEPT !.done = @ + 1]
             /\ UNCHANGED file
    <3>1. stream'[s].buf = Append(b, cell) /\ rec'.done = rec.done + 1
      BY <1>2, <1>3, <2>1 DEF InCall, Streams
    <3>2. Len(Append(b, cell)) = Len(b) + 1
      BY <1>3
    <3> HIDE DEF b, p, cell
    <3>3. (rec.done + 1) - (Len(b) + 1) = rec.done - Len(b)
      <4>1. rec.done \in Nat /\ Len(b) \in Nat
        BY <1>2, <1>3
      <4> QED
        BY <4>1
    <3>4. rec'.done - Len(stream'[s].buf) = rec.done - Len(b)
      BY <3>1, <3>2, <3>3
    <3> QED
      BY <2>1, <3>4 DEF b, p
  <2>2. CASE /\ LET n == Len(b)
                    t == AfterWrite(st, b, n)
                IN  Sends(s, n, [t EXCEPT !.buf = <<cell>>])
             /\ rec' = [rec EXCEPT !.done = @ + 1]
    <3> DEFINE t == AfterWrite(st, b, Len(b))
    <3>1. t \in Streams
      BY <1>3, AfterWriteType
    <3>2. [t EXCEPT !.buf = <<cell>>].buf = <<cell>>
      BY <3>1 DEF Streams
    <3> HIDE DEF t, cell
    <3>3. stream'[s].buf = <<cell>> /\ Len(<<cell>>) = 1
      BY <1>2, <2>2, <3>2 DEF Sends, t
    <3>4. rec'.done = rec.done + 1
      BY <1>2, <2>2 DEF InCall
    <3>5. Len(file'[p]) = Len(file[p]) + Len(b)
      BY <1>6, <2>2 DEF Sends
    <3> HIDE DEF b, p
    <3>6. (Len(file[p]) + Len(b)) - ((rec.done + 1) - 1) = Len(file[p]) - (rec.done - Len(b))
      BY <1>2, <1>3, <1>4
    <3>7. Len(file'[p]) - (rec'.done - Len(stream'[s].buf)) = Len(file[p]) - (rec.done - Len(b))
      BY <3>3, <3>4, <3>5, <3>6
    <3> QED
      BY <3>7 DEF b, p
  <2>3. ASSUME NEW k \in 0..Len(b), k # Len(b), Sends(s, k, AfterWrite(st, b, k))
        PROVE  FALSE
    <3>1. AfterWrite(st, b, k).st = "bad"
      BY <1>3, <2>3, AfterWriteType
    <3>2. stream'[s] = AfterWrite(st, b, k)
      BY <1>2, <2>3 DEF Sends
    <3> QED
      BY <3>1, <3>2
  <2> QED
    BY <1>1, <1>7, <2>1, <2>2, <2>3, PutSteps
<1>8. CASE flush
  <2>1. PICK k \in 0..Len(b) : Sends(s, k, AfterWrite(st, b, k))
    BY <1>1, <1>8, FlushSteps
  <2>2. stream'[s] = AfterWrite(st, b, k)
    BY <1>2, <2>1 DEF Sends
  <2>3. k = Len(b) /\ stream'[s].buf = << >>
    <3>1. /\ AfterWrite(st, b, k).st = IF k = Len(b) THEN st.st ELSE "bad"
          /\ AfterWrite(st, b, k).buf = IF k = Len(b) THEN << >> ELSE b
      BY <1>3, AfterWriteType
    <3> HIDE DEF b, st
    <3> QED
      BY <2>2, <3>1
  <2>4. rec'.done = rec.done
    BY <1>2, <1>8 DEF flush, InCall
  <2>5. Len(file'[p]) = Len(file[p]) + Len(b)
    BY <1>6, <2>1, <2>3 DEF Sends
  <2> HIDE DEF b, p
  <2>6. (Len(file[p]) + Len(b)) - (rec.done - 0) = Len(file[p]) - (rec.done - Len(b))
    BY <1>2, <1>3, <1>4
  <2>7. Len(<< >>) = 0
    OBVIOUS
  <2>8. Len(file'[p]) - (rec'.done - Len(stream'[s].buf)) = Len(file[p]) - (rec.done - Len(b))
    BY <2>3, <2>4, <2>5, <2>6, <2>7
  <2> QED
    BY <2>8 DEF b, p
<1> QED
  BY <1>7, <1>8

\* A record is stored by the flush, after its last piece.
LEMMA StoresFlushes ==
  ASSUME IInv, put \/ flush, Stores(rec.sink, rec.msg)
  PROVE  rec'.done = rec.msg.size
<1>1. TypeOK /\ rec.at = "write"
  BY DEF IInv, TypeInv, put, flush
<1>2. /\ rec \in InCall /\ rec.sink \in Sinks
      /\ stream[rec.sink] \in Streams /\ stream \in [Sinks -> Streams]
  BY <1>1, Writing DEF TypeOK
<1>3. CASE flush
  BY <1>2, <1>3 DEF flush, InCall
<1>4. CASE put
  <2>1. CASE rec' = [rec EXCEPT !.done = @ + 1]
    BY <1>1, <1>2, <2>1 DEF Stores, InCall
  <2>2. ASSUME NEW k \in 0..Len(stream[rec.sink].buf), k # Len(stream[rec.sink].buf),
               Sends(rec.sink, k, AfterWrite(stream[rec.sink], stream[rec.sink].buf, k))
        PROVE  FALSE
    <3>1. stream[rec.sink].buf \in Seq(Cells)
      BY <1>2 DEF Streams
    <3>2. AfterWrite(stream[rec.sink], stream[rec.sink].buf, k).st = "bad"
      BY <1>2, <2>2, <3>1, AfterWriteType
    <3>3. stream'[rec.sink] = AfterWrite(stream[rec.sink], stream[rec.sink].buf, k)
      BY <1>2, <2>2 DEF Sends
    <3> QED
      BY <3>2, <3>3 DEF Stores
  <2>3. stream[rec.sink].st = "good"
    BY DEF Stores
  <2> QED
    BY <1>1, <1>4, <2>1, <2>2, <2>3, PutSteps
<1> QED
  BY <1>3, <1>4

LEMMA RecAccepted ==
  ASSUME FInv, rec # Idle
  PROVE  rec.msg \in Accepted
<1>1. rec.sink \in Sinks /\ accepted \in [Sinks -> Seq(Msgs)] /\ calls <= MaxCalls
      /\ calls \in Nat
  BY MaxCallsAssumption DEF FInv, IInv, TypeInv, TypeOK, InCall
<1> DEFINE a == accepted[rec.sink]
<1>2. a \in Seq(Msgs) /\ Len(a) \in Nat
  BY <1>1, LenProperties
<1>3. Len(a) > 0 /\ a[Len(a)] = rec.msg /\ Len(a) <= calls
  BY <1>1 DEF FInv, IInv, InProgress, Counted
<1>4. Len(a) <= MaxCalls /\ Len(a) \in 1..Len(a)
  BY <1>1, <1>2, <1>3, MaxCallsAssumption
<1>5. a[Len(a)] \in Among(accepted)
  BY <1>1, <1>2, <1>4, InAmong
<1> QED
  BY <1>3, <1>5 DEF Accepted, Among

\* A record in progress stays outside the framed part, and is added to it as a
\* whole.
LEMMA WriteFramed ==
  ASSUME FInv, IInv', put \/ flush
  PROVE  Framing' /\ Counted'
<1> DEFINE s == rec.sink
           m == rec.msg
           q == stream[s].path
<1>1. /\ rec.at = "write" /\ s \in Sinks /\ m \in Msgs /\ live /\ proc = "running"
      /\ rec # Idle /\ rec'.sink = s /\ rec'.msg = m
      /\ UNCHANGED <<proc, live, calls, accepted, base>>
      /\ Effect(s, m)
  BY WriteEffect DEF FInv, object
<1>2. Counted'
  BY <1>1 DEF FInv, Counted
<1> SUFFICES ASSUME \A t \in Sinks : stream'[t].st = "good", NEW p \in Paths
             PROVE  LET hi == Len(file'[p]) - Partial(p)'
                    IN  base[p] <= hi /\ FramedTo(file'[p], base[p], hi, Accepted)
  BY <1>1, <1>2 DEF Framing, Accepted
<1>3. /\ stream[s].st = "good" /\ stream'[s].path = q
      /\ Takes(s, m) \/ Stores(s, m)
  <2>1. /\ stream'[s].path = q
        /\ GivesUp(s) \/ Takes(s, m) \/ Fails(s, m) \/ Stores(s, m)
    BY <1>1 DEF Effect
  <2>2. Takes(s, m) \/ Stores(s, m)
    BY <1>1, <2>1 DEF GivesUp, Fails
  <2> QED
    BY <2>1, <2>2 DEF Takes, Stores
<1>4. \A t \in Sinks : stream[t].st = "good"
  BY <1>1, <1>3 DEF Effect
<1>5. PICK hi \in Nat : FramedFile(p, hi)
  BY <1>1, <1>4, FramingUse
<1>6. /\ file \in [Paths -> Seq(Cells)] /\ file' \in [Paths -> Seq(Cells)]
      /\ m.size \in Nat
  BY <1>1, BytesType DEF FInv, IInv, TypeInv, TypeOK
<1>7. CASE p # q
  <2>1. file'[p] = file[p]
    BY <1>1, <1>7 DEF Effect
  <2>2. Partial(p) = 0 /\ Partial(p)' = 0
    BY <1>1, <1>3, <1>7 DEF Partial
  <2> QED
    BY <1>5, <2>1, <2>2 DEF FramedFile
<1>8. CASE p = q
  <2>1. /\ Len(file'[p]) - (rec'.done - Len(stream'[s].buf)) = hi
        /\ Partial(p) = rec.done - Len(stream[s].buf)
    <3>1. Partial(p) = rec.done - Len(stream[s].buf)
      BY <1>1, <1>8 DEF Partial
    <3> QED
      BY <1>3, <1>5, <1>8, <3>1, WriteStart DEF FInv, FramedFile, Takes, Stores
  <2>2. \A i \in 1..hi : file'[p][i] = file[p][i]
    <3>1. PICK C \in SUBSET Cells : GrowsBy(file, file', C)
      BY <1>1, PiecesType DEF Effect
    <3>2. /\ Len(file[p]) \in Nat
          /\ Len(file'[p]) \in Nat
          /\ Len(file[p]) <= Len(file'[p])
          /\ \A i \in 1..Len(file[p]) : file'[p][i] = file[p][i]
          /\ \A i \in 1..Len(file'[p]) : i > Len(file[p]) => file'[p][i] \in C
      BY <1>6, <3>1, GrownCell, Zenon
    <3> QED
      BY <1>5, <3>2 DEF FramedFile
  <2>3. FramedTo(file'[p], base[p], hi, Accepted)
    BY <1>5, <2>2, FramedSame DEF FramedFile
  <2>4. CASE Takes(s, m)
    <3>1. Partial(p)' = rec'.done - Len(stream'[s].buf)
      BY <1>1, <1>3, <1>8, <2>4 DEF Partial, Takes
    <3> QED
      BY <1>5, <2>1, <2>3, <3>1 DEF FramedFile
  <2>5. CASE Stores(s, m)
    <3>1. Partial(p)' = 0
      BY <2>5 DEF Partial, Stores
    <3>2. Len(file'[p]) \in Nat
      <4>1. file'[p] \in Seq(Cells)
        BY <1>6
      <4> QED
        BY <4>1, LenProperties
    <3>3. Len(file'[p]) = hi + m.size
      <4>1. rec'.done = m.size
        BY <1>1, <2>5, StoresFlushes DEF FInv
      <4>2. Len(stream'[s].buf) = 0
        BY <2>5 DEF Stores
      <4> QED
        BY <1>5, <1>6, <2>1, <3>2, <4>1, <4>2
    <3>4. \A i \in 1..m.size : file'[p][hi + i] = <<m.id, i>>
      <4>1. EndsWith(file'[p], m, m.size)
        BY <1>8, <2>5 DEF Stores
      <4>2. Len(file'[p]) - m.size = hi
        BY <1>5, <1>6, <3>3
      <4> QED
        BY <4>1, <4>2 DEF EndsWith
    <3>5. m \in Accepted
      BY <1>1, RecAccepted
    <3>6. FramedTo(file'[p], base[p], hi + m.size, Accepted)
      BY <1>5, <1>6, <2>3, <3>4, <3>5, FramedRecord DEF FramedFile
    <3> QED
      BY <1>5, <1>6, <3>1, <3>2, <3>3, <3>6 DEF FramedFile
  <2> QED
    BY <1>3, <2>4, <2>5
<1> QED
  BY <1>7, <1>8

LEMMA DestroyFramed ==
  ASSUME FInv, Destroy
  PROVE  Framing' /\ Counted'
BY DEF FInv, Framing, Counted, Destroy, NoObject

LEMMA OthersFramed ==
  ASSUME FInv, Others
  PROVE  Framing' /\ Counted'
<1>1. UNCHANGED <<stream, file, calls, accepted>>
  BY OthersRecord
<1>2. Counted'
  BY <1>1 DEF FInv, Counted
<1>3. Accepted' = Accepted
  BY <1>1 DEF Accepted
<1> SUFFICES ASSUME live', proc' # "killed", \A t \in Sinks : stream[t].st = "good",
                    NEW p \in Paths
             PROVE  LET hi == Len(file[p]) - Partial(p)'
                    IN  base'[p] <= hi /\ FramedTo(file[p], base'[p], hi, Accepted)
  BY <1>1, <1>2, <1>3, Zenon DEF Framing
<1>4. live /\ proc # "killed" /\ base' = base /\ Partial(p)' = Partial(p)
  <2>1. CASE \/ \E l \in LevelChoices : level(l)
             \/ close \/ LoseStd \/ UNCHANGED vars
    BY <1>1, <2>1 DEF level, close, LoseStd, vars, Partial
  <2>2. CASE set_err
    <3>1. rec # Idle
      BY <2>2 DEF set_err, Idle
    <3>2. proc = "running"
      BY <3>1 DEF FInv, IInv, TypeInv, TypeOK
    <3>3. Partial(p) = 0 /\ Partial(p)' = 0
      BY <2>2 DEF set_err, Partial, Idle
    <3> QED
      BY <2>2, <3>2, <3>3 DEF set_err, object
  <2>3. CASE Return
    BY <1>1, <2>3 DEF Return, object, Partial
  <2> QED
    BY <2>1, <2>2, <2>3 DEF Others, Kill, Restart, NoObject
<1> QED
  BY <1>4 DEF FInv, Framing

LEMMA FInvInit == Init => FInv
<1> SUFFICES ASSUME Init PROVE FInv
  OBVIOUS
<1>1. IInv /\ Framing
  BY IInvInit DEF Init, Framing
<1>2. Counted
  BY DEF Init, Counted
<1> QED
  BY <1>1, <1>2 DEF FInv

LEMMA FInvInductive ==
  ASSUME NoClobber
  PROVE  FInv /\ [Next]_vars => FInv'
<1> SUFFICES ASSUME FInv, [Next]_vars PROVE FInv'
  OBVIOUS
<1>1. IInv'
  BY IInvInductive DEF FInv
<1> SUFFICES Framing' /\ Counted'
  BY <1>1 DEF FInv
<1>2. CASE open_binlogfile
  BY <1>1, <1>2, OpenFramed
<1>3. ASSUME NEW c \in Levels, NEW s \in Sinks,
             NEW then \in {"running", "EXIT_FAILURE", "exitcode"}, Call(c, s, then)
      PROVE  Framing' /\ Counted'
  BY <1>1, <1>3, CallFramed
<1>4. CASE put \/ flush
  BY <1>1, <1>4, WriteFramed
<1>5. CASE Destroy
  BY <1>5, DestroyFramed
<1>6. CASE Others
  BY <1>6, OthersFramed
<1> QED
  BY <1>2, <1>3, <1>4, <1>5, <1>6, Steps

\* While good() says true between two calls, a reader that begins where the
\* object began finds whole records only.
THEOREM Framed ==
  ASSUME NoClobber
  PROVE  Spec => []HealthyIsFramed
<1>1. FInv /\ [Next]_vars => FInv'
  BY FInvInductive
<1>2. FInv => HealthyIsFramed
  <2> SUFFICES ASSUME FInv, Ready, good, NEW p \in Paths
               PROVE  WholeRecords(Part(p), Accepted)
    BY DEF HealthyIsFramed
  <2>1. live /\ proc # "killed" /\ rec = Idle /\ \A s \in Sinks : stream[s].st = "good"
    BY DEF FInv, IInv, Healthy, Ready
  <2>2. PICK hi \in Nat : FramedFile(p, hi)
    BY <2>1, FramingUse
  <2>3. Partial(p) = 0 /\ file[p] \in Seq(Cells)
    BY <2>1 DEF Partial, Idle, FInv, IInv, TypeInv, TypeOK
  <2>4. Len(file[p]) \in Nat
    BY <2>3, LenProperties
  <2>5. base[p] \in 0..Len(file[p]) /\ FramedTo(file[p], base[p], Len(file[p]), Accepted)
    BY <2>2, <2>3, <2>4 DEF FramedFile
  <2> QED
    BY <2>3, <2>5, FramedPart DEF Part
<1> QED
  BY FInvInit, <1>1, <1>2, PTL DEF Spec

=============================================================================
