--------------------------- MODULE LogStreamLemmas --------------------------
(***************************************************************************)
(* Facts about the operators of LogStream that the proofs about the loggers*)
(* rest on.                                                                *)
(***************************************************************************)
EXTENDS LogStream, SequenceTheorems, TLAPS

\* A record has as many cells as its message says.
LEMMA BytesType ==
  ASSUME NEW m \in Msgs
  PROVE  /\ Bytes(m) \in Seq(Cells)
         /\ Len(Bytes(m)) = m.size
         /\ m.size \in Nat \ {0}
<1>1. m.id \in Nat /\ m.size \in Nat \ {0}
  BY SizesAssumption DEF Msgs
<1>2. \A i \in 1..m.size : <<m.id, i>> \in Cells
  BY <1>1 DEF Cells
<1>3. [i \in 1..m.size |-> <<m.id, i>>] \in Seq(Cells)
  BY <1>1, <1>2, IsASeq
<1>4. Len([i \in 1..m.size |-> <<m.id, i>>]) = m.size
  BY <1>1
<1> QED
  BY <1>1, <1>3, <1>4 DEF Bytes

\* What a short write gets to the disk is a prefix of the cells.
LEMMA PrefixType ==
  ASSUME NEW c \in Seq(Cells), NEW k \in 0..Len(c)
  PROVE  /\ SubSeq(c, 1, k) \in Seq(Cells)
         /\ Len(SubSeq(c, 1, k)) = k
  OBVIOUS

\* A write that starts inside the file or at its end leaves a longer or
\* equally long file, at least up to the stream's new offset.
LEMMA WriteAtType ==
  ASSUME NEW f \in Seq(Cells), NEW s \in Streams, NEW c \in Seq(Cells),
         s.pos <= Len(f)
  PROVE  /\ WriteAt(f, s, c) \in Seq(Cells)
         /\ Len(WriteAt(f, s, c)) >= Len(f)
         /\ ~s.app => Len(WriteAt(f, s, c)) >= s.pos + Len(c)
<1>1. CASE s.app
  BY <1>1 DEF WriteAt, Streams
<1>2. CASE ~s.app
  <2>1. s.pos \in Nat
    BY DEF Streams
  <2> DEFINE g == SubSeq(f, 1, s.pos)
             h == SubSeq(f, s.pos + Len(c) + 1, Len(f))
  <2>2. g \in Seq(Cells) /\ Len(g) = s.pos
    BY <2>1
  <2>3. h \in Seq(Cells) /\ Len(h) \in Nat
        /\ s.pos + Len(c) + Len(h) >= Len(f)
    BY <2>1
  <2>4. g \o c \in Seq(Cells) /\ Len(g \o c) = s.pos + Len(c)
    BY <2>1, <2>2
  <2>5. (g \o c) \o h \in Seq(Cells) /\ Len((g \o c) \o h) = s.pos + Len(c) + Len(h)
    BY <2>1, <2>3, <2>4, SMTT(30)
  <2>6. WriteAt(f, s, c) = (g \o c) \o h
    BY <1>2 DEF WriteAt
  <2> QED
    BY <1>2, <2>1, <2>3, <2>5, <2>6
<1> QED
  BY <1>1, <1>2

\* A write at the end of the file, through an app stream or not, is an append.
LEMMA WriteAtEnd ==
  ASSUME NEW f \in Seq(Cells), NEW s \in Streams, NEW c \in Seq(Cells),
         s.app \/ s.pos = Len(f)
  PROVE  WriteAt(f, s, c) = f \o c
<1>1. CASE s.app
  BY <1>1 DEF WriteAt
<1>2. CASE ~s.app
  <2>1. s.pos = Len(f)
    BY <1>2
  <2>2. SubSeq(f, 1, Len(f)) = f
    OBVIOUS
  <2>3. SubSeq(f, Len(f) + Len(c) + 1, Len(f)) = << >>
    OBVIOUS
  <2>4. (f \o c) \o << >> = f \o c
    OBVIOUS
  <2> QED
    BY <1>2, <2>1, <2>2, <2>3, <2>4 DEF WriteAt
<1> QED
  BY <1>1, <1>2

LEMMA SeqOfElements ==
  ASSUME NEW S, NEW T, NEW c \in Seq(S), \A i \in 1..Len(c) : c[i] \in T
  PROVE  c \in Seq(T)
<1>1. Len(c) \in Nat /\ c \in [1..Len(c) -> S]
  BY LenProperties
<1>2. c \in [1..Len(c) -> T]
  BY <1>1
<1>3. Seq(T) = UNION {[1..n -> T] : n \in Nat}
  BY SeqDef
<1> QED
  BY <1>1, <1>2, <1>3

\* Writing nothing changes nothing.
LEMMA WriteNothing ==
  ASSUME NEW f \in Seq(Cells), NEW s \in Streams, s.pos <= Len(f)
  PROVE  WriteAt(f, s, << >>) = f \o << >>
<1>1. s.pos \in 0..Len(f) /\ Len(f) \in Nat
  BY DEF Streams
<1>2. SubSeq(f, 1, s.pos) \o SubSeq(f, s.pos + 1, Len(f)) = f
  <2>1. /\ 1 \in 1..(Len(f) + 1)
        /\ s.pos \in (1 - 1)..Len(f)
        /\ Len(f) \in s.pos..Len(f)
    BY <1>1
  <2>2. SubSeq(f, 1, s.pos) \o SubSeq(f, s.pos + 1, Len(f)) = SubSeq(f, 1, Len(f))
    BY <2>1, ConcatAdjacentSubSeq
  <2>3. SubSeq(f, 1, Len(f)) = f
    OBVIOUS
  <2> QED
    BY <2>2, <2>3
<1>3. SubSeq(f, 1, s.pos) \o << >> = SubSeq(f, 1, s.pos)
  BY <1>1
<1>4. f \o << >> = f /\ Len(<< >>) = 0 /\ s.pos + 0 + 1 = s.pos + 1
  BY <1>1
<1> QED
  BY <1>2, <1>3, <1>4 DEF WriteAt

LEMMA AppendNothing ==
  ASSUME NEW f \in Seq(Cells)
  PROVE  f \o << >> = f
  OBVIOUS

\* Two appends are one.
LEMMA AppendTwice ==
  ASSUME NEW f \in Seq(Cells), NEW c \in Seq(Cells), NEW d \in Seq(Cells)
  PROVE  (f \o c) \o d = f \o (c \o d) /\ c \o d \in Seq(Cells)
  BY ConcatAssociative

\* A file that was appended to extends the file.
LEMMA ConcatExtends ==
  ASSUME NEW f \in Seq(Cells), NEW c \in Seq(Cells)
  PROVE  /\ Len(f) <= Len(f \o c)
         /\ SubSeq(f \o c, 1, Len(f)) = f
<1>1. Len(f \o c) = Len(f) + Len(c) /\ Len(f) \in Nat /\ Len(c) \in Nat
  OBVIOUS
<1>2. SubSeq(f \o c, 1, Len(f)) = f
  BY ConcatSimplifications, SubSeqOfConcat1, SubSeqFull
<1> QED
  BY <1>1, <1>2

\* Opening yields a stream, whatever the flags and the outcome.
LEMMA OpenedType ==
  ASSUME NEW p \in Paths, NEW flags, NEW ok \in BOOLEAN
  PROVE  /\ Opened(p, flags, ok) \in Streams
         /\ Opened(p, flags, ok).path = p
         /\ Opened(p, flags, ok).app = ("app" \in flags)
         /\ Opened(p, flags, ok).pos = 0
         /\ Opened(p, flags, ok).st = IF ok THEN "good" ELSE "fail"
         /\ Opened(p, flags, ok).buf = << >>
<1>1. << >> \in Seq(Cells)
  OBVIOUS
<1> QED
  BY <1>1 DEF Opened, Streams

\* Opening leaves a file as it was or empties it.
LEMMA FileOpenedType ==
  ASSUME NEW f \in Seq(Cells), NEW flags, NEW ok \in BOOLEAN
  PROVE  FileOpened(f, flags, ok) \in Seq(Cells)
  BY DEF FileOpened

\* A write keeps the stream on its file and moves its offset by what was
\* written; the stream stays in its state exactly when everything was.
LEMMA AfterWriteType ==
  ASSUME NEW s \in Streams, NEW c \in Seq(Cells), NEW k \in 0..Len(c)
  PROVE  /\ AfterWrite(s, c, k) \in Streams
         /\ AfterWrite(s, c, k).path = s.path
         /\ AfterWrite(s, c, k).app = s.app
         /\ AfterWrite(s, c, k).pos = IF s.app THEN 0 ELSE s.pos + k
         /\ AfterWrite(s, c, k).st = IF k = Len(c) THEN s.st ELSE "bad"
         /\ AfterWrite(s, c, k).buf = IF k = Len(c) THEN << >> ELSE c
<1>1. << >> \in Seq(Cells) /\ Len(c) \in Nat
  OBVIOUS
<1>2. s.pos \in Nat /\ k \in Nat
  BY <1>1 DEF Streams
<1> QED
  BY <1>1, <1>2 DEF AfterWrite, Streams

\* A record stays readable when a file grows at its end.
LEMMA ReadableAppend ==
  ASSUME NEW f \in Seq(Cells), NEW c \in Seq(Cells), NEW m \in Msgs,
         Readable(f, m)
  PROVE  Readable(f \o c, m)
<1>1. PICK p \in 0..(Len(f) - m.size) : \A i \in 1..m.size : f[p + i] = <<m.id, i>>
  BY DEF Readable
<1>2. m.size \in Nat
  BY BytesType
<1>3. p \in 0..(Len(f \o c) - m.size)
  BY <1>2
<1>4. ASSUME NEW i \in 1..m.size PROVE (f \o c)[p + i] = <<m.id, i>>
  BY <1>1, <1>2
<1> QED
  BY <1>3, <1>4 DEF Readable

\* The record that was just appended is readable.
LEMMA ReadableNew ==
  ASSUME NEW f \in Seq(Cells), NEW m \in Msgs
  PROVE  Readable(f \o Bytes(m), m)
<1>1. /\ Bytes(m) \in Seq(Cells)
      /\ Len(Bytes(m)) = m.size
      /\ m.size \in Nat
  BY BytesType
<1>2. Len(f) \in 0..(Len(f \o Bytes(m)) - m.size)
  BY <1>1
<1>3. ASSUME NEW i \in 1..m.size
      PROVE  (f \o Bytes(m))[Len(f) + i] = <<m.id, i>>
  <2>1. (f \o Bytes(m))[Len(f) + i] = Bytes(m)[i]
    BY <1>1
  <2> QED
    BY <2>1 DEF Bytes
<1> QED
  BY <1>2, <1>3 DEF Readable

-----------------------------------------------------------------------------
(* What a step does to all files at once *)

\* Between f and g every file keeps what it has and may get cells of C at its
\* end.
GrowsBy(f, g, C) == \A p \in Paths : \E c \in Seq(C) : g[p] = f[p] \o c

\* The files f after stream s wrote cells c.
Wrote(f, s, c) == [f EXCEPT ![s.path] = WriteAt(@, s, c)]

\* Some piece of message n is in file content f.
Mentions(f, n) == \E i \in 1..Len(f) : f[i][1] = n

\* What stream s writes next goes to the end of its file f, or nowhere.
AtEndOf(f, s) ==
  \/ s.app
  \/ s.st = "fail" /\ s.buf = << >>
  \/ s.pos = Len(f)

LEMMA GrowsNot ==
  ASSUME NEW f \in [Paths -> Seq(Cells)], NEW C
  PROVE  GrowsBy(f, f, C)
<1>1. ASSUME NEW p \in Paths PROVE f[p] = f[p] \o << >>
  <2>1. f[p] \in Seq(Cells)
    OBVIOUS
  <2> QED
    BY <2>1, AppendNothing
<1>2. << >> \in Seq(C)
  OBVIOUS
<1> QED
  BY <1>1, <1>2 DEF GrowsBy

LEMMA GrowsMore ==
  ASSUME NEW f, NEW g, NEW C, NEW D, C \subseteq D, GrowsBy(f, g, C)
  PROVE  GrowsBy(f, g, D)
<1>1. \A c \in Seq(C) : c \in Seq(D)
  BY SeqMonotonic
<1> QED
  BY <1>1 DEF GrowsBy

LEMMA GrowsTwice ==
  ASSUME NEW f \in [Paths -> Seq(Cells)], NEW g, NEW h,
         NEW C \in SUBSET Cells, GrowsBy(f, g, C), GrowsBy(g, h, C)
  PROVE  GrowsBy(f, h, C)
<1> SUFFICES ASSUME NEW p \in Paths
             PROVE  \E c \in Seq(C) : h[p] = f[p] \o c
  BY DEF GrowsBy
<1>1. PICK c \in Seq(C) : g[p] = f[p] \o c
  BY DEF GrowsBy
<1>2. PICK d \in Seq(C) : h[p] = g[p] \o d
  BY DEF GrowsBy
<1>3. f[p] \in Seq(Cells) /\ c \in Seq(Cells) /\ d \in Seq(Cells)
  BY SeqMonotonic
<1>4. h[p] = f[p] \o (c \o d)
  BY <1>1, <1>2, <1>3, AppendTwice
<1>5. c \o d \in Seq(C)
  OBVIOUS
<1> QED
  BY <1>4, <1>5

\* A write at the end of a file appends, and touches no other file; writing
\* nothing appends nothing, wherever the stream stands.
LEMMA WriteGrows ==
  ASSUME NEW f \in [Paths -> Seq(Cells)], NEW s \in Streams,
         NEW C \in SUBSET Cells, NEW c \in Seq(C),
         s.pos <= Len(f[s.path]),
         s.app \/ s.pos = Len(f[s.path]) \/ c = << >>
  PROVE  /\ Wrote(f, s, c) \in [Paths -> Seq(Cells)]
         /\ Wrote(f, s, c)[s.path] = f[s.path] \o c
         /\ \A p \in Paths : p # s.path => Wrote(f, s, c)[p] = f[p]
         /\ GrowsBy(f, Wrote(f, s, c), C)
<1> DEFINE g == Wrote(f, s, c)
<1>1. s.path \in Paths /\ f[s.path] \in Seq(Cells) /\ c \in Seq(Cells)
  BY SeqMonotonic DEF Streams
<1>2. WriteAt(f[s.path], s, c) = f[s.path] \o c
  <2>1. CASE s.app \/ s.pos = Len(f[s.path])
    BY <1>1, <2>1, WriteAtEnd
  <2>2. CASE c = << >>
    BY <1>1, <2>2, WriteNothing
  <2> QED
    BY <2>1, <2>2
<1>3. f[s.path] \o c \in Seq(Cells)
  BY <1>1
<1>4. g = [f EXCEPT ![s.path] = f[s.path] \o c]
  BY <1>2 DEF Wrote
<1> HIDE DEF g
<1>5. /\ g \in [Paths -> Seq(Cells)]
      /\ g[s.path] = f[s.path] \o c
      /\ \A p \in Paths : p # s.path => g[p] = f[p]
  BY <1>1, <1>3, <1>4
<1>6. ASSUME NEW p \in Paths PROVE \E d \in Seq(C) : g[p] = f[p] \o d
  <2>1. CASE p = s.path
    BY <1>5, <2>1
  <2>2. CASE p # s.path
    <3>1. << >> \in Seq(C) /\ f[p] \in Seq(Cells)
      OBVIOUS
    <3>2. f[p] \o << >> = f[p]
      BY <3>1, AppendNothing
    <3> QED
      BY <1>5, <2>2, <3>1, <3>2
  <2> QED
    BY <2>1, <2>2
<1>7. GrowsBy(f, g, C)
  BY <1>6 DEF GrowsBy
<1> QED
  BY <1>5, <1>7 DEF g

\* The two streams of a new object opened with the same flags, and the files
\* after that.
OpenedStreams(p, q, flags, okO, okE) ==
  [s \in Sinks |-> IF s = "outs" THEN Opened(p, flags, okO) ELSE Opened(q, flags, okE)]
OpenedFiles(f, p, q, flags, okO, okE) ==
  LET h == [f EXCEPT ![p] = FileOpened(@, flags, okO)]
  IN  [h EXCEPT ![q] = FileOpened(@, flags, okE)]

\* A stream with its own offset has its file to itself.
ApartIn(str) ==
  \/ \A t \in Sinks : str[t].app
  \/ str["outs"].path # str["errs"].path

\* Between f and g no file but those of S changes.
SameBut(f, g, S) == \A p \in Paths \ S : g[p] = f[p]

\* Both append and no file changes; or each has a file of its own, and an
\* opened one is empty.
LEMMA OpenedApart ==
  ASSUME NEW f \in [Paths -> Seq(Cells)], NEW p \in Paths, NEW q \in Paths,
         NEW flags, NEW okO \in BOOLEAN, NEW okE \in BOOLEAN,
         "app" \notin flags => p # q
  PROVE  LET str == OpenedStreams(p, q, flags, okO, okE)
             g == OpenedFiles(f, p, q, flags, okO, okE)
         IN  /\ ApartIn(str)
             /\ \A t \in Sinks : AtEndOf(g[str[t].path], str[t])
             /\ SameBut(f, g, IF "app" \in flags THEN {} ELSE {p, q})
<1> DEFINE str == OpenedStreams(p, q, flags, okO, okE)
           g == OpenedFiles(f, p, q, flags, okO, okE)
<1>1. /\ str["outs"] = Opened(p, flags, okO) /\ str["errs"] = Opened(q, flags, okE)
  BY DEF Sinks, OpenedStreams
<1>2. CASE "app" \in flags
  <2>1. str["outs"].app /\ str["errs"].app
    <3>1. /\ Opened(p, flags, okO).app = ("app" \in flags)
          /\ Opened(q, flags, okE).app = ("app" \in flags)
      BY OpenedType
    <3> HIDE DEF str
    <3> QED
      BY <1>1, <1>2, <3>1
  <2>2. g = f
    BY <1>2 DEF FileOpened, OpenedFiles
  <2> HIDE DEF str, g
  <2> QED
    BY <1>2, <2>1, <2>2 DEF ApartIn, AtEndOf, SameBut, Sinks, str, g
<1>3. CASE "app" \notin flags
  <2>1. p # q
    BY <1>3
  <2>2. /\ g[p] = FileOpened(f[p], flags, okO)
        /\ g[q] = FileOpened(f[q], flags, okE)
        /\ \A r \in Paths \ {p, q} : g[r] = f[r]
    BY <2>1 DEF OpenedFiles
  <2> HIDE DEF str, g
  <2>3. (okO => g[p] = << >>) /\ (okE => g[q] = << >>)
    BY <1>3, <2>2 DEF FileOpened
  <2>4. /\ str["outs"].path = p
        /\ str["outs"].pos = 0
        /\ str["outs"].buf = << >>
        /\ ~okO => str["outs"].st = "fail"
    BY <1>1, OpenedType
  <2>5. /\ str["errs"].path = q
        /\ str["errs"].pos = 0
        /\ str["errs"].buf = << >>
        /\ ~okE => str["errs"].st = "fail"
    BY <1>1, OpenedType
  <2>6. Len(<< >>) = 0
    OBVIOUS
  <2>7. /\ AtEndOf(g[str["outs"].path], str["outs"])
        /\ AtEndOf(g[str["errs"].path], str["errs"])
    BY <2>3, <2>4, <2>5, <2>6 DEF AtEndOf
  <2> QED
    BY <1>3, <2>1, <2>2, <2>4, <2>5, <2>7 DEF ApartIn, SameBut, Sinks, str, g
<1> QED
  BY <1>2, <1>3

\* A write from inside the file leaves every file as long as it was or longer,
\* and the stream inside its file.
LEMMA FlushType ==
  ASSUME NEW f \in [Paths -> Seq(Cells)], NEW s \in Streams,
         NEW k \in 0..Len(s.buf), s.pos <= Len(f[s.path])
  PROVE  LET g == Wrote(f, s, SubSeq(s.buf, 1, k))
             t == AfterWrite(s, s.buf, k)
         IN  /\ g \in [Paths -> Seq(Cells)]
             /\ \A p \in Paths : Len(f[p]) <= Len(g[p])
             /\ t \in Streams
             /\ t.path = s.path
             /\ t.pos <= Len(g[s.path])
<1> DEFINE c == SubSeq(s.buf, 1, k)
           t == AfterWrite(s, s.buf, k)
           g == Wrote(f, s, c)
<1>1. /\ s.path \in Paths /\ s.pos \in Nat /\ s.buf \in Seq(Cells)
      /\ f[s.path] \in Seq(Cells) /\ Len(f[s.path]) \in Nat
  BY DEF Streams
<1>2. c \in Seq(Cells) /\ Len(c) = k /\ k \in Nat
  BY <1>1, PrefixType
<1>3. /\ t \in Streams /\ t.path = s.path
      /\ t.pos = IF s.app THEN 0 ELSE s.pos + k
  BY <1>1, AfterWriteType
<1> HIDE DEF c, t
<1>4. /\ WriteAt(f[s.path], s, c) \in Seq(Cells)
      /\ Len(WriteAt(f[s.path], s, c)) >= Len(f[s.path])
      /\ ~s.app => Len(WriteAt(f[s.path], s, c)) >= s.pos + k
  BY <1>1, <1>2, WriteAtType
<1>5. /\ g \in [Paths -> Seq(Cells)]
      /\ g[s.path] = WriteAt(f[s.path], s, c)
      /\ \A p \in Paths : p # s.path => g[p] = f[p]
  BY <1>1, <1>4 DEF Wrote
<1> HIDE DEF g
<1>6. ASSUME NEW p \in Paths PROVE Len(f[p]) \in Nat /\ Len(g[p]) \in Nat
  <2>1. f[p] \in Seq(Cells) /\ g[p] \in Seq(Cells)
    BY <1>5
  <2> QED
    BY <2>1, LenProperties
<1>7. /\ Len(f[s.path]) <= Len(g[s.path])
      /\ ~s.app => s.pos + k <= Len(g[s.path])
  <2>1. Len(g[s.path]) = Len(WriteAt(f[s.path], s, c))
    BY <1>5
  <2> QED
    BY <1>1, <1>2, <1>4, <1>6, <2>1
<1>8. t.pos <= Len(g[s.path])
  BY <1>1, <1>3, <1>6, <1>7
<1>9. ASSUME NEW p \in Paths PROVE Len(f[p]) <= Len(g[p])
  <2>1. CASE p = s.path
    BY <1>7, <2>1
  <2>2. CASE p # s.path
    BY <1>5, <1>6, <2>2
  <2> QED
    BY <2>1, <2>2
<1> QED
  BY <1>3, <1>5, <1>8, <1>9 DEF c, t, g

\* Closing two streams leaves sequences of cells behind.
LEMMA LastFlushesType ==
  ASSUME NEW f \in [Paths -> Seq(Cells)], NEW e \in Streams, NEW o \in Streams,
         NEW kE \in 0..Len(e.buf), NEW kO \in 0..Len(o.buf),
         e.pos <= Len(f[e.path]), o.pos <= Len(f[o.path])
  PROVE  Wrote(Wrote(f, e, SubSeq(e.buf, 1, kE)), o, SubSeq(o.buf, 1, kO))
           \in [Paths -> Seq(Cells)]
<1> DEFINE g == Wrote(f, e, SubSeq(e.buf, 1, kE))
<1>1. /\ g \in [Paths -> Seq(Cells)]
      /\ \A p \in Paths : Len(f[p]) <= Len(g[p])
  BY FlushType
<1> HIDE DEF g
<1>2. o.path \in Paths /\ o.pos \in Nat
  BY DEF Streams
<1>3. f[o.path] \in Seq(Cells) /\ g[o.path] \in Seq(Cells)
  BY <1>1, <1>2
<1>4. o.pos <= Len(g[o.path])
  BY <1>1, <1>2, <1>3, LenProperties
<1>5. Wrote(g, o, SubSeq(o.buf, 1, kO)) \in [Paths -> Seq(Cells)]
  BY <1>1, <1>4, FlushType
<1> QED
  BY <1>5 DEF g

\* The destructors of an errs stream e and then of an outs stream o append
\* what gets through of their buffers, also to one shared file.
LEMMA LastFlushesGrow ==
  ASSUME NEW f \in [Paths -> Seq(Cells)], NEW e \in Streams, NEW o \in Streams,
         NEW C \in SUBSET Cells, NEW cE \in Seq(C), NEW cO \in Seq(C),
         e.buf = << >> => cE = << >>, o.buf = << >> => cO = << >>,
         e.pos <= Len(f[e.path]), o.pos <= Len(f[o.path]),
         AtEndOf(f[e.path], e), AtEndOf(f[o.path], o),
         (e.app /\ o.app) \/ e.path # o.path
  PROVE  LET g == Wrote(Wrote(f, e, cE), o, cO)
         IN  g \in [Paths -> Seq(Cells)] /\ GrowsBy(f, g, C)
<1> DEFINE g == Wrote(f, e, cE)
           h == Wrote(g, o, cO)
<1>1. e.path \in Paths /\ o.path \in Paths /\ e.pos \in Nat /\ o.pos \in Nat
  BY DEF Streams
<1>2. e.app \/ e.pos = Len(f[e.path]) \/ cE = << >>
  BY DEF AtEndOf
<1>3. /\ g \in [Paths -> Seq(Cells)]
      /\ g[e.path] = f[e.path] \o cE
      /\ \A p \in Paths : p # e.path => g[p] = f[p]
      /\ GrowsBy(f, g, C)
  BY <1>2, WriteGrows
<1> HIDE DEF g
<1>4. o.pos <= Len(g[o.path]) /\ (o.app \/ o.pos = Len(g[o.path]) \/ cO = << >>)
  <2>1. CASE o.path = e.path
    <3>1. o.app
      BY <2>1
    <3>2. f[e.path] \in Seq(Cells) /\ cE \in Seq(Cells)
      BY <1>1, SeqMonotonic
    <3>3. Len(f[e.path]) <= Len(f[e.path] \o cE)
      BY <3>2, ConcatExtends
    <3>4. Len(f[e.path]) \in Nat /\ Len(f[e.path] \o cE) \in Nat
      BY <3>2, ConcatProperties, LenProperties
    <3> QED
      BY <1>1, <1>3, <2>1, <3>1, <3>3, <3>4
  <2>2. CASE o.path # e.path
    BY <1>1, <1>3, <2>2 DEF AtEndOf
  <2> QED
    BY <2>1, <2>2
<1>5. h \in [Paths -> Seq(Cells)] /\ GrowsBy(g, h, C)
  BY <1>3, <1>4, WriteGrows
<1>6. GrowsBy(f, h, C)
  BY <1>3, <1>5, GrowsTwice
<1> QED
  BY <1>5, <1>6 DEF g

\* The pieces of m's record, and those that wait in the buffers of streams str.
Pieces(m) == {<<m.id, i>> : i \in 1..m.size}
WaitingIn(str) ==
  {c \in Cells : \E s \in Sinks : \E i \in 1..Len(str[s].buf) : c = str[s].buf[i]}

LEMMA PiecesType ==
  ASSUME NEW m \in Msgs
  PROVE  Pieces(m) \in SUBSET Cells
<1>1. m.id \in Nat /\ m.size \in Nat
  BY BytesType DEF Msgs
<1> QED
  BY <1>1 DEF Pieces, Cells

\* A short write of a record leaves out at least its last piece.
LEMMA PrefixPieces ==
  ASSUME NEW m \in Msgs, NEW k \in 0..m.size
  PROVE  /\ SubSeq(Bytes(m), 1, k) \in Seq(Pieces(m))
         /\ k < m.size
              => SubSeq(Bytes(m), 1, k) \in Seq(Pieces(m) \ {<<m.id, m.size>>})
<1>1. Bytes(m) \in Seq(Cells) /\ Len(Bytes(m)) = m.size /\ m.size \in Nat
  BY BytesType
<1>2. \A i \in 1..m.size : Bytes(m)[i] = <<m.id, i>>
  BY DEF Bytes
<1>3. \A i \in 1..k : SubSeq(Bytes(m), 1, k)[i] = <<m.id, i>>
  BY <1>1, <1>2
<1>4. \A C : (\A i \in 1..k : Bytes(m)[i] \in C) => SubSeq(Bytes(m), 1, k) \in Seq(C)
  <2>1. k \in Int /\ 1 \in Int
    OBVIOUS
  <2> QED
    BY <2>1, SubSeqProperties
<1>5. \A i \in 1..k : Bytes(m)[i] \in Pieces(m)
  <2>1. \A i \in 1..k : i \in 1..m.size
    BY <1>1
  <2> QED
    BY <1>2, <2>1 DEF Pieces
<1>6. k < m.size => \A i \in 1..k : Bytes(m)[i] \in Pieces(m) \ {<<m.id, m.size>>}
  BY <1>1, <1>2, <1>5
<1> QED
  BY <1>4, <1>5, <1>6

\* The destructor of an object whose streams are str, errs before outs.
LEMMA LastFlushes ==
  ASSUME NEW f \in [Paths -> Seq(Cells)], NEW str \in [Sinks -> Streams],
         NEW kE \in 0..Len(str["errs"].buf), NEW kO \in 0..Len(str["outs"].buf),
         \A t \in Sinks : /\ str[t].pos <= Len(f[str[t].path])
                         /\ AtEndOf(f[str[t].path], str[t]),
         ApartIn(str)
  PROVE  LET g == Wrote(f, str["errs"], SubSeq(str["errs"].buf, 1, kE))
             h == Wrote(g, str["outs"], SubSeq(str["outs"].buf, 1, kO))
         IN  h \in [Paths -> Seq(Cells)] /\ GrowsBy(f, h, WaitingIn(str))
<1> DEFINE E == str["errs"]
           O == str["outs"]
           cE == SubSeq(E.buf, 1, kE)
           cO == SubSeq(O.buf, 1, kO)
           W == WaitingIn(str)
<1>1. /\ E \in Streams /\ E.buf \in Seq(Cells)
      /\ O \in Streams /\ O.buf \in Seq(Cells)
  BY DEF Streams, Sinks
<1>2. E.buf \in Seq(W) /\ O.buf \in Seq(W) /\ W \in SUBSET Cells
  <2>1. \A i \in 1..Len(E.buf) : E.buf[i] \in W
    BY <1>1 DEF WaitingIn, Sinks
  <2>2. \A i \in 1..Len(O.buf) : O.buf[i] \in W
    BY <1>1 DEF WaitingIn, Sinks
  <2>3. W \in SUBSET Cells
    BY DEF WaitingIn
  <2> HIDE DEF E, O, W
  <2> QED
    BY <1>1, <2>1, <2>2, <2>3, SeqOfElements
<1>3. /\ E.pos <= Len(f[E.path]) /\ O.pos <= Len(f[O.path])
      /\ AtEndOf(f[E.path], E) /\ AtEndOf(f[O.path], O)
      /\ (E.app /\ O.app) \/ E.path # O.path
  BY DEF ApartIn, Sinks
<1>4. /\ cE \in Seq(W)
      /\ cO \in Seq(W)
      /\ E.buf = << >> => cE = << >>
      /\ O.buf = << >> => cO = << >>
  <2>1. kE \in 0..Len(E.buf) /\ kO \in 0..Len(O.buf)
    OBVIOUS
  <2> HIDE DEF E, O, W
  <2> QED
    BY <1>2, <2>1
<1> HIDE DEF E, O, cE, cO, W
<1>5. LET h == Wrote(Wrote(f, E, cE), O, cO)
      IN  h \in [Paths -> Seq(Cells)] /\ GrowsBy(f, h, W)
  BY <1>1, <1>2, <1>3, <1>4, LastFlushesGrow
<1> QED
  BY <1>5 DEF E, O, cE, cO, W

-----------------------------------------------------------------------------
(* Records in files that grow *)

LEMMA GrownReadable ==
  ASSUME NEW f \in [Paths -> Seq(Cells)], NEW g, NEW C \in SUBSET Cells,
         GrowsBy(f, g, C), NEW p \in Paths, NEW m \in Msgs, Readable(f[p], m)
  PROVE  Readable(g[p], m)
<1>1. PICK c \in Seq(C) : g[p] = f[p] \o c
  BY DEF GrowsBy
<1>2. f[p] \in Seq(Cells) /\ c \in Seq(Cells)
  BY SeqMonotonic
<1> QED
  BY <1>1, <1>2, ReadableAppend

\* A readable record has its last piece in the file.
LEMMA ReadableLast ==
  ASSUME NEW f \in Seq(Cells), NEW m \in Msgs, Readable(f, m)
  PROVE  \E i \in 1..Len(f) : f[i] = <<m.id, m.size>>
<1>1. PICK p \in 0..(Len(f) - m.size) : \A i \in 1..m.size : f[p + i] = <<m.id, i>>
  BY DEF Readable
<1>2. m.size \in Nat \ {0}
  BY BytesType
<1>3. p + m.size \in 1..Len(f) /\ m.size \in 1..m.size
  BY <1>2
<1> QED
  BY <1>1, <1>3

\* A record becomes readable only by a write of its last piece.
LEMMA ReadableOld ==
  ASSUME NEW f \in Seq(Cells), NEW c \in Seq(Cells), NEW m \in Msgs,
         \A i \in 1..Len(c) : c[i] # <<m.id, m.size>>,
         Readable(f \o c, m)
  PROVE  Readable(f, m)
<1>1. PICK p \in 0..(Len(f \o c) - m.size) :
        \A i \in 1..m.size : (f \o c)[p + i] = <<m.id, i>>
  BY DEF Readable
<1>2. m.size \in Nat \ {0}
  BY BytesType
<1>3. p + m.size <= Len(f)
  <2> SUFFICES ASSUME p + m.size > Len(f) PROVE FALSE
    BY <1>2
  <2>1. p + m.size - Len(f) \in 1..Len(c)
    BY <1>2
  <2>2. (f \o c)[p + m.size] = c[p + m.size - Len(f)]
    BY <1>2, <2>1
  <2>3. (f \o c)[p + m.size] = <<m.id, m.size>>
    <3>1. m.size \in 1..m.size
      BY <1>2
    <3> QED
      BY <1>1, <3>1
  <2> QED
    BY <2>1, <2>2, <2>3
<1>4. p \in 0..(Len(f) - m.size)
  BY <1>2, <1>3
<1>5. ASSUME NEW i \in 1..m.size PROVE f[p + i] = <<m.id, i>>
  <2>1. p + i \in 1..Len(f)
    BY <1>2, <1>3
  <2>2. (f \o c)[p + i] = f[p + i]
    BY <2>1
  <2> QED
    BY <1>1, <2>2
<1> QED
  BY <1>4, <1>5 DEF Readable

LEMMA GrownReadableOld ==
  ASSUME NEW f \in [Paths -> Seq(Cells)], NEW g, NEW C \in SUBSET Cells,
         GrowsBy(f, g, C), NEW p \in Paths, NEW m \in Msgs,
         <<m.id, m.size>> \notin C, Readable(g[p], m)
  PROVE  Readable(f[p], m)
<1>1. PICK c \in Seq(C) : g[p] = f[p] \o c
  BY DEF GrowsBy
<1>2. f[p] \in Seq(Cells) /\ c \in Seq(Cells)
  BY SeqMonotonic
<1>3. \A i \in 1..Len(c) : c[i] # <<m.id, m.size>>
  BY ElementOfSeq
<1> QED
  BY <1>1, <1>2, <1>3, ReadableOld

\* A cell of a file that grew was there or is one of those written.
LEMMA GrownCell ==
  ASSUME NEW f \in [Paths -> Seq(Cells)], NEW g, NEW C \in SUBSET Cells,
         GrowsBy(f, g, C), NEW p \in Paths
  PROVE  /\ Len(f[p]) \in Nat
         /\ Len(g[p]) \in Nat
         /\ Len(f[p]) <= Len(g[p])
         /\ \A i \in 1..Len(f[p]) : g[p][i] = f[p][i]
         /\ \A i \in 1..Len(g[p]) : i > Len(f[p]) => g[p][i] \in C
<1>1. PICK c \in Seq(C) : g[p] = f[p] \o c
  BY DEF GrowsBy
<1>2. f[p] \in Seq(Cells) /\ c \in Seq(Cells)
  BY SeqMonotonic
<1>3. /\ Len(f[p] \o c) = Len(f[p]) + Len(c)
      /\ Len(f[p]) \in Nat /\ Len(c) \in Nat
      /\ \A i \in 1..Len(f[p]) : (f[p] \o c)[i] = f[p][i]
      /\ \A i \in 1..(Len(f[p]) + Len(c)) : i > Len(f[p])
           => (f[p] \o c)[i] = c[i - Len(f[p])] /\ i - Len(f[p]) \in 1..Len(c)
  BY <1>2
<1>4. \A i \in 1..Len(c) : c[i] \in C
  BY ElementOfSeq
<1> QED
  BY <1>1, <1>3, <1>4

-----------------------------------------------------------------------------
(* A record that is written piece by piece: d pieces so far, those in buffer b
   and before them k pieces at the end of file f. *)

Holds(b, m, d) == Len(b) <= d /\ \A i \in 1..Len(b) : b[i] = <<m.id, d - Len(b) + i>>

EndsWith(f, m, k) == k <= Len(f) /\ \A i \in 1..k : f[Len(f) - k + i] = <<m.id, i>>

\* What gets through of the buffer are pieces of the record; the last one only
\* when the record is complete and everything gets through.
LEMMA HoldsPieces ==
  ASSUME NEW m \in Msgs, NEW d \in 0..m.size, NEW b \in Seq(Cells),
         Holds(b, m, d), NEW k \in 0..Len(b)
  PROVE  /\ SubSeq(b, 1, k) \in Seq(Pieces(m))
         /\ k # Len(b) \/ d < m.size
              => SubSeq(b, 1, k) \in Seq(Pieces(m) \ {<<m.id, m.size>>})
<1>1. m.size \in Nat /\ Len(b) \in Nat /\ d \in Nat /\ Len(b) <= d /\ k \in Nat
  BY BytesType DEF Holds
<1>2. \A i \in 1..k : b[i] = <<m.id, d - Len(b) + i>>
  BY <1>1 DEF Holds
<1>3. \A C : (\A i \in 1..k : b[i] \in C) => SubSeq(b, 1, k) \in Seq(C)
  <2>1. k \in Int /\ 1 \in Int
    BY <1>1
  <2> QED
    BY <2>1, SubSeqProperties
<1>4. ASSUME NEW i \in 1..k PROVE b[i] \in Pieces(m)
  <2>1. d - Len(b) + i \in 1..m.size
    BY <1>1
  <2> QED
    BY <1>2, <2>1 DEF Pieces
<1>5. ASSUME k # Len(b) \/ d < m.size, NEW i \in 1..k
      PROVE  b[i] \in Pieces(m) \ {<<m.id, m.size>>}
  <2>1. d - Len(b) + i # m.size
    BY <1>1, <1>5
  <2>2. b[i] # <<m.id, m.size>>
    BY <1>2, <2>1
  <2> QED
    BY <1>4, <2>2
<1> QED
  BY <1>3, <1>4, <1>5

\* The next piece goes behind the others, or into an empty buffer.
LEMMA HoldsMore ==
  ASSUME NEW m \in Msgs, NEW d \in Nat, NEW b \in Seq(Cells), Holds(b, m, d)
  PROVE  /\ Holds(Append(b, <<m.id, d + 1>>), m, d + 1)
         /\ Holds(<< <<m.id, d + 1>> >>, m, d + 1)
<1> DEFINE c == <<m.id, d + 1>>
           a == Append(b, c)
<1>1. /\ Len(b) \in Nat /\ Len(a) = Len(b) + 1
      /\ \A i \in 1..Len(b) : a[i] = b[i]
      /\ a[Len(b) + 1] = c
  OBVIOUS
<1>2. Len(<<c>>) = 1 /\ <<c>>[1] = c
  OBVIOUS
<1> HIDE DEF a
<1>3. ASSUME NEW i \in 1..Len(a) PROVE a[i] = <<m.id, d + 1 - Len(a) + i>>
  <2>1. CASE i \in 1..Len(b)
    <3>1. b[i] = <<m.id, d - Len(b) + i>>
      BY <2>1 DEF Holds
    <3>2. d - Len(b) + i = d + 1 - Len(a) + i
      BY <1>1
    <3> QED
      BY <1>1, <2>1, <3>1, <3>2
  <2>2. CASE i = Len(b) + 1
    <3>1. d + 1 - Len(a) + i = d + 1
      BY <1>1, <2>2
    <3> QED
      BY <1>1, <2>2, <3>1
  <2> QED
    BY <1>1, <2>1, <2>2
<1>4. Holds(a, m, d + 1)
  BY <1>1, <1>3 DEF Holds
<1>5. Holds(<<c>>, m, d + 1)
  <2>1. \A i \in 1..Len(<<c>>) : i = 1 /\ d + 1 - Len(<<c>>) + i = d + 1
    BY <1>2
  <2>2. Len(<<c>>) <= d + 1
    BY <1>2
  <2> QED
    BY <1>2, <2>1, <2>2 DEF Holds
<1> QED
  BY <1>4, <1>5 DEF a

\* Once the buffer is written, all its pieces are at the end of the file.
LEMMA EndsWithMore ==
  ASSUME NEW m \in Msgs, NEW d \in Nat, NEW b \in Seq(Cells), Holds(b, m, d),
         NEW f \in Seq(Cells), EndsWith(f, m, d - Len(b))
  PROVE  EndsWith(f \o b, m, d)
<1>1. /\ Len(f) \in Nat /\ Len(b) \in Nat /\ Len(b) <= d
      /\ Len(f \o b) = Len(f) + Len(b)
      /\ d - Len(b) <= Len(f)
  BY DEF Holds, EndsWith
<1>2. ASSUME NEW i \in 1..d PROVE (f \o b)[Len(f \o b) - d + i] = <<m.id, i>>
  <2>1. CASE i <= d - Len(b)
    <3>1. /\ Len(f \o b) - d + i = Len(f) - (d - Len(b)) + i
          /\ Len(f) - (d - Len(b)) + i \in 1..Len(f)
          /\ i \in 1..(d - Len(b))
      BY <1>1, <2>1
    <3>2. (f \o b)[Len(f) - (d - Len(b)) + i] = f[Len(f) - (d - Len(b)) + i]
      BY <3>1
    <3> QED
      BY <3>1, <3>2 DEF EndsWith
  <2>2. CASE i > d - Len(b)
    <3> DEFINE j == i - (d - Len(b))
    <3>1. j \in 1..Len(b) /\ Len(f \o b) - d + i = Len(f) + j /\ d - Len(b) + j = i
      BY <1>1, <2>2
    <3> HIDE DEF j
    <3>2. (f \o b)[Len(f) + j] = b[j]
      BY <3>1, SMTT(60)
    <3>3. b[j] = <<m.id, i>>
      BY <3>1 DEF Holds
    <3> QED
      BY <3>1, <3>2, <3>3
  <2> QED
    BY <1>1, <2>1, <2>2
<1>3. d <= Len(f \o b)
  BY <1>1
<1> QED
  BY <1>2, <1>3 DEF EndsWith

LEMMA EndsWithAll ==
  ASSUME NEW m \in Msgs, NEW f \in Seq(Cells), EndsWith(f, m, m.size)
  PROVE  Readable(f, m)
<1>1. m.size \in Nat /\ Len(f) \in Nat
  BY BytesType
<1>2. Len(f) - m.size \in 0..(Len(f) - m.size)
  BY <1>1 DEF EndsWith
<1> QED
  BY <1>2 DEF EndsWith, Readable

\* k cells of the buffer of a stream on which a record is being written reach
\* the end of its file.
LEMMA FlushRecord ==
  ASSUME NEW f \in [Paths -> Seq(Cells)], NEW s \in Streams,
         NEW k \in 0..Len(s.buf), s.pos <= Len(f[s.path]),
         s.app \/ s.pos = Len(f[s.path]),
         NEW m \in Msgs, NEW d \in 0..m.size, Holds(s.buf, m, d),
         EndsWith(f[s.path], m, d - Len(s.buf))
  PROVE  LET g == Wrote(f, s, SubSeq(s.buf, 1, k))
             t == AfterWrite(s, s.buf, k)
         IN  /\ \A p \in Paths : p # s.path => g[p] = f[p]
             /\ GrowsBy(f, g, Pieces(m))
             /\ k # Len(s.buf) \/ d < m.size
                  => GrowsBy(f, g, Pieces(m) \ {<<m.id, m.size>>})
             /\ t.app \/ t.pos = Len(g[s.path])
             /\ k = Len(s.buf) => EndsWith(g[s.path], m, d)
<1> DEFINE c == SubSeq(s.buf, 1, k)
           t == AfterWrite(s, s.buf, k)
           g == Wrote(f, s, c)
           L == Pieces(m) \ {<<m.id, m.size>>}
<1>1. /\ s.path \in Paths /\ s.buf \in Seq(Cells) /\ s.pos \in Nat
      /\ f[s.path] \in Seq(Cells)
  BY DEF Streams
<1>2. /\ c \in Seq(Pieces(m))
      /\ k # Len(s.buf) \/ d < m.size => c \in Seq(L)
  BY <1>1, HoldsPieces
<1>3. Pieces(m) \in SUBSET Cells /\ L \in SUBSET Cells
  BY PiecesType
<1>4. c \in Seq(Cells) /\ Len(c) = k /\ (k = Len(s.buf) => c = s.buf)
  BY <1>1, PrefixType
<1>5. /\ t.app = s.app
      /\ t.pos = IF s.app THEN 0 ELSE s.pos + k
  BY <1>1, AfterWriteType
<1> HIDE DEF c, t, L
<1>6. /\ g[s.path] = f[s.path] \o c
      /\ \A p \in Paths : p # s.path => g[p] = f[p]
      /\ GrowsBy(f, g, Pieces(m))
  BY <1>2, <1>3, WriteGrows, SMTT(60)
<1>7. k # Len(s.buf) \/ d < m.size => GrowsBy(f, g, L)
  BY <1>2, <1>3, WriteGrows
<1> HIDE DEF g
<1>8. t.app \/ t.pos = Len(g[s.path])
  <2>1. Len(f[s.path] \o c) = Len(f[s.path]) + k
    BY <1>1, <1>4, ConcatProperties
  <2> QED
    BY <1>1, <1>5, <1>6, <2>1
<1>9. ASSUME k = Len(s.buf) PROVE EndsWith(g[s.path], m, d)
  <2>1. c = s.buf /\ d \in Nat
    BY <1>4, <1>9, BytesType
  <2> QED
    BY <1>1, <1>6, <2>1, EndsWithMore
<1> QED
  BY <1>6, <1>7, <1>8, <1>9 DEF c, t, g, L

-----------------------------------------------------------------------------
(* What the files f keep of one object's messages.  st is a stream, acc the*)
(* messages it was told to log.                                            *)

\* Numbers tell messages apart: n was the last one given away.
Numbered(file, accepted, n) ==
  /\ \A p \in Paths : \A i \in 1..Len(file[p]) : file[p][i][1] <= n
  /\ \A s \in Sinks : \A i \in 1..Len(accepted[s]) : accepted[s][i].id <= n
  /\ \A s \in Sinks : \A i, j \in 1..Len(accepted[s]) :
       i < j => accepted[s][i].id < accepted[s][j].id
  /\ \A s, t \in Sinks : s # t =>
       \A i \in 1..Len(accepted[s]), j \in 1..Len(accepted[t]) :
         accepted[s][i].id # accepted[t][j].id

\* The first n messages are in its file, none after the next one has left a
\* piece in any, and the buffer holds pieces of that next one only.
KeptTo(f, st, acc, n) ==
  /\ \A i \in 1..n : Readable(f[st.path], acc[i])
  /\ \A p \in Paths : \A i \in (n + 2)..Len(acc) : ~Mentions(f[p], acc[i].id)
  /\ \A i \in 1..Len(st.buf) : n < Len(acc) /\ st.buf[i][1] = acc[n + 1].id

Kept(f, st, acc) == \E n \in 0..Len(acc) : KeptTo(f, st, acc, n)

\* The messages a reader finds whole.
StoredIn(f, acc) == {i \in 1..Len(acc) : Readable(f, acc[i])}

LEMMA NotMentioned ==
  ASSUME NEW f \in Seq(Cells), NEW m \in Msgs, ~Mentions(f, m.id)
  PROVE  ~Readable(f, m)
<1> SUFFICES ASSUME Readable(f, m) PROVE FALSE
  OBVIOUS
<1>1. PICK i \in 1..Len(f) : f[i] = <<m.id, m.size>>
  BY ReadableLast
<1> QED
  BY <1>1 DEF Mentions

\* A file of a number of messages has no gap in it.
LEMMA KeptNoGap ==
  ASSUME NEW f \in [Paths -> Seq(Cells)], NEW st \in Streams,
         NEW acc \in Seq(Msgs), Kept(f, st, acc),
         NEW i \in 1..Len(acc), NEW j \in 1..Len(acc), i < j,
         Readable(f[st.path], acc[j])
  PROVE  Readable(f[st.path], acc[i])
<1>1. PICK n \in 0..Len(acc) : KeptTo(f, st, acc, n)
  BY DEF Kept
<1>2. st.path \in Paths
  BY DEF Streams
<1>3. j < n + 2
  <2> SUFFICES ASSUME j >= n + 2 PROVE FALSE
    BY <1>1
  <2>1. ~Mentions(f[st.path], acc[j].id)
    BY <1>1, <1>2 DEF KeptTo
  <2>2. f[st.path] \in Seq(Cells) /\ acc[j] \in Msgs
    BY <1>2
  <2> QED
    BY <2>1, <2>2, NotMentioned
<1>4. i \in 1..n
  BY <1>3
<1> QED
  BY <1>1, <1>4 DEF KeptTo

\* Writing no piece of the messages after the next one keeps what is kept.
LEMMA KeptGrows ==
  ASSUME NEW f \in [Paths -> Seq(Cells)], NEW g, NEW C \in SUBSET Cells,
         GrowsBy(f, g, C), NEW acc \in Seq(Msgs),
         NEW st \in Streams, NEW n \in 0..Len(acc), KeptTo(f, st, acc, n),
         \A c \in C : \A i \in (n + 2)..Len(acc) : c[1] # acc[i].id,
         NEW su \in Streams, su.path = st.path, su.buf \in {st.buf, << >>}
  PROVE  KeptTo(g, su, acc, n)
<1>1. ASSUME NEW i \in 1..n PROVE Readable(g[su.path], acc[i])
  <2>1. Readable(f[st.path], acc[i]) /\ acc[i] \in Msgs /\ st.path \in Paths
    BY DEF KeptTo, Streams
  <2> QED
    BY <2>1, GrownReadable
<1>2. ASSUME NEW p \in Paths, NEW i \in (n + 2)..Len(acc)
      PROVE  ~Mentions(g[p], acc[i].id)
  <2> SUFFICES ASSUME NEW j \in 1..Len(g[p]), g[p][j][1] = acc[i].id PROVE FALSE
    BY DEF Mentions
  <2>1. ~Mentions(f[p], acc[i].id)
    BY DEF KeptTo
  <2>2. /\ Len(f[p]) \in Nat
        /\ \A k \in 1..Len(f[p]) : g[p][k] = f[p][k]
        /\ \A k \in 1..Len(g[p]) : k > Len(f[p]) => g[p][k] \in C
        /\ Len(g[p]) \in Nat
    BY GrownCell
  <2>3. CASE j <= Len(f[p])
    <3>1. j \in 1..Len(f[p])
      BY <2>2, <2>3
    <3> QED
      BY <2>1, <2>2, <3>1 DEF Mentions
  <2>4. CASE j > Len(f[p])
    BY <2>2, <2>4
  <2> QED
    BY <2>2, <2>3, <2>4
<1>3. ASSUME NEW i \in 1..Len(su.buf)
      PROVE  n < Len(acc) /\ su.buf[i][1] = acc[n + 1].id
  <2>1. su.buf = st.buf
    BY <1>3
  <2> QED
    BY <2>1 DEF KeptTo
<1> QED
  BY <1>1, <1>2, <1>3 DEF KeptTo

\* A message that leaves no piece in any file and none in the buffer.
LEMMA KeptDrop ==
  ASSUME NEW f, NEW acc \in Seq(Msgs), NEW m \in Msgs,
         NEW st \in Streams, NEW n \in 0..Len(acc), KeptTo(f, st, acc, n),
         \A p \in Paths : ~Mentions(f[p], m.id)
  PROVE  n \in 0..Len(Append(acc, m)) /\ KeptTo(f, st, Append(acc, m), n)
<1> DEFINE a == Append(acc, m)
<1>1. /\ Len(a) = Len(acc) + 1
      /\ Len(acc) \in Nat
      /\ \A i \in 1..Len(acc) : a[i] = acc[i]
      /\ a[Len(acc) + 1] = m
  OBVIOUS
<1> HIDE DEF a
<1>2. ASSUME NEW i \in 1..n PROVE Readable(f[st.path], a[i])
  BY <1>1 DEF KeptTo
<1>3. ASSUME NEW p \in Paths, NEW i \in (n + 2)..Len(a)
      PROVE  ~Mentions(f[p], a[i].id)
  <2>1. CASE i = Len(acc) + 1
    BY <1>1, <2>1
  <2>2. CASE i # Len(acc) + 1
    <3>1. i \in (n + 2)..Len(acc) /\ i \in 1..Len(acc)
      BY <1>1, <2>2
    <3> QED
      BY <1>1, <3>1 DEF KeptTo
  <2> QED
    BY <2>1, <2>2
<1>4. ASSUME NEW i \in 1..Len(st.buf)
      PROVE  n < Len(a) /\ st.buf[i][1] = a[n + 1].id
  <2>1. n < Len(acc) /\ st.buf[i][1] = acc[n + 1].id
    BY DEF KeptTo
  <2>2. n + 1 \in 1..Len(acc)
    BY <2>1
  <2> QED
    BY <1>1, <2>1, <2>2
<1>5. n \in 0..Len(a)
  BY <1>1
<1> QED
  BY <1>2, <1>3, <1>4, <1>5 DEF KeptTo, a

\* A message after messages that are all in the file, whatever becomes of it.
LEMMA KeptNext ==
  ASSUME NEW f, NEW acc \in Seq(Msgs), NEW m \in Msgs,
         NEW st \in Streams, \A i \in 1..Len(acc) : Readable(f[st.path], acc[i]),
         \A i \in 1..Len(st.buf) : st.buf[i][1] = m.id
  PROVE  /\ Len(acc) \in 0..Len(Append(acc, m))
         /\ KeptTo(f, st, Append(acc, m), Len(acc))
<1> DEFINE a == Append(acc, m)
<1>1. /\ Len(a) = Len(acc) + 1
      /\ Len(acc) \in Nat
      /\ \A i \in 1..Len(acc) : a[i] = acc[i]
      /\ a[Len(acc) + 1] = m
  OBVIOUS
<1> HIDE DEF a
<1> QED
  BY <1>1 DEF KeptTo, a

\* Messages that are all in the file, and nothing in the buffer.
LEMMA KeptWhole ==
  ASSUME NEW f, NEW acc \in Seq(Msgs), NEW st \in Streams, st.buf = << >>,
         \A i \in 1..Len(acc) : Readable(f[st.path], acc[i])
  PROVE  Kept(f, st, acc)
<1>1. Len(acc) \in 0..Len(acc) /\ (Len(acc) + 2)..Len(acc) = {}
  OBVIOUS
<1>2. 1..Len(st.buf) = {}
  OBVIOUS
<1> QED
  BY <1>1, <1>2 DEF Kept, KeptTo

\* Cells with numbers that were given away keep the numbering.
LEMMA NumberedGrows ==
  ASSUME NEW f \in [Paths -> Seq(Cells)], NEW g, NEW C \in SUBSET Cells,
         GrowsBy(f, g, C), NEW acc, NEW n \in Nat, Numbered(f, acc, n),
         \A c \in C : c[1] <= n
  PROVE  Numbered(g, acc, n)
<1>1. ASSUME NEW p \in Paths, NEW i \in 1..Len(g[p]) PROVE g[p][i][1] <= n
  <2>1. /\ Len(f[p]) \in Nat
        /\ \A k \in 1..Len(f[p]) : g[p][k] = f[p][k]
        /\ \A k \in 1..Len(g[p]) : k > Len(f[p]) => g[p][k] \in C
        /\ Len(g[p]) \in Nat
    BY GrownCell
  <2>2. CASE i <= Len(f[p])
    <3>1. i \in 1..Len(f[p])
      BY <2>1, <2>2
    <3> QED
      BY <2>1, <3>1 DEF Numbered
  <2>3. CASE i > Len(f[p])
    BY <2>1, <2>3
  <2> QED
    BY <2>1, <2>2, <2>3
<1> QED
  BY <1>1 DEF Numbered

\* The next number is a new one.
LEMMA NumberedNew ==
  ASSUME NEW f \in [Paths -> Seq(Cells)], NEW acc \in [Sinks -> Seq(Msgs)],
         NEW n \in Nat, Numbered(f, acc, n)
  PROVE  /\ \A p \in Paths : ~Mentions(f[p], n + 1)
         /\ \A s \in Sinks : \A i \in 1..Len(acc[s]) : acc[s][i].id # n + 1
<1>1. ASSUME NEW p \in Paths, NEW i \in 1..Len(f[p]) PROVE f[p][i][1] # n + 1
  <2>1. f[p] \in Seq(Cells)
    OBVIOUS
  <2>2. f[p][i] \in Cells
    BY <2>1, ElementOfSeq
  <2>3. f[p][i][1] \in Nat /\ f[p][i][1] <= n
    BY <2>2 DEF Numbered, Cells
  <2> QED
    BY <2>3
<1>2. ASSUME NEW s \in Sinks, NEW i \in 1..Len(acc[s]) PROVE acc[s][i].id # n + 1
  <2>1. acc[s] \in Seq(Msgs)
    OBVIOUS
  <2>2. acc[s][i] \in Msgs
    BY <2>1, ElementOfSeq
  <2>3. acc[s][i].id \in Nat /\ acc[s][i].id <= n
    BY <2>2 DEF Numbered, Msgs
  <2> QED
    BY <2>3
<1> QED
  BY <1>1, <1>2 DEF Mentions

\* One sink's messages after one more, and the other's.
LEMMA AcceptedNext ==
  ASSUME NEW acc \in [Sinks -> Seq(Msgs)], NEW s \in Sinks, NEW m \in Msgs,
         NEW t \in Sinks, NEW a, a = [acc EXCEPT ![s] = Append(@, m)]
  PROVE  /\ \A i \in 1..Len(acc[t]) : i \in 1..Len(a[t]) /\ a[t][i] = acc[t][i]
         /\ \A i \in 1..Len(a[t]) :
              \/ i \in 1..Len(acc[t]) /\ a[t][i] = acc[t][i]
              \/ t = s /\ i = Len(acc[s]) + 1 /\ a[t][i] = m
<1>1. CASE t = s
  <2>1. acc[s] \in Seq(Msgs) /\ a[s] = Append(acc[s], m)
    OBVIOUS
  <2>2. /\ Len(acc[s]) \in Nat
        /\ Len(a[s]) = Len(acc[s]) + 1
        /\ \A i \in 1..Len(acc[s]) : a[s][i] = acc[s][i]
        /\ a[s][Len(acc[s]) + 1] = m
    BY <2>1, AppendProperties, LenProperties
  <2> QED
    BY <1>1, <2>2
<1>2. CASE t # s
  <2>1. a[t] = acc[t]
    BY <1>2
  <2> QED
    BY <2>1
<1> QED
  BY <1>1, <1>2

LEMMA NumberedNext ==
  ASSUME NEW f \in [Paths -> Seq(Cells)], NEW acc \in [Sinks -> Seq(Msgs)],
         NEW n \in Nat, Numbered(f, acc, n), NEW s \in Sinks, NEW m \in Msgs,
         m.id = n + 1
  PROVE  Numbered(f, [acc EXCEPT ![s] = Append(@, m)], n + 1)
<1> DEFINE a == [acc EXCEPT ![s] = Append(@, m)]
<1>1. ASSUME NEW t \in Sinks
      PROVE  \A i \in 1..Len(acc[t]) : i \in 1..Len(a[t]) /\ a[t][i] = acc[t][i]
  BY AcceptedNext
<1>2. Len(acc[s]) \in Nat
  <2>1. acc[s] \in Seq(Msgs)
    OBVIOUS
  <2> QED
    BY <2>1, LenProperties
<1>3. ASSUME NEW t \in Sinks, NEW i \in 1..Len(acc[t])
      PROVE  acc[t][i].id \in Nat /\ acc[t][i].id <= n
  <2>1. acc[t] \in Seq(Msgs)
    OBVIOUS
  <2>2. acc[t][i] \in Msgs
    BY <2>1, ElementOfSeq
  <2> QED
    BY <2>2 DEF Numbered, Msgs
<1> HIDE DEF a
<1>4. ASSUME NEW p \in Paths, NEW i \in 1..Len(f[p]) PROVE f[p][i][1] <= n + 1
  <2>1. f[p] \in Seq(Cells)
    OBVIOUS
  <2>2. f[p][i] \in Cells
    BY <2>1, ElementOfSeq
  <2>3. f[p][i][1] \in Nat /\ f[p][i][1] <= n
    BY <2>2 DEF Numbered, Cells
  <2> QED
    BY <2>3
<1>5. ASSUME NEW t \in Sinks, NEW i \in 1..Len(a[t])
      PROVE  \/ i \in 1..Len(acc[t]) /\ a[t][i] = acc[t][i]
             \/ t = s /\ i = Len(acc[s]) + 1 /\ a[t][i] = m
  BY AcceptedNext DEF a
<1>6. ASSUME NEW t \in Sinks, NEW i \in 1..Len(a[t]) PROVE a[t][i].id <= n + 1
  <2>1. CASE i \in 1..Len(acc[t]) /\ a[t][i] = acc[t][i]
    <3>1. acc[t][i].id \in Nat /\ acc[t][i].id <= n
      BY <1>3, <2>1
    <3> QED
      BY <2>1, <3>1
  <2>2. CASE a[t][i] = m
    BY <2>2
  <2> QED
    BY <1>5, <2>1, <2>2
<1>7. ASSUME NEW t \in Sinks, NEW i \in 1..Len(a[t]), NEW j \in 1..Len(a[t]), i < j
      PROVE  a[t][i].id < a[t][j].id
  <2>1. CASE j \in 1..Len(acc[t]) /\ a[t][j] = acc[t][j]
    <3>1. i \in 1..Len(acc[t])
      BY <1>7, <2>1
    <3>2. a[t][i] = acc[t][i]
      BY <1>1, <3>1
    <3> QED
      BY <1>7, <2>1, <3>1, <3>2 DEF Numbered
  <2>2. CASE t = s /\ j = Len(acc[s]) + 1 /\ a[t][j] = m
    <3>1. i \in 1..Len(acc[t]) /\ a[t][i] = acc[t][i]
      BY <1>2, <1>5, <1>7, <2>2
    <3> QED
      BY <1>3, <2>2, <3>1
  <2> QED
    BY <1>5, <2>1, <2>2
<1>8. ASSUME NEW t \in Sinks, NEW u \in Sinks, t # u,
             NEW i \in 1..Len(a[t]), NEW j \in 1..Len(a[u])
      PROVE  a[t][i].id # a[u][j].id
  <2>1. CASE i \in 1..Len(acc[t]) /\ a[t][i] = acc[t][i]
    <3>1. CASE j \in 1..Len(acc[u]) /\ a[u][j] = acc[u][j]
      BY <1>8, <2>1, <3>1 DEF Numbered
    <3>2. CASE a[u][j] = m
      BY <1>3, <2>1, <3>2
    <3> QED
      BY <1>5, <3>1, <3>2
  <2>2. CASE t = s /\ a[t][i] = m
    <3>1. j \in 1..Len(acc[u]) /\ a[u][j] = acc[u][j]
      BY <1>5, <1>8, <2>2
    <3> QED
      BY <1>3, <2>2, <3>1
  <2> QED
    BY <1>5, <2>1, <2>2
<1>9. Numbered(f, a, n + 1)
  BY <1>4, <1>6, <1>7, <1>8 DEF Numbered
<1> QED
  BY <1>9 DEF a

-----------------------------------------------------------------------------
(* What a reader finds, before and after a step *)

LEMMA StoredSame ==
  ASSUME NEW f \in [Paths -> Seq(Cells)], NEW g, NEW C \in SUBSET Cells,
         GrowsBy(f, g, C), NEW p \in Paths, NEW acc \in Seq(Msgs),
         \A i \in 1..Len(acc) : <<acc[i].id, acc[i].size>> \notin C
  PROVE  StoredIn(g[p], acc) = StoredIn(f[p], acc)
<1>1. ASSUME NEW i \in 1..Len(acc)
      PROVE  Readable(g[p], acc[i]) <=> Readable(f[p], acc[i])
  <2>1. acc[i] \in Msgs
    OBVIOUS
  <2> QED
    BY <2>1, GrownReadable, GrownReadableOld
<1> QED
  BY <1>1 DEF StoredIn

\* The one message that may be found late is the first one missing.
LEMMA StoredLate ==
  ASSUME NEW f \in [Paths -> Seq(Cells)], NEW g, NEW C \in SUBSET Cells,
         GrowsBy(f, g, C), NEW acc \in Seq(Msgs),
         NEW st \in Streams, NEW n \in 0..Len(acc), KeptTo(f, st, acc, n),
         \A i \in 1..Len(acc) : i # n + 1 => <<acc[i].id, acc[i].size>> \notin C
  PROVE  \/ StoredIn(g[st.path], acc) = StoredIn(f[st.path], acc)
         \/ \E i \in 1..Len(acc) :
              /\ 1..(i - 1) \subseteq StoredIn(f[st.path], acc)
              /\ StoredIn(g[st.path], acc) = StoredIn(f[st.path], acc) \cup {i}
<1>1. ASSUME NEW i \in 1..Len(acc)
      PROVE  /\ Readable(f[st.path], acc[i]) => Readable(g[st.path], acc[i])
             /\ i # n + 1 /\ Readable(g[st.path], acc[i]) => Readable(f[st.path], acc[i])
  <2>1. acc[i] \in Msgs /\ st.path \in Paths
    BY DEF Streams
  <2> QED
    BY <2>1, GrownReadable, GrownReadableOld
<1>2. 1..n \subseteq StoredIn(f[st.path], acc)
  BY DEF KeptTo, StoredIn
<1>3. CASE n + 1 \in 1..Len(acc) /\ Readable(g[st.path], acc[n + 1])
  <2>1. StoredIn(g[st.path], acc) = StoredIn(f[st.path], acc) \cup {n + 1}
    BY <1>1, <1>3 DEF StoredIn
  <2>2. (n + 1) - 1 = n
    OBVIOUS
  <2> QED
    BY <1>2, <1>3, <2>1, <2>2
<1>4. CASE ~(n + 1 \in 1..Len(acc) /\ Readable(g[st.path], acc[n + 1]))
  BY <1>1, <1>4 DEF StoredIn
<1> QED
  BY <1>3, <1>4

\* One more message.
LEMMA StoredAppend ==
  ASSUME NEW f, NEW acc \in Seq(Msgs), NEW m \in Msgs
  PROVE  /\ Readable(f, m)
              => StoredIn(f, Append(acc, m)) = StoredIn(f, acc) \cup {Len(acc) + 1}
         /\ ~Readable(f, m) => StoredIn(f, Append(acc, m)) = StoredIn(f, acc)
<1>1. /\ Len(Append(acc, m)) = Len(acc) + 1
      /\ Len(acc) \in Nat
      /\ \A i \in 1..Len(acc) : Append(acc, m)[i] = acc[i]
      /\ Append(acc, m)[Len(acc) + 1] = m
  OBVIOUS
<1> QED
  BY <1>1 DEF StoredIn

-----------------------------------------------------------------------------
(* What the destructor of an object with streams str does to the record *)

\* A waiting piece is one of the next message to keep, of one stream.
LEMMA WaitingIsNext ==
  ASSUME NEW f, NEW acc \in [Sinks -> Seq(Msgs)], NEW str, NEW n,
         Numbered(f, acc, n), \A t \in Sinks : Kept(f, str[t], acc[t]),
         NEW d \in WaitingIn(str), NEW t \in Sinks,
         NEW k \in 0..Len(acc[t]), KeptTo(f, str[t], acc[t], k)
  PROVE  /\ d[1] <= n
         /\ \A i \in 1..Len(acc[t]) :
              d[1] = acc[t][i].id => i = k + 1 /\ str[t].buf # << >>
<1>1. PICK u \in Sinks : \E i \in 1..Len(str[u].buf) : d = str[u].buf[i]
  BY DEF WaitingIn
<1>2. PICK i \in 1..Len(str[u].buf) : d = str[u].buf[i]
  BY <1>1
<1>3. PICK h \in 0..Len(acc[u]) : KeptTo(f, str[u], acc[u], h)
  BY DEF Kept
<1>4. h < Len(acc[u]) /\ d[1] = acc[u][h + 1].id
  BY <1>2, <1>3 DEF KeptTo
<1>5. acc[u] \in Seq(Msgs) /\ acc[t] \in Seq(Msgs)
  OBVIOUS
<1>6. h + 1 \in 1..Len(acc[u])
  BY <1>4, <1>5
<1>7. d[1] <= n
  BY <1>4, <1>6 DEF Numbered
<1>8. ASSUME NEW j \in 1..Len(acc[t]), d[1] = acc[t][j].id
      PROVE  j = k + 1 /\ str[t].buf # << >>
  <2>1. u = t
    BY <1>4, <1>6, <1>8 DEF Numbered
  <2>2. k < Len(acc[t]) /\ d[1] = acc[t][k + 1].id
    BY <1>2, <2>1 DEF KeptTo
  <2>3. k + 1 \in 1..Len(acc[t])
    BY <1>5, <2>2
  <2>4. acc[t][j].id \in Nat /\ acc[t][k + 1].id \in Nat
    <3>1. acc[t][j] \in Msgs /\ acc[t][k + 1] \in Msgs
      BY <1>5, <2>3
    <3> QED
      BY <3>1 DEF Msgs
  <2>5. /\ j < k + 1 => acc[t][j].id < acc[t][k + 1].id
        /\ k + 1 < j => acc[t][k + 1].id < acc[t][j].id
    BY <2>3 DEF Numbered
  <2>6. j = k + 1
    BY <1>8, <2>2, <2>4, <2>5
  <2>7. str[t].buf # << >>
    BY <1>2, <2>1
  <2> QED
    BY <2>6, <2>7
<1> QED
  BY <1>7, <1>8

LEMMA NumberedDestroy ==
  ASSUME NEW f \in [Paths -> Seq(Cells)], NEW g, NEW str, NEW n \in Nat,
         NEW acc \in [Sinks -> Seq(Msgs)],
         GrowsBy(f, g, WaitingIn(str)), Numbered(f, acc, n),
         \A t \in Sinks : Kept(f, str[t], acc[t])
  PROVE  Numbered(g, acc, n)
<1>1. WaitingIn(str) \in SUBSET Cells
  BY DEF WaitingIn
<1>2. \A d \in WaitingIn(str) : d[1] <= n
  BY WaitingIsNext DEF Kept, Sinks
<1> QED
  BY <1>1, <1>2, NumberedGrows

LEMMA KeptDestroy ==
  ASSUME NEW f \in [Paths -> Seq(Cells)], NEW g, NEW n \in Nat,
         NEW str \in [Sinks -> Streams], NEW acc \in [Sinks -> Seq(Msgs)],
         GrowsBy(f, g, WaitingIn(str)), Numbered(f, acc, n),
         \A t \in Sinks : Kept(f, str[t], acc[t]), NEW t \in Sinks,
         NEW su \in Streams, su.path = str[t].path, su.buf = << >>
  PROVE  Kept(g, su, acc[t])
<1>1. PICK k \in 0..Len(acc[t]) : KeptTo(f, str[t], acc[t], k)
  BY DEF Kept
<1>2. WaitingIn(str) \in SUBSET Cells /\ str[t] \in Streams /\ acc[t] \in Seq(Msgs)
  BY DEF WaitingIn
<1>3. \A d \in WaitingIn(str) : \A i \in (k + 2)..Len(acc[t]) : d[1] # acc[t][i].id
  <2>1. \A i \in (k + 2)..Len(acc[t]) : i \in 1..Len(acc[t]) /\ i # k + 1
    OBVIOUS
  <2>2. \A d \in WaitingIn(str) : \A i \in 1..Len(acc[t]) :
          d[1] = acc[t][i].id => i = k + 1
    BY <1>1, WaitingIsNext
  <2> QED
    BY <2>1, <2>2
<1>4. KeptTo(g, su, acc[t], k)
  BY <1>1, <1>2, <1>3, KeptGrows, ZenonT(60)
<1> QED
  BY <1>4 DEF Kept

\* A reader finds what it found before, and perhaps the first message missing.
LEMMA StoredDestroy ==
  ASSUME NEW f \in [Paths -> Seq(Cells)], NEW g, NEW n \in Nat,
         NEW str \in [Sinks -> Streams], NEW acc \in [Sinks -> Seq(Msgs)],
         GrowsBy(f, g, WaitingIn(str)), Numbered(f, acc, n),
         \A t \in Sinks : Kept(f, str[t], acc[t]), NEW t \in Sinks
  PROVE  LET X == StoredIn(f[str[t].path], acc[t])
             Y == StoredIn(g[str[t].path], acc[t])
         IN  \/ Y = X
             \/ /\ str[t].buf # << >>
                /\ \E i \in 1..Len(acc[t]) : 1..(i - 1) \subseteq X /\ Y = X \cup {i}
<1>1. PICK k \in 0..Len(acc[t]) : KeptTo(f, str[t], acc[t], k)
  BY DEF Kept
<1>2. PICK C \in SUBSET Cells : C = WaitingIn(str)
  BY DEF WaitingIn
<1>3. \A d \in C : \A i \in 1..Len(acc[t]) :
        d[1] = acc[t][i].id => i = k + 1 /\ str[t].buf # << >>
  BY <1>1, <1>2, WaitingIsNext
<1>4. /\ str[t] \in Streams /\ str[t].path \in Paths /\ acc[t] \in Seq(Msgs)
      /\ GrowsBy(f, g, C)
  BY <1>2 DEF Streams
<1>5. CASE str[t].buf = << >>
  <2>1. ASSUME NEW i \in 1..Len(acc[t]), <<acc[t][i].id, acc[t][i].size>> \in C
        PROVE  FALSE
    <3>1. <<acc[t][i].id, acc[t][i].size>>[1] = acc[t][i].id
      OBVIOUS
    <3> QED
      BY <1>3, <1>5, <2>1, <3>1
  <2>2. \A i \in 1..Len(acc[t]) : <<acc[t][i].id, acc[t][i].size>> \notin C
    BY <2>1
  <2>3. StoredIn(g[str[t].path], acc[t]) = StoredIn(f[str[t].path], acc[t])
    BY <1>4, <2>2, StoredSame, ZenonT(60)
  <2> QED
    BY <2>3
<1>6. CASE str[t].buf # << >>
  <2>1. ASSUME NEW i \in 1..Len(acc[t]), <<acc[t][i].id, acc[t][i].size>> \in C
        PROVE  i = k + 1
    <3>1. <<acc[t][i].id, acc[t][i].size>>[1] = acc[t][i].id
      OBVIOUS
    <3> QED
      BY <1>3, <2>1, <3>1
  <2>2. \A i \in 1..Len(acc[t]) : i # k + 1
          => <<acc[t][i].id, acc[t][i].size>> \notin C
    BY <2>1
  <2>3. \/ StoredIn(g[str[t].path], acc[t]) = StoredIn(f[str[t].path], acc[t])
        \/ \E i \in 1..Len(acc[t]) :
             /\ 1..(i - 1) \subseteq StoredIn(f[str[t].path], acc[t])
             /\ StoredIn(g[str[t].path], acc[t])
                  = StoredIn(f[str[t].path], acc[t]) \cup {i}
    BY <1>1, <1>4, <2>2, StoredLate
  <2> QED
    BY <1>6, <2>3
<1> QED
  BY <1>5, <1>6

=============================================================================
