---------------------------- MODULE ProcessProofs ---------------------------
(***************************************************************************)
(* Proofs about the loggers of one process: TypeCorrect, Ownership,        *)
(* NothingStrays and ClosesOnce, for any loggers of the four classes, any  *)
(* files and any number of descriptors.                                    *)
(*                                                                         *)
(* Two inductive invariants, one on top of the other: OwnInv is about the  *)
(* numbers above 2, StdInv adds what 1 and 2 are as long as nothing was    *)
(* opened as one of them.  What a step does to the table is one open or    *)
(* close after the other, so the lemmas about Owned are about one of them. *)
(***************************************************************************)
EXTENDS Process, TLAPS, FiniteSetTheorems, WellFoundedInduction

\* Opening takes a number that is free: a set of numbers that is not empty has
\* a least one.
LEMMA LowestIsFree ==
  ASSUME NEW t, Free(t) # {}
  PROVE  Lowest(t) \in Free(t)
<1> DEFINE R == OpToRel(<, Nat)
<1>1. Free(t) \subseteq Nat
  BY NFdsAssumption DEF Free, Fds
<1>2. IsWellFoundedOn(R, Nat)
  BY NatLessThanWellFounded
<1>3. \E d \in Free(t) : \A e \in Free(t) : ~(<<e, d>> \in R)
  <2> HIDE DEF R
  <2> QED BY <1>1, <1>2, WFMin
<1>4. \E d \in Free(t) : \A e \in Free(t) : d <= e
  <2>1. PICK d \in Free(t) : \A e \in Free(t) : ~(<<e, d>> \in R)
    BY <1>3
  <2>2. ASSUME NEW e \in Free(t) PROVE d <= e
    <3>1. d \in Nat /\ e \in Nat
      BY <1>1
    <3>2. ~(e < d)
      BY <2>1, <2>2, <3>1 DEF OpToRel
    <3> QED BY <3>1, <3>2
  <2> QED BY <2>2
<1> QED
  BY <1>4 DEF Lowest

\* The classes have copies of Runtime's operators (INSTANCE); they are the same.
LEMMA SameOpen ==
  ASSUME NEW t, NEW p, NEW ok
  PROVE  /\ Dsk!OpenFd(t, p, ok) = OpenFd(t, p, ok)
         /\ Sys!OpenFd(t, p, ok) = OpenFd(t, p, ok)
  BY DEF OpenFd, Lowest, Free, Fds, Dsk!OpenFd, Dsk!Lowest, Dsk!Free, Dsk!Fds,
         Sys!OpenFd, Sys!Lowest, Sys!Free, Sys!Fds

\* The same of closing.
LEMMA SameClose ==
  ASSUME NEW t, NEW d
  PROVE  /\ Dsk!CloseFd(t, d) = CloseFd(t, d)
         /\ Sys!CloseFd(t, d) = CloseFd(t, d)
         /\ Con!CloseFd(t, d) = CloseFd(t, d)
  BY DEF CloseFd, Dsk!CloseFd, Sys!CloseFd, Con!CloseFd

-----------------------------------------------------------------------------
(* The descriptor table *)

\* The streams of all loggers on files, and the file each is opened on.
Streams == Dsk!Disks \X Sinks
Target(h) == FileOf[h[1]][h[2]]

\* The descriptors OwnedAbove2 is about.
Above2 == Fds \ StdFds

\* In table t, where stream h has number F[h] and the connection to syslogd
\* has number g, every number above 2 is open exactly when someone has it, then
\* only one, and on what belongs to it.  Nothing is said of 1 and 2, which
\* anyone may close and then open again.
Owned(t, F, g) ==
  /\ t \in [Fds -> Contents]
  /\ F \in [Streams -> 0..NFds]
  /\ g \in 0..NFds
  /\ \A h \in Streams : F[h] \in Above2 => t[F[h]] = Target(h)
  /\ \A h, k \in Streams : F[h] \in Above2 /\ F[h] = F[k] => h = k
  /\ g \in Above2 => t[g] \in {"syslogd", "dead"}
  /\ \A d \in Above2 : t[d] # "closed" => g = d \/ \E h \in Streams : F[h] = d

\* Descriptors 1 and 2 are what they were when the program began, or closed.
AtStd(t, F, g) ==
  /\ t[1] \in {"stdout", "closed"} /\ t[2] \in {"stderr", "closed"}
  /\ \A h \in Streams : F[h] \notin StdFds
  /\ g \notin StdFds

\* A stream's file is none of the marks in the table.
LEMMA TargetIsPath ==
  ASSUME NEW h \in Streams
  PROVE  /\ Target(h) \in Paths
         /\ Target(h) \in Contents
         /\ Target(h) \notin {"stdout", "stderr", "syslogd", "closed", "dead"}
<1>1. h[1] \in FileLoggers \cup BinLoggers /\ h[2] \in Sinks
  BY DEF Streams, Dsk!Disks
<1>2. Target(h) \in Paths
  BY <1>1, FileOfAssumption DEF Target
<1> QED
  BY <1>2, PathsAssumption DEF Contents

\* 0 is no descriptor, 1 and 2 are.
LEMMA StdFdsOpen == 1 \in Fds /\ 2 \in Fds /\ 0 \notin Fds /\ 0 \notin Above2 /\ 0 \notin StdFds
  BY NFdsAssumption DEF Fds, StdFds, Above2

\* r is what opening p in table t gave: nothing, or a number that was free.
Opened(t, p, r) ==
  \/ r.fd = 0 /\ r.table = t
  \/ /\ r.fd \in Fds /\ t[r.fd] = "closed"
     /\ r.table = [t EXCEPT ![r.fd] = p]

\* What OpenFd gives.
LEMMA OpenResult ==
  ASSUME NEW t, NEW p, NEW ok
  PROVE  Opened(t, p, OpenFd(t, p, ok))
<1>1. CASE ok /\ Free(t) # {}
  <2>1. Lowest(t) \in Fds /\ t[Lowest(t)] = "closed"
    BY <1>1, LowestIsFree DEF Free
  <2> QED BY <1>1, <2>1 DEF OpenFd, Opened
<1>2. CASE ~(ok /\ Free(t) # {})
  BY <1>2 DEF OpenFd, Opened
<1> QED BY <1>1, <1>2

\* Opening a stream's file keeps the table owned.
LEMMA OwnedOpen ==
  ASSUME NEW t, NEW F, NEW g, NEW h \in Streams, NEW r,
         Owned(t, F, g), F[h] = 0, Opened(t, Target(h), r)
  PROVE  Owned(r.table, [F EXCEPT ![h] = r.fd], g)
<1> DEFINE G == [F EXCEPT ![h] = r.fd]
<1>1. CASE r.fd = 0 /\ r.table = t
  <2>1. G = F
    BY <1>1 DEF Owned
  <2> QED BY <1>1, <2>1
<1>2. CASE r.fd \in Fds /\ t[r.fd] = "closed" /\ r.table = [t EXCEPT ![r.fd] = Target(h)]
  <2> DEFINE d == r.fd
             u == r.table
  <2>1. d \in Fds /\ t[d] = "closed" /\ u = [t EXCEPT ![d] = Target(h)]
    BY <1>2
  <2>2. Fds \subseteq 0..NFds
    BY NFdsAssumption DEF Fds
  <2>3. /\ u \in [Fds -> Contents] /\ u[d] = Target(h)
        /\ \A e \in Fds : e # d => u[e] = t[e]
    BY <2>1, TargetIsPath DEF Owned
  <2>4. /\ G \in [Streams -> 0..NFds] /\ G[h] = d
        /\ \A k \in Streams : k # h => G[k] = F[k]
    BY <2>1, <2>2 DEF Owned
  <2>5. \A k \in Streams : d \in Above2 => F[k] # d
    BY <2>1, TargetIsPath DEF Owned
  <2>6. d \in Above2 => g # d
    BY <2>1 DEF Owned
  <2> HIDE DEF G, d, u
  <2>7. \A k \in Streams : G[k] \in Above2 => u[G[k]] = Target(k)
    BY <2>3, <2>4, <2>5 DEF Owned, Above2
  <2>8. \A j, k \in Streams : G[j] \in Above2 /\ G[j] = G[k] => j = k
    BY <2>4, <2>5 DEF Owned
  <2>9. g \in Above2 => u[g] \in {"syslogd", "dead"}
    BY <2>3, <2>6 DEF Owned, Above2
  <2>10. \A e \in Above2 : u[e] # "closed" => g = e \/ \E k \in Streams : G[k] = e
    <3> SUFFICES ASSUME NEW e \in Above2, u[e] # "closed", g # e
                 PROVE  \E k \in Streams : G[k] = e
      OBVIOUS
    <3>1. CASE e = d
      BY <3>1, <2>4
    <3>2. CASE e # d
      <4>1. PICK k \in Streams : F[k] = e
        BY <3>2, <2>3 DEF Owned, Above2
      <4>2. e # 0
        BY StdFdsOpen
      <4>3. k # h
        BY <4>1, <4>2
      <4> QED BY <4>1, <4>3, <2>4
    <3> QED BY <3>1, <3>2
  <2>11. Owned(u, G, g)
    BY <2>3, <2>4, <2>7, <2>8, <2>9, <2>10 DEF Owned
  <2> QED BY <2>11 DEF u, G
<1> QED BY <1>1, <1>2 DEF Opened

\* So does closing the number a stream has, whatever has become of it.
LEMMA OwnedClose ==
  ASSUME NEW t, NEW F, NEW g, NEW h \in Streams, Owned(t, F, g)
  PROVE  Owned(CloseFd(t, F[h]), [F EXCEPT ![h] = 0], g)
<1> DEFINE d == F[h]
           u == CloseFd(t, d)
           G == [F EXCEPT ![h] = 0]
<1>1. d \in 0..NFds
  BY DEF Owned
<1>2. /\ G \in [Streams -> 0..NFds] /\ G[h] = 0
      /\ \A k \in Streams : k # h => G[k] = F[k]
  BY NFdsAssumption DEF Owned
<1>3. u \in [Fds -> Contents] /\ \A e \in Fds : e # d => u[e] = t[e]
  BY DEF Owned, CloseFd, Contents
<1>4. d \in Above2 => u[d] = "closed"
  BY StdFdsOpen DEF Owned, CloseFd, Above2
<1>5. d \in Above2 => g # d
  BY TargetIsPath DEF Owned
<1>6. \A k \in Streams : k # h => F[k] \notin Above2 \/ F[k] # d
  BY DEF Owned
<1>7. 0 \notin Above2 /\ Above2 \subseteq Fds
  BY StdFdsOpen DEF Above2
<1> HIDE DEF u, G
<1>8. \A k \in Streams : G[k] \in Above2 => u[G[k]] = Target(k)
  BY <1>2, <1>3, <1>6, <1>7 DEF Owned
<1>9. \A j, k \in Streams : G[j] \in Above2 /\ G[j] = G[k] => j = k
  BY <1>2, <1>7 DEF Owned
<1>10. g \in Above2 => u[g] \in {"syslogd", "dead"}
  BY <1>3, <1>5, <1>7 DEF Owned
<1>11. \A e \in Above2 : u[e] # "closed" => g = e \/ \E k \in Streams : G[k] = e
  <2> SUFFICES ASSUME NEW e \in Above2, u[e] # "closed", g # e
               PROVE  \E k \in Streams : G[k] = e
    OBVIOUS
  <2>1. e # d
    BY <1>4
  <2>2. PICK k \in Streams : F[k] = e
    BY <2>1, <1>3, <1>7 DEF Owned
  <2>3. k # h
    BY <2>1, <2>2
  <2> QED BY <2>2, <2>3, <1>2
<1>12. g \in 0..NFds
  BY DEF Owned
<1>13. Owned(u, G, g)
  BY <1>2, <1>3, <1>8, <1>9, <1>10, <1>11, <1>12 DEF Owned
<1> QED BY <1>13 DEF u, G

\* So does connecting to syslogd.
LEMMA OwnedConnect ==
  ASSUME NEW t, NEW F, NEW r, Owned(t, F, 0), Opened(t, "syslogd", r)
  PROVE  Owned(r.table, F, r.fd)
<1>1. CASE r.fd = 0 /\ r.table = t
  BY <1>1
<1>2. CASE r.fd \in Fds /\ t[r.fd] = "closed" /\ r.table = [t EXCEPT ![r.fd] = "syslogd"]
  <2> DEFINE d == r.fd
             u == r.table
  <2>1. d \in Fds /\ t[d] = "closed" /\ u = [t EXCEPT ![d] = "syslogd"]
    BY <1>2
  <2>2. d \in 0..NFds
    BY <2>1, NFdsAssumption DEF Fds
  <2>3. /\ u \in [Fds -> Contents] /\ u[d] = "syslogd"
        /\ \A e \in Fds : e # d => u[e] = t[e]
    BY <2>1 DEF Owned, Contents
  <2>4. \A h \in Streams : d \in Above2 => F[h] # d
    BY <2>1, TargetIsPath DEF Owned
  <2> HIDE DEF d, u
  <2>5. \A h \in Streams : F[h] \in Above2 => u[F[h]] = Target(h)
    BY <2>3, <2>4 DEF Owned, Above2
  <2>6. \A e \in Above2 : u[e] # "closed" => d = e \/ \E h \in Streams : F[h] = e
    BY <2>3, StdFdsOpen DEF Owned, Above2
  <2>7. Owned(u, F, d)
    BY <2>2, <2>3, <2>5, <2>6 DEF Owned
  <2> QED BY <2>7 DEF u, d
<1> QED BY <1>1, <1>2 DEF Opened

\* So does closing the number of the connection, whatever has become of it.
LEMMA OwnedDisconnect ==
  ASSUME NEW t, NEW F, NEW g, Owned(t, F, g)
  PROVE  Owned(CloseFd(t, g), F, 0)
<1> DEFINE u == CloseFd(t, g)
<1>1. g \in 0..NFds /\ 0 \in 0..NFds
  BY NFdsAssumption DEF Owned
<1>2. u \in [Fds -> Contents] /\ \A e \in Fds : e # g => u[e] = t[e]
  BY DEF Owned, CloseFd, Contents
<1>3. g \in Above2 => u[g] = "closed"
  BY StdFdsOpen DEF Owned, CloseFd, Above2
<1>4. \A h \in Streams : g \in Above2 => F[h] # g
  BY TargetIsPath DEF Owned
<1>5. 0 \notin Above2 /\ Above2 \subseteq Fds
  BY StdFdsOpen DEF Above2
<1> HIDE DEF u
<1>6. \A h \in Streams : F[h] \in Above2 => u[F[h]] = Target(h)
  BY <1>2, <1>4, <1>5 DEF Owned
<1>7. \A e \in Above2 : u[e] # "closed" => \E h \in Streams : F[h] = e
  BY <1>2, <1>3, <1>5 DEF Owned
<1>8. Owned(u, F, 0)
  BY <1>1, <1>2, <1>5, <1>6, <1>7 DEF Owned
<1> QED BY <1>8 DEF u

\* Whatever becomes of 1 and 2.
LEMMA OwnedStd ==
  ASSUME NEW t, NEW u, NEW F, NEW g, Owned(t, F, g),
         u \in [Fds -> Contents], \A d \in Above2 : u[d] = t[d]
  PROVE  Owned(u, F, g)
<1>1. \A h \in Streams : F[h] \in Above2 => u[F[h]] = Target(h)
  BY DEF Owned
<1>2. g \in Above2 => u[g] \in {"syslogd", "dead"}
  BY DEF Owned
<1>3. \A e \in Above2 : u[e] # "closed" => g = e \/ \E h \in Streams : F[h] = e
  BY DEF Owned
<1> QED BY <1>1, <1>2, <1>3 DEF Owned

LEMMA OwnedDaemon ==
  ASSUME NEW t, NEW u, NEW F, NEW g, Owned(t, F, g),
         u \in [Fds -> Contents],
         \A d \in Fds : u[d] = t[d] \/ (t[d] = "syslogd" /\ u[d] = "dead")
  PROVE  Owned(u, F, g)
<1>1. Above2 \subseteq Fds
  BY DEF Above2
<1>2. \A h \in Streams : F[h] \in Above2 => u[F[h]] = Target(h)
  BY <1>1, TargetIsPath DEF Owned
<1>3. g \in Above2 => u[g] \in {"syslogd", "dead"}
  BY <1>1 DEF Owned
<1>4. \A e \in Above2 : u[e] # "closed" => g = e \/ \E h \in Streams : F[h] = e
  BY <1>1 DEF Owned
<1> QED BY <1>2, <1>3, <1>4 DEF Owned

-----------------------------------------------------------------------------
(* The steps of the classes in the names of Process *)

\* The error codes the modelled classes report, and "none".
ErrTypes == {"none", "HEALTHY", "ERR_OPEN", "ERR_DISK", "ERR_CLOSED", "ERR_CLOSEFAIL"}

\* The steps of each class by what they do to the variables of Process.

\* A call of a log method that is not turned away, and what it does in each class.
Touch(l) == proc = "running" /\ err[l] # "none" /\ proc' \in {"running", "exiting"}

ConLog(l) == Touch(l) /\ \E s \in Sinks : Con!write_log(l, s)
DskLog(l) == Touch(l) /\ \E s \in Sinks : Dsk!Write(l, s)
SysLog(l) == Touch(l) /\ Sys!Log(l)

\* The eight log methods of a class differ only in the stream they use.
LEMMA ConSteps ==
  ASSUME Con!Next
  PROVE  \E l \in Consoles :
           \/ Con!ConsoleLogger(l)
           \/ ConLog(l)
           \/ \E v \in LevelChoices : Con!level(l, v)
           \/ Con!close(l)
           \/ Con!Destroy(l)
<1>1. PICK l \in Consoles :
        \/ Con!ConsoleLogger(l)
        \/ Con!debug(l) \/ Con!info(l) \/ Con!warn(l) \/ Con!error(l) \/ Con!critical(l)
        \/ Con!fatal(l) \/ Con!fatal_code(l) \/ Con!fatal_noexit(l)
        \/ \E v \in LevelChoices : Con!level(l, v)
        \/ Con!close(l)
        \/ Con!Destroy(l)
  BY DEF Con!Next
<1>2. \A c : \A p \in {"running", "exiting"} : Con!Called(l, c, p) => Touch(l)
  BY DEF Con!Called, Con!Live, Touch
<1>3. "outs" \in Sinks /\ "errs" \in Sinks
  BY DEF Sinks
<1>4. \/ Con!debug(l) \/ Con!info(l) \/ Con!warn(l) \/ Con!error(l) \/ Con!critical(l)
      \/ Con!fatal(l) \/ Con!fatal_code(l) \/ Con!fatal_noexit(l)
      => ConLog(l)
  BY <1>2, <1>3 DEF Con!debug, Con!info, Con!warn, Con!error, Con!critical,
     Con!fatal, Con!fatal_code, Con!fatal_noexit, ConLog
<1> QED BY <1>1, <1>4

\* The same of loggers on files.
LEMMA DskSteps ==
  ASSUME Dsk!Next
  PROVE  \E l \in Dsk!Disks :
           \/ Dsk!Construct(l)
           \/ DskLog(l)
           \/ \E v \in LevelChoices : Dsk!level(l, v)
           \/ Dsk!close(l)
           \/ Dsk!Destroy(l)
<1>1. PICK l \in Dsk!Disks :
        \/ Dsk!Construct(l)
        \/ Dsk!debug(l) \/ Dsk!info(l) \/ Dsk!warn(l) \/ Dsk!error(l) \/ Dsk!critical(l)
        \/ Dsk!fatal(l) \/ Dsk!fatal_code(l) \/ Dsk!fatal_noexit(l)
        \/ \E v \in LevelChoices : Dsk!level(l, v)
        \/ Dsk!close(l)
        \/ Dsk!Destroy(l)
  BY DEF Dsk!Next
<1>2. \A c : \A p \in {"running", "exiting"} : Dsk!Called(l, c, p) => Touch(l)
  BY DEF Dsk!Called, Dsk!Live, Touch
<1>3. "outs" \in Sinks /\ "errs" \in Sinks
  BY DEF Sinks
<1>4. \/ Dsk!debug(l) \/ Dsk!info(l) \/ Dsk!warn(l) \/ Dsk!error(l) \/ Dsk!critical(l)
      \/ Dsk!fatal(l) \/ Dsk!fatal_code(l) \/ Dsk!fatal_noexit(l)
      => DskLog(l)
  BY <1>2, <1>3 DEF Dsk!debug, Dsk!info, Dsk!warn, Dsk!error, Dsk!critical,
     Dsk!fatal, Dsk!fatal_code, Dsk!fatal_noexit, DskLog
<1> QED BY <1>1, <1>4

\* The same of syslog loggers.
LEMMA SysSteps ==
  ASSUME Sys!Next
  PROVE  \/ \E l \in Sysloggers :
              \/ Sys!Syslogger(l)
              \/ SysLog(l)
              \/ \E v \in LevelChoices : Sys!level(l, v)
              \/ Sys!close(l)
              \/ Sys!Destroy(l)
         \/ Sys!Daemon
<1>1. CASE Sys!Daemon
  BY <1>1
<1>2. ASSUME NEW l \in Sysloggers, Sys!Logs(l)
      PROVE  SysLog(l)
  <2>1. \A c : \A p \in {"running", "exiting"} : Sys!Called(l, c, p) => Touch(l)
    BY DEF Sys!Called, Sys!Live, Touch
  <2> QED
    BY <1>2, <2>1 DEF Sys!Logs, Sys!debug, Sys!info, Sys!warn, Sys!error, Sys!critical,
       Sys!fatal, Sys!fatal_code, Sys!fatal_noexit, SysLog
<1> QED BY <1>1, <1>2 DEF Sys!Next

\* Types of tables.
LEMMA OpenTypes ==
  ASSUME NEW t \in [Fds -> Contents], NEW p \in Contents, NEW r, Opened(t, p, r)
  PROVE  r.table \in [Fds -> Contents] /\ r.fd \in 0..NFds
<1>1. 0 \in 0..NFds /\ Fds \subseteq 0..NFds
  BY NFdsAssumption DEF Fds
<1> QED BY <1>1 DEF Opened

\* So does closing.
LEMMA CloseTypes ==
  ASSUME NEW t \in [Fds -> Contents], NEW d
  PROVE  CloseFd(t, d) \in [Fds -> Contents]
  BY DEF CloseFd, Contents

\* What may be in the table, and that an object has one class.
LEMMA MarksAreContents ==
  /\ {"stdout", "stderr", "syslogd", "closed", "dead"} \subseteq Contents
  /\ \A h \in Streams : Target(h) \in Contents
  /\ \A l \in Dsk!Disks, s \in Sinks : FileOf[l][s] \in Contents
  /\ \A l \in Dsk!Disks : l \in Loggers
  /\ \A l \in Consoles \cup Sysloggers : l \in Loggers /\ l \notin Dsk!Disks
  /\ \A l \in Consoles : l \notin Sysloggers
<1>1. \A l \in Dsk!Disks, s \in Sinks : FileOf[l][s] \in Contents
  BY FileOfAssumption DEF Contents, Dsk!Disks
<1>2. \A l \in Dsk!Disks : l \in Loggers
  BY LoggersAssumption DEF Dsk!Disks
<1>3. \A l \in Consoles \cup Sysloggers : l \in Loggers /\ l \notin Dsk!Disks
  BY LoggersAssumption, ClassesAssumption DEF Dsk!Disks
<1>4. \A l \in Consoles : l \notin Sysloggers
  BY ClassesAssumption
<1>5. \A h \in Streams : Target(h) \in Contents
  BY TargetIsPath
<1> QED BY <1>1, <1>2, <1>3, <1>4, <1>5 DEF Contents

\* Runtime's actions, as each class has them.
LEMMA CloseStdTypes ==
  ASSUME SharedTypeOK, NEW l \in Loggers, CloseStd(l)
  PROVE  SharedTypeOK'
<1>1. \A d \in {1, 2} : CloseFd(fds, d) \in [Fds -> Contents]
  BY CloseTypes DEF SharedTypeOK
<1>2. CloseFd(CloseFd(fds, 1), 2) \in [Fds -> Contents]
  BY <1>1, CloseTypes
<1>3. fds' \in [Fds -> Contents]
  BY <1>1, <1>2 DEF CloseStd, SharedTypeOK
<1>4. err' \in [Loggers -> ErrTypes]
  BY DEF CloseStd, SharedTypeOK, ErrTypes
<1> QED BY <1>3, <1>4 DEF CloseStd, SharedTypeOK, ErrTypes

\* Constructed without the bound on the objects beside l.
Made(l, table, e) ==
  /\ proc = "running" /\ err[l] = "none"
  /\ err' = [err EXCEPT ![l] = e]
  /\ ilevel' = [ilevel EXCEPT ![l] = DEFAULT_LEVEL]
  /\ fds' = table
  /\ UNCHANGED proc

\* The same of SetLevel.
Tuned(l, v) ==
  /\ Live(l)
  /\ ilevel' = [ilevel EXCEPT ![l] = v]
  /\ UNCHANGED <<proc, fds, err, reused>>

\* The same of level().
LEMMA TunedTypes ==
  ASSUME SharedTypeOK, NEW l \in Loggers, NEW v \in LevelChoices, Tuned(l, v)
  PROVE  SharedTypeOK'
  BY DEF Tuned, SharedTypeOK

\* The same of destruction.
LEMMA DestroyedTypes ==
  ASSUME SharedTypeOK, NEW l \in Loggers, NEW t \in [Fds -> Contents], Destroyed(l, t)
  PROVE  SharedTypeOK'
  BY DEF Destroyed, SharedTypeOK

\* The same of construction.
LEMMA ConstructedTypes ==
  ASSUME SharedTypeOK, NEW l \in Loggers, NEW t \in [Fds -> Contents],
         NEW e \in ErrTypes, Made(l, t, e), reused' \in BOOLEAN
  PROVE  SharedTypeOK'
  BY DEF Made, SharedTypeOK, ErrTypes

\* The classes' copies of Runtime's actions are Runtime's.
LEMMA SameRuntime ==
  ASSUME NEW l, NEW v, NEW t, NEW e
  PROVE  /\ Con!CloseStd(l) <=> CloseStd(l)
         /\ Dsk!CloseStd(l) <=> CloseStd(l)
         /\ Con!SetLevel(l, v) => Tuned(l, v)
         /\ Dsk!SetLevel(l, v) => Tuned(l, v)
         /\ Sys!SetLevel(l, v) => Tuned(l, v)
         /\ Con!Destroyed(l, t) <=> Destroyed(l, t)
         /\ Dsk!Destroyed(l, t) <=> Destroyed(l, t)
         /\ Sys!Destroyed(l, t) <=> Destroyed(l, t)
         /\ Con!Constructed(l, t, e) => Made(l, t, e)
         /\ Dsk!Constructed(l, t, e) => Made(l, t, e)
         /\ Sys!Constructed(l, t, e) => Made(l, t, e)
<1>1. Con!CloseStd(l) <=> CloseStd(l)
  BY Zenon DEF Con!CloseStd, CloseStd, Con!CloseFd, CloseFd, Con!Live, Live
<1>2. Dsk!CloseStd(l) <=> CloseStd(l)
  BY Zenon DEF Dsk!CloseStd, CloseStd, Dsk!CloseFd, CloseFd, Dsk!Live, Live
<1>3. /\ Con!SetLevel(l, v) => Tuned(l, v)
      /\ Dsk!SetLevel(l, v) => Tuned(l, v)
      /\ Sys!SetLevel(l, v) => Tuned(l, v)
  BY DEF Tuned, Live, Con!SetLevel, Con!Live, Dsk!SetLevel, Dsk!Live, Sys!SetLevel, Sys!Live
<1>4. /\ Con!Destroyed(l, t) <=> Destroyed(l, t)
      /\ Dsk!Destroyed(l, t) <=> Destroyed(l, t)
      /\ Sys!Destroyed(l, t) <=> Destroyed(l, t)
  BY Zenon DEF Destroyed, Con!Destroyed, Dsk!Destroyed, Sys!Destroyed,
     DEFAULT_LEVEL, Con!DEFAULT_LEVEL, Dsk!DEFAULT_LEVEL, Sys!DEFAULT_LEVEL, INFO, Con!INFO, Dsk!INFO, Sys!INFO
<1>5. /\ Con!Constructed(l, t, e) => Made(l, t, e)
      /\ Dsk!Constructed(l, t, e) => Made(l, t, e)
      /\ Sys!Constructed(l, t, e) => Made(l, t, e)
  BY Zenon DEF Made, Con!Constructed, Dsk!Constructed, Sys!Constructed,
     DEFAULT_LEVEL, Con!DEFAULT_LEVEL, Dsk!DEFAULT_LEVEL, Sys!DEFAULT_LEVEL, INFO, Con!INFO, Dsk!INFO, Sys!INFO
<1> QED BY <1>1, <1>2, <1>3, <1>4, <1>5

\* The stream an open with result r makes.
NewStream(r) == [fd |-> r.fd, st |-> IF r.fd = 0 THEN "fail" ELSE "good", kept |-> FALSE]

\* Dsk!Construct(l): o is what opening outs gave and e what opening errs gave.
DskMade(l, o, e) ==
  /\ Opened(fds, Target(<<l, "outs">>), o)
  /\ Opened(o.table, Target(<<l, "errs">>), e)
  /\ Made(l, e.table, IF o.fd # 0 /\ e.fd # 0 THEN "HEALTHY" ELSE "ERR_OPEN")
  /\ stream' = [stream EXCEPT ![l] =
                  [s \in Sinks |-> IF s = "outs" THEN NewStream(o) ELSE NewStream(e)]]
  /\ reused' = (reused \/ {o.fd, e.fd} \cap StdFds # {})

\* Sys!openlog, called by l: the connection is kept, or c is what connecting gave.
SysMade(l, c) ==
  /\ \/ c.table = fds /\ c.fd = slog.fd
     \/ slog.fd = 0 /\ Opened(fds, "syslogd", c)
  /\ Made(l, c.table, "HEALTHY")
  /\ slog' = [owner |-> l, tag |-> <<l, "name">>, fd |-> c.fd]
  /\ text' = l
  /\ reused' = (reused \/ (slog.fd = 0 /\ c.fd \in StdFds))

\* Sys!syslog without a connection.
Reconnected(c) ==
  /\ Opened(CloseFd(fds, slog.fd), "syslogd", c)
  /\ fds' = c.table
  /\ slog' = [slog EXCEPT !.fd = c.fd]
  /\ reused' = (reused \/ c.fd \in StdFds)

\* Construction of a logger on files in these terms.
LEMMA DskMakes ==
  ASSUME NEW l \in Dsk!Disks, Dsk!Construct(l)
  PROVE  \E o, e : DskMade(l, o, e)
<1>1. PICK okO \in BOOLEAN, okE \in BOOLEAN :
        LET o == Dsk!OpenFd(fds, FileOf[l]["outs"], okO)
            e == Dsk!OpenFd(o.table, FileOf[l]["errs"], okE)
            New(r) == [fd |-> r.fd, st |-> IF r.fd = 0 THEN "fail" ELSE "good",
                       kept |-> FALSE]
        IN  /\ Dsk!Constructed(l, e.table,
                       IF o.fd # 0 /\ e.fd # 0 THEN "HEALTHY" ELSE "ERR_OPEN")
            /\ stream' = [stream EXCEPT ![l] = [s \in Dsk!Sinks |->
                            IF s = "outs" THEN New(o) ELSE New(e)]]
            /\ reused' = (reused \/ {o.fd, e.fd} \cap Dsk!StdFds # {})
  BY DEF Dsk!Construct
<1> DEFINE o == OpenFd(fds, FileOf[l]["outs"], okO)
           e == OpenFd(o.table, FileOf[l]["errs"], okE)
<1>2. Dsk!OpenFd(fds, FileOf[l]["outs"], okO) = o /\ Dsk!OpenFd(o.table, FileOf[l]["errs"], okE) = e
  BY SameOpen
<1>3. Opened(fds, Target(<<l, "outs">>), o) /\ Opened(o.table, Target(<<l, "errs">>), e)
  BY OpenResult DEF Target
<1>5. Dsk!Sinks = Sinks /\ Dsk!StdFds = StdFds
  BY DEF Dsk!Sinks, Sinks, Dsk!StdFds, StdFds
<1> DEFINE p == Dsk!OpenFd(fds, FileOf[l]["outs"], okO)
           q == Dsk!OpenFd(p.table, FileOf[l]["errs"], okE)
           New(r) == [fd |-> r.fd, st |-> IF r.fd = 0 THEN "fail" ELSE "good",
                      kept |-> FALSE]
<1>9. /\ Dsk!Constructed(l, q.table,
                       IF p.fd # 0 /\ q.fd # 0 THEN "HEALTHY" ELSE "ERR_OPEN")
      /\ stream' = [stream EXCEPT ![l] = [s \in Dsk!Sinks |->
                            IF s = "outs" THEN New(p) ELSE New(q)]]
      /\ reused' = (reused \/ {p.fd, q.fd} \cap Dsk!StdFds # {})
  BY <1>1, Zenon
<1>10. p = o /\ q = e
  BY <1>2
<1>11. New(p) = NewStream(p) /\ New(q) = NewStream(q)
  BY DEF NewStream
<1> HIDE DEF o, e, p, q, New
<1>6. /\ Dsk!Constructed(l, e.table,
                       IF o.fd # 0 /\ e.fd # 0 THEN "HEALTHY" ELSE "ERR_OPEN")
      /\ stream' = [stream EXCEPT ![l] = [s \in Sinks |->
                            IF s = "outs" THEN NewStream(o) ELSE NewStream(e)]]
      /\ reused' = (reused \/ {o.fd, e.fd} \cap StdFds # {})
  BY <1>9, <1>10, <1>11, <1>5
<1>7. Made(l, e.table, IF o.fd # 0 /\ e.fd # 0 THEN "HEALTHY" ELSE "ERR_OPEN")
  BY <1>6, SameRuntime
<1>8. DskMade(l, o, e)
  BY <1>3, <1>6, <1>7 DEF DskMade
<1> QED BY <1>8

\* Construction of a syslog logger.
LEMMA SysMakes ==
  ASSUME NEW l \in Sysloggers, Sys!Syslogger(l)
  PROVE  /\ \E c : SysMade(l, c)
         /\ UNCHANGED up
<1> DEFINE c == IF slog.fd = 0 /\ "NoDelay" \in Options[l] THEN OpenFd(fds, "syslogd", up)
                ELSE [table |-> fds, fd |-> slog.fd]
           d == IF slog.fd = 0 /\ "NoDelay" \in Options[l] THEN Sys!OpenFd(fds, "syslogd", up)
                ELSE [table |-> fds, fd |-> slog.fd]
<1>1. c = d
  BY SameOpen
<1>2. \/ c.table = fds /\ c.fd = slog.fd
      \/ slog.fd = 0 /\ Opened(fds, "syslogd", c)
  BY OpenResult
<1>3. /\ Sys!Constructed(l, d.table, "HEALTHY")
      /\ slog' = [owner |-> l, tag |-> <<l, "name">>, fd |-> d.fd]
      /\ text' = l
      /\ reused' = (reused \/ (slog.fd = 0 /\ d.fd \in StdFds))
  BY DEF Sys!Syslogger, Sys!openlog, Sys!Connected, Sys!StdFds, StdFds
<1> HIDE DEF c, d
<1>4. SysMade(l, c)
  BY <1>1, <1>2, <1>3, SameRuntime DEF SysMade
<1> QED BY <1>4 DEF Sys!Syslogger

\* A message to syslog: the connection is used, or made once more.
LEMMA SysLogs ==
  ASSUME NEW l, SysLog(l)
  PROVE  /\ proc = "running" /\ proc' \in {"running", "exiting"} /\ UNCHANGED <<err, ilevel, up>>
         /\ text' \in {text, "garbage"}
         /\ \/ UNCHANGED <<fds, slog, reused>>
            \/ \E c : Reconnected(c)
<1> DEFINE c == OpenFd(CloseFd(fds, slog.fd), "syslogd", up)
           d == Sys!OpenFd(Sys!CloseFd(fds, slog.fd), "syslogd", up)
<1>1. c = d
  BY SameOpen, SameClose
<1>2. Opened(CloseFd(fds, slog.fd), "syslogd", c)
  BY OpenResult
<1>3. \/ UNCHANGED <<fds, slog, reused>>
      \/ /\ fds' = d.table
         /\ slog' = [slog EXCEPT !.fd = d.fd]
         /\ reused' = (reused \/ d.fd \in StdFds)
  BY DEF SysLog, Sys!Log, Sys!syslog, Sys!Connected, Sys!StdFds, StdFds
<1> HIDE DEF c, d
<1>4. UNCHANGED <<fds, slog, reused>> \/ Reconnected(c)
  BY <1>1, <1>2, <1>3 DEF Reconnected
<1>5. proc = "running" /\ proc' \in {"running", "exiting"} /\ UNCHANGED <<err, ilevel, up>>
  BY DEF SysLog, Touch, Sys!Log
<1>6. text' \in {text, "garbage"}
  BY DEF SysLog, Sys!Log, Sys!Spelled
<1> QED BY <1>4, <1>5, <1>6

-----------------------------------------------------------------------------
(* Types *)

\* The values of one stream, and of the C library's state.
StreamRec == [fd : 0..NFds, st : {"good", "fail", "bad"}, kept : BOOLEAN]
SlogRec == [owner : Sysloggers \cup {"none"}, tag : Sys!Strings \cup {Sys!Null},
            fd : 0..NFds]
Texts == Sysloggers \cup {"progname", "garbage"}

\* TypeOK in the names of Process.
Parts ==
  /\ SharedTypeOK
  /\ console \in [Sinks -> {"good", "bad"}]
  /\ stream \in [Dsk!Disks -> [Sinks -> StreamRec]]
  /\ slog \in SlogRec
  /\ text \in Texts
  /\ up \in BOOLEAN

\* It is the same formula, before and after a step.
LEMMA TypeParts == (TypeOK <=> Parts) /\ (TypeOK' <=> Parts')
  BY DEF Parts, TypeOK, Con!TypeOK, Dsk!TypeOK, Sys!TypeOK, Con!Sinks, Dsk!Sinks, Sinks,
     StreamRec, SlogRec, Texts

\* The steps of each class keep the types.
LEMMA ConTypes ==
  ASSUME TypeOK, Con!Next, UNCHANGED <<stream, slog, text, up>>
  PROVE  TypeOK'
<1>1. Parts /\ SharedTypeOK /\ console \in [Sinks -> {"good", "bad"}]
  BY TypeParts DEF Parts
<1> SUFFICES SharedTypeOK' /\ console' \in [Sinks -> {"good", "bad"}]
  BY <1>1, TypeParts DEF Parts
<1>2. PICK l \in Consoles :
        \/ Con!ConsoleLogger(l)
        \/ ConLog(l)
        \/ \E v \in LevelChoices : Con!level(l, v)
        \/ Con!close(l)
        \/ Con!Destroy(l)
  BY ConSteps
<1>3. l \in Loggers /\ fds \in [Fds -> Contents] /\ reused \in BOOLEAN
  BY <1>1, MarksAreContents DEF SharedTypeOK
<1>4. CASE Con!ConsoleLogger(l)
  <2>1. Made(l, fds, "HEALTHY") /\ UNCHANGED <<console, reused>>
    BY <1>4, SameRuntime DEF Con!ConsoleLogger
  <2>2. "HEALTHY" \in ErrTypes
    BY DEF ErrTypes
  <2>3. SharedTypeOK'
    BY <1>1, <1>3, <2>1, <2>2, ConstructedTypes
  <2> QED BY <1>1, <2>1, <2>3
<1>5. CASE ConLog(l)
  <2>1. SharedTypeOK'
    BY <1>1, <1>5 DEF ConLog, Touch, Con!write_log, SharedTypeOK
  <2>2. console' \in [Sinks -> {"good", "bad"}]
    BY <1>1, <1>5 DEF ConLog, Con!write_log
  <2> QED BY <2>1, <2>2
<1>6. CASE \E v \in LevelChoices : Con!level(l, v)
  <2>1. PICK v \in LevelChoices : Tuned(l, v) /\ UNCHANGED console
    BY <1>6, SameRuntime DEF Con!level
  <2>2. SharedTypeOK'
    BY <1>1, <1>3, <2>1, TunedTypes
  <2> QED BY <1>1, <2>1, <2>2
<1>7. CASE Con!close(l)
  <2>1. CloseStd(l) /\ UNCHANGED console
    BY <1>7, SameRuntime DEF Con!close
  <2>2. SharedTypeOK'
    BY <1>1, <1>3, <2>1, CloseStdTypes
  <2> QED BY <1>1, <2>1, <2>2
<1>8. CASE Con!Destroy(l)
  <2>1. Destroyed(l, fds) /\ UNCHANGED console
    BY <1>8, SameRuntime DEF Con!Destroy
  <2>2. SharedTypeOK'
    BY <1>1, <1>3, <2>1, DestroyedTypes
  <2> QED BY <1>1, <2>1, <2>2
<1> QED BY <1>2, <1>4, <1>5, <1>6, <1>7, <1>8

\* The same of loggers on files.
LEMMA DskTypes ==
  ASSUME TypeOK, Dsk!Next, UNCHANGED <<console, slog, text, up>>
  PROVE  TypeOK'
<1>1. Parts /\ SharedTypeOK /\ stream \in [Dsk!Disks -> [Sinks -> StreamRec]]
  BY TypeParts DEF Parts
<1> SUFFICES SharedTypeOK' /\ stream' \in [Dsk!Disks -> [Sinks -> StreamRec]]
  BY <1>1, TypeParts DEF Parts
<1>2. PICK l \in Dsk!Disks :
        \/ Dsk!Construct(l)
        \/ DskLog(l)
        \/ \E v \in LevelChoices : Dsk!level(l, v)
        \/ Dsk!close(l)
        \/ Dsk!Destroy(l)
  BY DskSteps
<1>3. l \in Loggers /\ fds \in [Fds -> Contents] /\ reused \in BOOLEAN
  BY <1>1, MarksAreContents DEF SharedTypeOK
<1>4. CASE Dsk!Construct(l)
  <2>1. PICK o, e : DskMade(l, o, e)
    BY <1>4, DskMakes
  <2>2. "outs" \in Sinks /\ "errs" \in Sinks
    BY DEF Sinks
  <2>3. Target(<<l, "outs">>) \in Contents /\ Target(<<l, "errs">>) \in Contents
    BY <2>2, MarksAreContents DEF Streams
  <2>4. o.table \in [Fds -> Contents] /\ o.fd \in 0..NFds
    BY <1>3, <2>1, <2>3, OpenTypes DEF DskMade
  <2>5. e.table \in [Fds -> Contents] /\ e.fd \in 0..NFds
    BY <2>1, <2>3, <2>4, OpenTypes DEF DskMade
  <2>6. NewStream(o) \in StreamRec /\ NewStream(e) \in StreamRec
    BY <2>4, <2>5 DEF NewStream, StreamRec
  <2>7. stream' \in [Dsk!Disks -> [Sinks -> StreamRec]]
    BY <1>1, <2>1, <2>6 DEF DskMade
  <2>8. (IF o.fd # 0 /\ e.fd # 0 THEN "HEALTHY" ELSE "ERR_OPEN") \in ErrTypes
    BY DEF ErrTypes
  <2>9. reused' \in BOOLEAN
    BY <1>3, <2>1 DEF DskMade
  <2>10. SharedTypeOK'
    BY <1>1, <1>3, <2>1, <2>5, <2>8, <2>9, ConstructedTypes DEF DskMade
  <2> QED BY <2>7, <2>10
<1>5. CASE DskLog(l)
  <2>1. PICK s \in Sinks : Dsk!Write(l, s)
    BY <1>5 DEF DskLog
  <2>2. stream' \in [Dsk!Disks -> [Sinks -> StreamRec]]
    <3> DEFINE a == [stream EXCEPT ![l][s].st = "bad"]
    <3>1. a \in [Dsk!Disks -> [Sinks -> StreamRec]]
      BY <1>1 DEF StreamRec
    <3>2. [a EXCEPT ![l][s].kept = TRUE] \in [Dsk!Disks -> [Sinks -> StreamRec]]
      <4> HIDE DEF a
      <4> DEFINE c == a[l][s]
                 b == [c EXCEPT !.kept = TRUE]
      <4>1. c \in StreamRec
        BY <3>1
      <4>3. b \in StreamRec
        <5> HIDE DEF c
        <5> QED BY <4>1 DEF StreamRec
      <4>2. [a EXCEPT ![l][s].kept = TRUE] = [a EXCEPT ![l][s] = b]
        OBVIOUS
      <4> HIDE DEF b
      <4> QED BY <3>1, <4>3, <4>2
    <3>3. stream' = stream \/ stream' = [a EXCEPT ![l][s].kept = TRUE]
      BY <2>1 DEF Dsk!Write
    <3> QED BY <1>1, <3>2, <3>3
  <2>3. err' \in [Loggers -> ErrTypes]
    BY <1>1, <2>1 DEF Dsk!Write, Dsk!set_err, SharedTypeOK, ErrTypes
  <2>4. proc' \in {"running", "exiting"} /\ UNCHANGED <<fds, ilevel, reused>>
    BY <1>5, <2>1 DEF DskLog, Touch, Dsk!Write
  <2> QED BY <1>1, <2>2, <2>3, <2>4 DEF SharedTypeOK, ErrTypes
<1>6. CASE \E v \in LevelChoices : Dsk!level(l, v)
  <2>1. PICK v \in LevelChoices : Tuned(l, v) /\ UNCHANGED stream
    BY <1>6, SameRuntime DEF Dsk!level
  <2>2. SharedTypeOK'
    BY <1>1, <1>3, <2>1, TunedTypes
  <2> QED BY <1>1, <2>1, <2>2
<1>7. CASE Dsk!close(l)
  <2>1. CloseStd(l) /\ UNCHANGED stream
    BY <1>7, SameRuntime DEF Dsk!close
  <2>2. SharedTypeOK'
    BY <1>1, <1>3, <2>1, CloseStdTypes
  <2> QED BY <1>1, <2>1, <2>2
<1>8. CASE Dsk!Destroy(l)
  <2> DEFINE t == CloseFd(CloseFd(fds, stream[l]["errs"].fd), stream[l]["outs"].fd)
  <2>1. /\ Destroyed(l, t)
        /\ stream' = [stream EXCEPT ![l] = [s \in Sinks |-> Dsk!Unopened]]
    BY <1>8, SameRuntime, SameClose DEF Dsk!Destroy, Dsk!Sinks, Sinks
  <2>2. t \in [Fds -> Contents]
    BY <1>3, CloseTypes
  <2>3. Dsk!Unopened \in StreamRec
    BY NFdsAssumption DEF Dsk!Unopened, StreamRec
  <2> HIDE DEF t
  <2>4. SharedTypeOK'
    BY <1>1, <1>3, <2>1, <2>2, DestroyedTypes
  <2>5. stream' \in [Dsk!Disks -> [Sinks -> StreamRec]]
    BY <1>1, <2>1, <2>3
  <2> QED BY <2>4, <2>5
<1> QED BY <1>2, <1>4, <1>5, <1>6, <1>7, <1>8

\* The same of syslog loggers and the daemon.
LEMMA SysTypes ==
  ASSUME TypeOK, Sys!Next, UNCHANGED <<console, stream>>
  PROVE  TypeOK'
<1>1. Parts /\ SharedTypeOK /\ slog \in SlogRec /\ text \in Texts /\ up \in BOOLEAN
  BY TypeParts DEF Parts
<1> SUFFICES SharedTypeOK' /\ slog' \in SlogRec /\ text' \in Texts /\ up' \in BOOLEAN
  BY <1>1, TypeParts DEF Parts
<1>2. fds \in [Fds -> Contents] /\ reused \in BOOLEAN /\ slog.fd \in 0..NFds
      /\ "syslogd" \in Contents
  BY <1>1, MarksAreContents DEF SharedTypeOK, SlogRec
<1>3. ASSUME NEW l \in Sysloggers,
             \/ Sys!Syslogger(l)
             \/ SysLog(l)
             \/ \E v \in LevelChoices : Sys!level(l, v)
             \/ Sys!close(l)
             \/ Sys!Destroy(l)
      PROVE  SharedTypeOK' /\ slog' \in SlogRec /\ text' \in Texts /\ up' \in BOOLEAN
  <2>1. l \in Loggers
    BY MarksAreContents
  <2>2. CASE Sys!Syslogger(l)
    <3>1. PICK c : SysMade(l, c)
      BY <2>2, SysMakes
    <3>2. c.table \in [Fds -> Contents] /\ c.fd \in 0..NFds
      BY <1>2, <3>1, OpenTypes DEF SysMade
    <3>3. reused' \in BOOLEAN /\ Made(l, c.table, "HEALTHY")
      BY <1>2, <3>1 DEF SysMade
    <3>4. "HEALTHY" \in ErrTypes
      BY DEF ErrTypes
    <3>5. SharedTypeOK'
      BY <1>1, <2>1, <3>2, <3>3, <3>4, ConstructedTypes
    <3>6. slog' \in SlogRec
      BY <3>1, <3>2 DEF SysMade, SlogRec, Sys!Strings
    <3>7. text' \in Texts
      BY <3>1 DEF SysMade, Texts
    <3> QED BY <1>1, <2>2, <3>5, <3>6, <3>7, SysMakes
  <2>3. CASE SysLog(l)
    <3>1. /\ proc' \in {"running", "exiting"} /\ UNCHANGED <<err, ilevel, up>>
          /\ UNCHANGED <<fds, slog, reused>> \/ \E c : Reconnected(c)
      BY <2>3, SysLogs
    <3>4. text' \in Texts
      BY <1>1, <2>3, SysLogs DEF Texts
    <3>2. CASE UNCHANGED <<fds, slog, reused>>
      BY <1>1, <3>1, <3>2, <3>4 DEF SharedTypeOK
    <3>3. CASE \E c : Reconnected(c)
      <4>1. PICK c : Reconnected(c)
        BY <3>3
      <4>2. CloseFd(fds, slog.fd) \in [Fds -> Contents]
        BY <1>2, CloseTypes
      <4>3. c.table \in [Fds -> Contents] /\ c.fd \in 0..NFds
        BY <1>2, <4>1, <4>2, OpenTypes DEF Reconnected
      <4>4. slog' \in SlogRec
        BY <1>1, <4>1, <4>3 DEF Reconnected, SlogRec
      <4>5. fds' \in [Fds -> Contents] /\ reused' \in BOOLEAN
        BY <1>2, <4>1, <4>3 DEF Reconnected
      <4> QED BY <1>1, <3>1, <3>4, <4>4, <4>5 DEF SharedTypeOK
    <3> QED BY <3>1, <3>2, <3>3
  <2>4. CASE \E v \in LevelChoices : Sys!level(l, v)
    <3>1. PICK v \in LevelChoices : Tuned(l, v) /\ UNCHANGED <<slog, text, up>>
      BY <2>4, SameRuntime DEF Sys!level
    <3>2. SharedTypeOK'
      BY <1>1, <2>1, <3>1, TunedTypes
    <3> QED BY <1>1, <3>1, <3>2
  <2>5. CASE Sys!close(l)
    <3>1. /\ fds' = CloseFd(fds, slog.fd)
          /\ slog' = [slog EXCEPT !.tag = Sys!Null, !.fd = 0] /\ text' = "progname"
          /\ err' = [err EXCEPT ![l] = "ERR_CLOSED"]
          /\ UNCHANGED <<proc, ilevel, reused, up>>
      BY <2>5, SameClose DEF Sys!close, Sys!closelog
    <3>2. fds' \in [Fds -> Contents]
      BY <1>2, <3>1, CloseTypes
    <3>3. err' \in [Loggers -> ErrTypes]
      BY <1>1, <3>1 DEF SharedTypeOK, ErrTypes
    <3>4. slog' \in SlogRec
      <4> DEFINE a == [slog EXCEPT !.tag = Sys!Null]
      <4>1. a \in SlogRec
        BY <1>1 DEF SlogRec
      <4>2. [a EXCEPT !.fd = 0] \in SlogRec
        <5> HIDE DEF a
        <5> QED BY <4>1, NFdsAssumption DEF SlogRec
      <4>3. slog' = [a EXCEPT !.fd = 0]
        BY <3>1
      <4> QED BY <4>2, <4>3
    <3> QED BY <1>1, <3>1, <3>2, <3>3, <3>4 DEF SharedTypeOK, ErrTypes, Texts
  <2>6. CASE Sys!Destroy(l)
    <3>1. Destroyed(l, fds) /\ UNCHANGED <<slog, text, up>>
      BY <2>6, SameRuntime DEF Sys!Destroy
    <3>2. SharedTypeOK'
      BY <1>1, <1>2, <2>1, <3>1, DestroyedTypes
    <3> QED BY <1>1, <3>1, <3>2
  <2> QED BY <1>3, <2>2, <2>3, <2>4, <2>5, <2>6
<1>4. CASE Sys!Daemon
  <2>1. fds' \in [Fds -> Contents]
    BY <1>2, <1>4, MarksAreContents DEF Sys!Daemon, Sys!Fds, Fds
  <2>2. up' \in BOOLEAN /\ UNCHANGED <<proc, err, ilevel, reused, slog, text>>
    BY <1>1, <1>4 DEF Sys!Daemon
  <2> QED BY <1>1, <2>1, <2>2 DEF SharedTypeOK
<1> QED BY <1>3, <1>4, SysSteps

\* The types hold at the start.
LEMMA TypeInit == Init => TypeOK
<1> SUFFICES ASSUME Init PROVE Parts
  BY TypeParts
<1>1. {"stdout", "stderr", "closed"} \subseteq Contents
  BY MarksAreContents
<1>2. SharedTypeOK
  BY <1>1 DEF Init, SharedInit, SharedTypeOK
<1>3. console \in [Sinks -> {"good", "bad"}]
  BY DEF Init, Con!Init, Con!Sinks, Sinks
<1>4. stream \in [Dsk!Disks -> [Sinks -> StreamRec]]
  <2>1. Dsk!Unopened \in StreamRec
    BY NFdsAssumption DEF Dsk!Unopened, StreamRec
  <2> QED BY <2>1 DEF Init, Dsk!Init, Dsk!Sinks, Sinks
<1>5. slog \in SlogRec /\ text \in Texts /\ up \in BOOLEAN
  BY NFdsAssumption DEF Init, Sys!Init, SlogRec, Texts
<1> QED BY <1>2, <1>3, <1>4, <1>5 DEF Parts

\* TypeOK is inductive.
LEMMA TypeStep == TypeOK /\ [Next]_vars => TypeOK'
<1> SUFFICES ASSUME TypeOK, [Next]_vars PROVE TypeOK'
  OBVIOUS
<1>1. Parts
  BY TypeParts
<1>2. CASE Con!Next /\ UNCHANGED <<stream, slog, text, up>>
  BY <1>2, ConTypes
<1>3. CASE Dsk!Next /\ UNCHANGED <<console, slog, text, up>>
  BY <1>3, DskTypes
<1>4. CASE Sys!Next /\ UNCHANGED <<console, stream>>
  BY <1>4, SysTypes
<1>5. CASE (LoseStd \/ Return) /\ UNCHANGED <<console, stream, slog, text, up>>
  <2>1. \A d : CloseFd(fds, d) \in [Fds -> Contents]
    BY <1>1, CloseTypes DEF Parts, SharedTypeOK
  <2>2. SharedTypeOK'
    BY <1>1, <1>5, <2>1 DEF Parts, SharedTypeOK, LoseStd, Return
  <2>3. Parts'
    BY <1>1, <1>5, <2>2 DEF Parts
  <2> QED BY <2>3, TypeParts
<1>6. CASE Restart
  <2>1. {"stdout", "stderr", "closed"} \subseteq Contents
    BY MarksAreContents
  <2>2. SharedTypeOK'
    BY <1>6, <2>1 DEF SharedTypeOK, Restart
  <2>3. Dsk!Unopened \in StreamRec
    BY NFdsAssumption DEF Dsk!Unopened, StreamRec
  <2>4. stream' \in [Dsk!Disks -> [Sinks -> StreamRec]]
    BY <1>6, <2>3 DEF Restart
  <2>5. slog' \in SlogRec
    BY <1>6, NFdsAssumption DEF Restart, SlogRec
  <2>6. up' \in BOOLEAN /\ text' \in Texts /\ console' \in [Sinks -> {"good", "bad"}]
    BY <1>1, <1>6 DEF Restart, Parts, Texts
  <2>7. Parts'
    BY <2>2, <2>4, <2>5, <2>6 DEF Parts
  <2> QED BY <2>7, TypeParts
<1>7. CASE UNCHANGED vars
  <2>1. Parts'
    BY <1>1, <1>7 DEF vars, shared, Parts, SharedTypeOK
  <2> QED BY <2>1, TypeParts
<1> QED BY <1>2, <1>3, <1>4, <1>5, <1>6, <1>7 DEF Next

\* The variables keep their types for any loggers, files and number of
\* descriptors: no logger has an error code but the five the code assigns, and
\* nothing is opened beyond the table.
THEOREM TypeCorrect == Spec => []TypeOK
  BY TypeInit, TypeStep, PTL DEF Spec

-----------------------------------------------------------------------------
(* Ownership *)

\* The number each stream has.
Nums == [h \in Streams |-> stream[h[1]][h[2]].fd]

\* A logger that was destroyed, or not constructed yet, has no number.
NoObject ==
  \A l \in Dsk!Disks : err[l] = "none" => \A s \in Sinks : stream[l][s].fd = 0

\* The invariant behind OwnedAbove2.
OwnInv == TypeOK /\ NoObject /\ Owned(fds, Nums, slog.fd)

\* The two sinks.
LEMMA SinkNames == "outs" \in Sinks /\ "errs" \in Sinks /\ Sinks = {"outs", "errs"}
  BY DEF Sinks

\* Numbers do not change when no fd does.
LEMMA NumsSame ==
  ASSUME TypeOK,
         \A l \in Dsk!Disks, s \in Sinks : stream'[l][s].fd = stream[l][s].fd
  PROVE  Nums' = Nums
  BY DEF Nums, Streams

\* The streams of l become a and b.
Replaced(l, a, b) ==
  stream' = [stream EXCEPT ![l] = [s \in Sinks |-> IF s = "outs" THEN a ELSE b]]

\* Where the numbers of a logger are in Nums.
LEMMA NumsAt ==
  ASSUME NEW l \in Dsk!Disks
  PROVE  /\ <<l, "outs">> \in Streams /\ <<l, "errs">> \in Streams
         /\ <<l, "outs">> # <<l, "errs">>
         /\ Nums[<<l, "outs">>] = stream[l]["outs"].fd
         /\ Nums[<<l, "errs">>] = stream[l]["errs"].fd
  BY SinkNames DEF Streams, Nums

\* The numbers after both streams of a logger were replaced.
LEMMA NumsMade ==
  ASSUME TypeOK, NEW l \in Dsk!Disks, NEW a, NEW b, Replaced(l, a, b)
  PROVE  Nums' = [[Nums EXCEPT ![<<l, "outs">>] = a.fd] EXCEPT ![<<l, "errs">>] = b.fd]
<1>1. stream \in [Dsk!Disks -> [Sinks -> StreamRec]]
  BY TypeParts DEF Parts
<1>2. stream' = [stream EXCEPT ![l] = [s \in Sinks |-> IF s = "outs" THEN a ELSE b]]
  BY DEF Replaced
<1> DEFINE G == [[Nums EXCEPT ![<<l, "outs">>] = a.fd] EXCEPT ![<<l, "errs">>] = b.fd]
<1>4. ASSUME NEW h \in Streams PROVE stream'[h[1]][h[2]].fd = G[h]
  <2>1. PICK k \in Dsk!Disks, s \in Sinks : h = <<k, s>>
    BY DEF Streams
  <2>2. CASE k # l
    <3>1. h # <<l, "outs">> /\ h # <<l, "errs">>
      BY <2>1, <2>2
    <3>2. G[h] = Nums[h]
      BY <3>1 DEF Nums
    <3>3. stream'[k] = stream[k]
      BY <1>1, <1>2, <2>2
    <3> QED BY <2>1, <3>2, <3>3 DEF Nums
  <2>3. CASE k = l /\ s = "outs"
    <3>1. h = <<l, "outs">> /\ h # <<l, "errs">>
      BY <2>1, <2>3
    <3>2. G[h] = a.fd
      BY <3>1 DEF Nums
    <3>3. stream'[k][s] = a
      BY <1>1, <1>2, <2>3
    <3> QED BY <2>1, <3>2, <3>3
  <2>4. CASE k = l /\ s = "errs"
    <3>1. h = <<l, "errs">>
      BY <2>1, <2>4
    <3>2. G[h] = b.fd
      BY <3>1 DEF Nums
    <3>3. stream'[k][s] = b
      BY <1>1, <1>2, <2>4
    <3> QED BY <2>1, <3>2, <3>3
  <2> QED BY <2>2, <2>3, <2>4, SinkNames
<1>5. G = [h \in Streams |-> G[h]]
  BY DEF Nums
<1>6. Nums' = [h \in Streams |-> stream'[h[1]][h[2]].fd]
  BY DEF Nums
<1>7. Nums' = G
  <2> HIDE DEF G
  <2> QED BY <1>4, <1>5, <1>6
<1> QED BY <1>7

\* Write changes no number.
LEMMA WriteNums ==
  ASSUME TypeOK, NEW l \in Dsk!Disks, DskLog(l)
  PROVE  /\ Nums' = Nums
         /\ \A k \in Dsk!Disks, s \in Sinks : stream'[k][s].fd = stream[k][s].fd
         /\ \A k \in Loggers : err'[k] = "none" <=> err[k] = "none"
         /\ \A k \in Loggers : err'[k] = "ERR_CLOSED" => err[k] = "ERR_CLOSED"
         /\ UNCHANGED <<fds, reused>>
<1>1. stream \in [Dsk!Disks -> [Sinks -> StreamRec]] /\ err \in [Loggers -> ErrTypes]
  BY TypeParts DEF Parts, SharedTypeOK, ErrTypes
<1>2. PICK s \in Sinks : Dsk!Write(l, s)
  BY DEF DskLog
<1>3. \/ stream' = stream
      \/ stream' = [stream EXCEPT ![l][s].st = "bad", ![l][s].kept = TRUE]
  BY <1>2 DEF Dsk!Write
<1>4. ASSUME NEW k \in Dsk!Disks, NEW r \in Sinks
      PROVE  stream'[k][r].fd = stream[k][r].fd
  <2> DEFINE a == [stream EXCEPT ![l][s].st = "bad"]
             b == [a EXCEPT ![l][s].kept = TRUE]
  <2>1. a \in [Dsk!Disks -> [Sinks -> StreamRec]]
    BY <1>1, SMTT(60) DEF StreamRec
  <2>4. a[k][r].fd = stream[k][r].fd
    <3> DEFINE c == stream[l][s]
               d == [c EXCEPT !.st = "bad"]
    <3>1. a = [stream EXCEPT ![l][s] = d]
      OBVIOUS
    <3>2. c \in StreamRec
      BY <1>1
    <3>3. d.fd = c.fd
      <4> HIDE DEF c
      <4> QED BY <3>2 DEF StreamRec
    <3> HIDE DEF d, a
    <3> QED BY <1>1, <3>1, <3>3
  <2>2. b[k][r].fd = a[k][r].fd
    <3> HIDE DEF a
    <3> QED BY <2>1 DEF StreamRec
  <2>3. stream' = stream \/ stream' = b
    BY <1>3
  <2> QED BY <2>2, <2>3, <2>4
<1>5. Nums' = Nums
  BY <1>4, NumsSame
<1>6. err[l] # "none" /\ l \in Loggers
  BY MarksAreContents DEF DskLog, Touch
<1>7. /\ \A k \in Loggers : err'[k] = "none" <=> err[k] = "none"
      /\ \A k \in Loggers : err'[k] = "ERR_CLOSED" => err[k] = "ERR_CLOSED"
  BY <1>1, <1>2, <1>6 DEF Dsk!Write, Dsk!set_err
<1> QED BY <1>2, <1>4, <1>5, <1>7 DEF Dsk!Write

\* What is below or at 2 may change.
LEMMA OwnKept ==
  ASSUME OwnInv, TypeOK',
         \A l \in Dsk!Disks, s \in Sinks : stream'[l][s].fd = stream[l][s].fd,
         slog'.fd = slog.fd,
         \A d \in Above2 : fds'[d] = fds[d],
         \A l \in Dsk!Disks : err'[l] = "none" => err[l] = "none"
  PROVE  OwnInv'
<1>1. Nums' = Nums
  BY NumsSame DEF OwnInv
<1>2. fds' \in [Fds -> Contents]
  BY TypeParts DEF Parts, SharedTypeOK
<1>3. Owned(fds', Nums, slog.fd)
  BY <1>2, OwnedStd DEF OwnInv
<1>4. Owned(fds, Nums, slog.fd)'
  BY <1>1, <1>3
<1>5. NoObject'
  BY DEF NoObject, OwnInv
<1> QED BY <1>4, <1>5 DEF OwnInv

\* close() of a logger touches 1 and 2 only.
LEMMA CloseStdAbove2 ==
  ASSUME TypeOK, NEW l, CloseStd(l)
  PROVE  /\ \A d \in Above2 : fds'[d] = fds[d]
         /\ \A k \in Loggers : k # l => err'[k] = err[k]
         /\ err'[l] # "none" \/ l \notin Loggers
<1>1. fds \in [Fds -> Contents] /\ err \in [Loggers -> ErrTypes]
  BY TypeParts DEF Parts, SharedTypeOK, ErrTypes
<1>2. \A d \in Above2 : d \in Fds /\ d # 1 /\ d # 2
  BY DEF Above2, StdFds
<1> QED
  BY <1>1, <1>2 DEF CloseStd, CloseFd

\* Console loggers have no numbers.
LEMMA ConOwn ==
  ASSUME OwnInv, TypeOK', Con!Next, UNCHANGED <<stream, slog, text, up>>
  PROVE  OwnInv'
<1>1. TypeOK /\ err \in [Loggers -> ErrTypes]
  BY TypeParts DEF Parts, SharedTypeOK, ErrTypes, OwnInv
<1>2. PICK l \in Consoles :
        \/ Con!ConsoleLogger(l)
        \/ ConLog(l)
        \/ \E v \in LevelChoices : Con!level(l, v)
        \/ Con!close(l)
        \/ Con!Destroy(l)
  BY ConSteps
<1>3. l \in Loggers /\ \A k \in Dsk!Disks : k \in Loggers /\ k # l
  BY MarksAreContents
<1>4. CASE CloseStd(l)
  <2>1. \A d \in Above2 : fds'[d] = fds[d]
    BY <1>1, <1>4, CloseStdAbove2
  <2>2. \A k \in Dsk!Disks : err'[k] = "none" => err[k] = "none"
    BY <1>1, <1>3, <1>4, CloseStdAbove2
  <2> QED BY <2>1, <2>2, OwnKept
<1>5. CASE fds' = fds /\ \A k \in Dsk!Disks : err'[k] = err[k]
  BY <1>5, OwnKept
<1>6. Con!ConsoleLogger(l) => fds' = fds /\ \A k \in Dsk!Disks : err'[k] = err[k]
  <2> SUFFICES ASSUME Con!ConsoleLogger(l)
               PROVE  fds' = fds /\ \A k \in Dsk!Disks : err'[k] = err[k]
    OBVIOUS
  <2>1. Made(l, fds, "HEALTHY")
    BY SameRuntime DEF Con!ConsoleLogger
  <2> QED BY <1>1, <1>3, <2>1 DEF Made
<1>7. ConLog(l) => fds' = fds /\ \A k \in Dsk!Disks : err'[k] = err[k]
  BY DEF ConLog, Con!write_log
<1>8. (\E v \in LevelChoices : Con!level(l, v)) => fds' = fds /\ \A k \in Dsk!Disks : err'[k] = err[k]
  BY SameRuntime DEF Con!level, Tuned
<1>9. Con!close(l) => CloseStd(l)
  BY SameRuntime DEF Con!close
<1>10. Con!Destroy(l) => fds' = fds /\ \A k \in Dsk!Disks : err'[k] = err[k]
  BY <1>1, <1>3, SameRuntime DEF Con!Destroy, Destroyed
<1> QED BY <1>2, <1>4, <1>5, <1>6, <1>7, <1>8, <1>9, <1>10

\* The constructor opens outs, then errs; each may fail.
LEMMA MadeOwn ==
  ASSUME OwnInv, TypeOK', NEW l \in Dsk!Disks, NEW o, NEW e, DskMade(l, o, e), slog' = slog
  PROVE  OwnInv'
<1> DEFINE h == <<l, "outs">>
           k == <<l, "errs">>
           F == [Nums EXCEPT ![h] = o.fd]
           G == [F EXCEPT ![k] = e.fd]
<1>1. TypeOK /\ NoObject /\ Owned(fds, Nums, slog.fd) /\ err \in [Loggers -> ErrTypes]
  BY TypeParts DEF Parts, SharedTypeOK, ErrTypes, OwnInv
<1>2. /\ Opened(fds, Target(h), o)
      /\ Opened(o.table, Target(k), e)
      /\ Made(l, e.table, IF o.fd # 0 /\ e.fd # 0 THEN "HEALTHY" ELSE "ERR_OPEN")
      /\ stream' = [stream EXCEPT ![l] =
                      [s \in Sinks |-> IF s = "outs" THEN NewStream(o) ELSE NewStream(e)]]
  BY DEF DskMade
<1>3. err[l] = "none" /\ fds' = e.table
  BY <1>2 DEF Made
<1>4. /\ h \in Streams /\ k \in Streams
      /\ Nums[h] = stream[l]["outs"].fd /\ Nums[k] = stream[l]["errs"].fd
  BY NumsAt
<1>12. Nums' = [[Nums EXCEPT ![h] = NewStream(o).fd] EXCEPT ![k] = NewStream(e).fd]
  BY <1>1, <1>2, NumsMade DEF Replaced
<1>5. Nums[h] = 0 /\ Nums[k] = 0 /\ h # k
  BY <1>1, <1>3, <1>4, SinkNames DEF NoObject
<1>6. Nums' = G
  <2>1. NewStream(o).fd = o.fd /\ NewStream(e).fd = e.fd
    BY DEF NewStream
  <2> HIDE DEF h, k
  <2> QED BY <1>12, <2>1
<1> HIDE DEF h, k
<1>7. Owned(o.table, F, slog.fd)
  BY <1>1, <1>2, <1>4, <1>5, OwnedOpen
<1>8. F[k] = 0
  BY <1>4, <1>5, <1>1 DEF Owned
<1> HIDE DEF F
<1>9. Owned(e.table, G, slog.fd)
  BY <1>2, <1>4, <1>7, <1>8, OwnedOpen
<1> HIDE DEF G
<1>10. Owned(fds, Nums, slog.fd)'
  BY <1>3, <1>6, <1>9
<1>11. NoObject'
  <2>1. err'[l] # "none" /\ \A m \in Dsk!Disks : m # l => err'[m] = err[m]
    BY <1>1, <1>2, MarksAreContents DEF Made
  <2>2. \A m \in Dsk!Disks : m # l => stream'[m] = stream[m]
    BY <1>1, <1>2, TypeParts DEF Parts
  <2> QED BY <1>1, <2>1, <2>2 DEF NoObject
<1> QED BY <1>10, <1>11 DEF OwnInv

\* The destructor closes errs, then outs.
LEMMA DestroyOwn ==
  ASSUME OwnInv, TypeOK', NEW l \in Dsk!Disks, Dsk!Destroy(l), slog' = slog
  PROVE  OwnInv'
<1> DEFINE h == <<l, "outs">>
           k == <<l, "errs">>
           F == [Nums EXCEPT ![k] = 0]
           G == [F EXCEPT ![h] = 0]
           t == CloseFd(fds, stream[l]["errs"].fd)
           u == CloseFd(t, stream[l]["outs"].fd)
<1>1. TypeOK /\ NoObject /\ Owned(fds, Nums, slog.fd) /\ err \in [Loggers -> ErrTypes]
  BY TypeParts DEF Parts, SharedTypeOK, ErrTypes, OwnInv
<1>2. Destroyed(l, u)
  BY SameRuntime, SameClose DEF Dsk!Destroy
<1>3. stream' = [stream EXCEPT ![l] =
                   [s \in Sinks |-> IF s = "outs" THEN Dsk!Unopened ELSE Dsk!Unopened]]
  BY DEF Dsk!Destroy, Dsk!Sinks, Sinks
<1>4. /\ h \in Streams /\ k \in Streams
      /\ Nums[h] = stream[l]["outs"].fd /\ Nums[k] = stream[l]["errs"].fd
  BY NumsAt
<1>13. Nums' = [[Nums EXCEPT ![h] = Dsk!Unopened.fd] EXCEPT ![k] = Dsk!Unopened.fd]
  BY <1>1, <1>3, NumsMade DEF Replaced
<1>5. h # k /\ Dsk!Unopened.fd = 0
  BY SinkNames DEF Dsk!Unopened
<1>6. Nums \in [Streams -> 0..NFds]
  BY <1>1 DEF Owned
<1> HIDE DEF h, k
<1>7. Nums' = G
  <2> DEFINE X == [[Nums EXCEPT ![h] = 0] EXCEPT ![k] = 0]
  <2>1. Nums' = X
    BY <1>13, <1>5
  <2>2. /\ X = [x \in Streams |-> X[x]]
        /\ G = [x \in Streams |-> G[x]]
        /\ \A x \in Streams : X[x] = G[x]
    BY <1>4, <1>5, <1>6
  <2> HIDE DEF X, G
  <2> QED BY <2>1, <2>2
<1>8. Owned(t, F, slog.fd)
  BY <1>1, <1>4, OwnedClose
<1>9. F[h] = stream[l]["outs"].fd
  BY <1>4, <1>5, <1>6
<1> HIDE DEF F, t
<1>10. Owned(u, G, slog.fd)
  BY <1>4, <1>8, <1>9, OwnedClose
<1> HIDE DEF G, u
<1>11. Owned(fds, Nums, slog.fd)'
  BY <1>2, <1>7, <1>10 DEF Destroyed
<1>12. NoObject'
  <2>1. \A m \in Dsk!Disks : m # l => err'[m] = err[m]
    BY <1>1, <1>2, MarksAreContents DEF Destroyed
  <2>2. \A m \in Dsk!Disks : m # l => stream'[m] = stream[m]
    BY <1>1, <1>3, TypeParts DEF Parts
  <2>3. \A s \in Sinks : stream'[l][s].fd = 0
    BY <1>1, <1>3, <1>5, TypeParts DEF Parts
  <2> QED BY <1>1, <2>1, <2>2, <2>3 DEF NoObject
<1> QED BY <1>11, <1>12 DEF OwnInv

\* Every step of a logger on files keeps OwnInv.
LEMMA DskOwn ==
  ASSUME OwnInv, TypeOK', Dsk!Next, UNCHANGED <<console, slog, text, up>>
  PROVE  OwnInv'
<1>1. TypeOK /\ err \in [Loggers -> ErrTypes]
  BY TypeParts DEF Parts, SharedTypeOK, ErrTypes, OwnInv
<1>2. PICK l \in Dsk!Disks :
        \/ Dsk!Construct(l)
        \/ DskLog(l)
        \/ \E v \in LevelChoices : Dsk!level(l, v)
        \/ Dsk!close(l)
        \/ Dsk!Destroy(l)
  BY DskSteps
<1>3. \A k \in Dsk!Disks : k \in Loggers
  BY MarksAreContents
<1>4. CASE Dsk!Construct(l)
  <2>1. PICK o, e : DskMade(l, o, e)
    BY <1>4, DskMakes
  <2> QED BY <2>1, MadeOwn
<1>5. CASE DskLog(l)
  <2>1. /\ \A k \in Dsk!Disks, s \in Sinks : stream'[k][s].fd = stream[k][s].fd
        /\ \A k \in Loggers : err'[k] = "none" <=> err[k] = "none"
        /\ fds' = fds
    BY <1>1, <1>5, WriteNums
  <2> QED BY <1>3, <2>1, OwnKept
<1>6. CASE \E v \in LevelChoices : Dsk!level(l, v)
  <2>1. fds' = fds /\ err' = err /\ stream' = stream
    BY <1>6, SameRuntime DEF Dsk!level, Tuned
  <2> QED BY <2>1, OwnKept
<1>7. CASE Dsk!close(l)
  <2>1. CloseStd(l) /\ stream' = stream
    BY <1>7, SameRuntime DEF Dsk!close
  <2>2. \A d \in Above2 : fds'[d] = fds[d]
    BY <1>1, <2>1, CloseStdAbove2
  <2>3. \A k \in Dsk!Disks : err'[k] = "none" => err[k] = "none"
    BY <1>1, <1>3, <2>1, CloseStdAbove2
  <2> QED BY <2>1, <2>2, <2>3, OwnKept
<1>8. CASE Dsk!Destroy(l)
  BY <1>8, DestroyOwn
<1> QED BY <1>2, <1>4, <1>5, <1>6, <1>7, <1>8

\* Steps that change the connection's number only.
LEMMA OwnNumbers ==
  ASSUME OwnInv, TypeOK', UNCHANGED stream, Owned(fds', Nums, slog'.fd),
         \A k \in Dsk!Disks : err'[k] = err[k]
  PROVE  OwnInv'
<1>1. Nums' = Nums
  BY DEF Nums
<1>2. Owned(fds, Nums, slog.fd)'
  BY <1>1
<1>3. NoObject'
  BY DEF NoObject, OwnInv
<1> QED BY <1>2, <1>3 DEF OwnInv

\* syslog() closes what has the connection's number before it connects again;
\* a syslogd that stops leaves the number with its holder.
LEMMA SysOwn ==
  ASSUME OwnInv, TypeOK', Sys!Next, UNCHANGED <<console, stream>>
  PROVE  OwnInv'
<1>1. /\ TypeOK /\ err \in [Loggers -> ErrTypes] /\ fds \in [Fds -> Contents]
      /\ Owned(fds, Nums, slog.fd) /\ slog \in SlogRec
  BY TypeParts DEF Parts, SharedTypeOK, ErrTypes, OwnInv
<1>2. fds' \in [Fds -> Contents]
  BY TypeParts DEF Parts, SharedTypeOK
<1>3. ASSUME NEW l \in Sysloggers,
             \/ Sys!Syslogger(l)
             \/ SysLog(l)
             \/ \E v \in LevelChoices : Sys!level(l, v)
             \/ Sys!close(l)
             \/ Sys!Destroy(l)
      PROVE  OwnInv'
  <2>1. l \in Loggers /\ \A k \in Dsk!Disks : k \in Loggers /\ k # l
    BY MarksAreContents
  <2>2. CASE Sys!Syslogger(l)
    <3>1. PICK c : SysMade(l, c)
      BY <2>2, SysMakes
    <3>2. Owned(c.table, Nums, c.fd)
      <4>1. CASE c.table = fds /\ c.fd = slog.fd
        BY <1>1, <4>1
      <4>2. CASE slog.fd = 0 /\ Opened(fds, "syslogd", c)
        BY <1>1, <4>2, OwnedConnect
      <4> QED BY <3>1, <4>1, <4>2 DEF SysMade
    <3>3. fds' = c.table /\ slog'.fd = c.fd /\ \A k \in Dsk!Disks : err'[k] = err[k]
      BY <1>1, <2>1, <3>1 DEF SysMade, Made
    <3> QED BY <3>2, <3>3, OwnNumbers
  <2>3. CASE SysLog(l)
    <3>1. /\ err' = err
          /\ UNCHANGED <<fds, slog, reused>> \/ \E c : Reconnected(c)
      BY <2>3, SysLogs
    <3>2. CASE UNCHANGED <<fds, slog, reused>>
      BY <1>1, <3>1, <3>2, OwnNumbers
    <3>3. CASE \E c : Reconnected(c)
      <4>1. PICK c : Reconnected(c)
        BY <3>3
      <4>2. Owned(CloseFd(fds, slog.fd), Nums, 0)
        BY <1>1, OwnedDisconnect
      <4>3. Owned(c.table, Nums, c.fd)
        BY <4>1, <4>2, OwnedConnect DEF Reconnected
      <4>4. fds' = c.table /\ slog'.fd = c.fd
        BY <1>1, <4>1 DEF Reconnected, SlogRec
      <4> QED BY <3>1, <4>3, <4>4, OwnNumbers
    <3> QED BY <3>1, <3>2, <3>3
  <2>4. CASE \E v \in LevelChoices : Sys!level(l, v)
    <3>1. fds' = fds /\ err' = err /\ slog' = slog
      BY <2>4, SameRuntime DEF Sys!level, Tuned
    <3> QED BY <1>1, <3>1, OwnNumbers
  <2>5. CASE Sys!close(l)
    <3>1. /\ fds' = CloseFd(fds, slog.fd)
          /\ slog' = [[slog EXCEPT !.tag = Sys!Null] EXCEPT !.fd = 0]
          /\ err' = [err EXCEPT ![l] = "ERR_CLOSED"]
      BY <2>5, SameClose DEF Sys!close, Sys!closelog
    <3>2. slog'.fd = 0
      BY <1>1, <3>1 DEF SlogRec
    <3>3. Owned(fds', Nums, slog'.fd)
      BY <1>1, <3>1, <3>2, OwnedDisconnect
    <3>4. \A k \in Dsk!Disks : err'[k] = err[k]
      BY <1>1, <2>1, <3>1
    <3> QED BY <3>3, <3>4, OwnNumbers
  <2>6. CASE Sys!Destroy(l)
    <3>1. Destroyed(l, fds) /\ slog' = slog
      BY <2>6, SameRuntime DEF Sys!Destroy
    <3>2. fds' = fds /\ \A k \in Dsk!Disks : err'[k] = err[k]
      BY <1>1, <2>1, <3>1 DEF Destroyed
    <3> QED BY <1>1, <3>1, <3>2, OwnNumbers
  <2> QED BY <1>3, <2>2, <2>3, <2>4, <2>5, <2>6
<1>4. CASE Sys!Daemon
  <2>1. /\ \A d \in Fds : fds'[d] = fds[d] \/ (fds[d] = "syslogd" /\ fds'[d] = "dead")
        /\ UNCHANGED <<err, slog>>
    BY <1>4 DEF Sys!Daemon, Sys!Fds, Fds
  <2>2. Owned(fds', Nums, slog.fd)
    BY <1>1, <1>2, <2>1, OwnedDaemon
  <2> QED BY <2>1, <2>2, OwnNumbers
<1> QED BY <1>3, <1>4, SysSteps

\* No number is held when the program starts.
LEMMA NothingHeld ==
  ASSUME NEW t \in [Fds -> Contents], NEW F,
         F = [h \in Streams |-> 0], \A d \in Above2 : t[d] = "closed"
  PROVE  Owned(t, F, 0)
<1>1. F \in [Streams -> 0..NFds] /\ 0 \in 0..NFds
  BY NFdsAssumption
<1> QED BY <1>1, StdFdsOpen DEF Owned

\* OwnInv holds at the start.
LEMMA OwnInit == Init => OwnInv
<1> SUFFICES ASSUME Init PROVE OwnInv
  OBVIOUS
<1>1. TypeOK /\ fds \in [Fds -> Contents]
  BY TypeInit, TypeParts DEF Parts, SharedTypeOK
<1>2. \A l \in Dsk!Disks, s \in Sinks : stream[l][s].fd = 0
  BY DEF Init, Dsk!Init, Dsk!Sinks, Sinks, Dsk!Unopened
<1>3. Nums = [h \in Streams |-> 0]
  BY <1>2 DEF Nums, Streams
<1>4. \A d \in Above2 : fds[d] = "closed"
  BY DEF Init, SharedInit, Above2
<1>5. slog.fd = 0
  BY DEF Init, Sys!Init
<1>6. Owned(fds, Nums, slog.fd)
  BY <1>1, <1>3, <1>4, <1>5, NothingHeld
<1> QED BY <1>1, <1>2, <1>6 DEF OwnInv, NoObject

\* And when the program is run again.
LEMMA RestartOwn ==
  ASSUME TypeOK', Restart
  PROVE  OwnInv'
<1>1. fds' \in [Fds -> Contents]
  BY TypeParts DEF Parts, SharedTypeOK
<1>2. \A l \in Dsk!Disks, s \in Sinks : stream'[l][s].fd = 0
  BY DEF Restart, Dsk!Unopened
<1>3. Nums' = [h \in Streams |-> 0]
  BY <1>2 DEF Nums, Streams
<1>4. \A d \in Above2 : fds'[d] = "closed"
  BY DEF Restart, Above2, StdFds
<1>5. slog'.fd = 0
  BY DEF Restart
<1>6. Owned(fds', Nums', slog'.fd)
  BY <1>1, <1>3, <1>4, <1>5, NothingHeld
<1>7. Owned(fds, Nums, slog.fd)'
  BY <1>6
<1> QED BY <1>2, <1>7 DEF OwnInv, NoObject

\* OwnInv is inductive.
LEMMA OwnStep == OwnInv /\ [Next]_vars => OwnInv'
<1> SUFFICES ASSUME OwnInv, [Next]_vars PROVE OwnInv'
  OBVIOUS
<1>1. TypeOK'
  BY TypeStep DEF OwnInv
<1>2. CASE Con!Next /\ UNCHANGED <<stream, slog, text, up>>
  BY <1>1, <1>2, ConOwn
<1>3. CASE Dsk!Next /\ UNCHANGED <<console, slog, text, up>>
  BY <1>1, <1>3, DskOwn
<1>4. CASE Sys!Next /\ UNCHANGED <<console, stream>>
  BY <1>1, <1>4, SysOwn
<1>5. CASE (LoseStd \/ Return) /\ UNCHANGED <<console, stream, slog, text, up>>
  <2>1. fds \in [Fds -> Contents]
    BY TypeParts DEF OwnInv, Parts, SharedTypeOK
  <2>2. \A d \in Above2 : fds'[d] = fds[d]
    <3>1. CASE LoseStd
      <4>1. PICK x \in StdFds : fds' = CloseFd(fds, x)
        BY <3>1 DEF LoseStd
      <4> QED BY <2>1, <4>1 DEF CloseFd, Above2
    <3>2. CASE Return
      BY <3>2 DEF Return
    <3> QED BY <1>5, <3>1, <3>2
  <2>3. err' = err
    BY <1>5 DEF LoseStd, Return
  <2> QED BY <1>1, <1>5, <2>2, <2>3, OwnKept
<1>6. CASE Restart
  BY <1>1, <1>6, RestartOwn
<1>7. CASE UNCHANGED vars
  BY <1>1, <1>7, OwnKept DEF vars, shared
<1> QED BY <1>2, <1>3, <1>4, <1>5, <1>6, <1>7 DEF Next

\* One stream and the connection cannot have the same number: it would be open
\* on a file and on a socket.
LEMMA OwnImplies == OwnInv => OwnedAbove2
<1> SUFFICES ASSUME OwnInv, NEW d \in Fds \ StdFds
             PROVE  LET n == Cardinality(Holders(d)) + (IF slog.fd = d THEN 1 ELSE 0)
                    IN  /\ n <= 1
                        /\ fds[d] # "closed" <=> n = 1
                        /\ \A h \in Holders(d) : fds[d] = FileOf[h[1]][h[2]]
                        /\ slog.fd = d => fds[d] \in {"syslogd", "dead"}
  BY DEF OwnedAbove2
<1> DEFINE H == Holders(d)
<1>1. Owned(fds, Nums, slog.fd) /\ d \in Above2
  BY DEF OwnInv, Above2
<1>2. H = {h \in Streams : Nums[h] = d}
  BY DEF Holders, Streams, Nums
<1> HIDE DEF H
<1>3. \A h, k \in H : h = k
  BY <1>1, <1>2 DEF Owned
<1>4. \A h \in H : fds[d] = Target(h) /\ fds[d] \notin {"syslogd", "dead", "closed"}
  BY <1>1, <1>2, TargetIsPath DEF Owned
<1>5. slog.fd = d => fds[d] \in {"syslogd", "dead"}
  BY <1>1 DEF Owned
<1>6. fds[d] # "closed" => slog.fd = d \/ H # {}
  BY <1>1, <1>2 DEF Owned
<1>7. CASE H = {}
  <2>1. Cardinality(H) = 0
    BY <1>7, FS_EmptySet
  <2> QED BY <1>4, <1>5, <1>6, <1>7, <2>1 DEF H
<1>8. CASE H # {}
  <2>0. PICK h \in H : TRUE
    BY <1>8
  <2>1. H = {h}
    BY <1>3, <2>0
  <2>2. Cardinality(H) = 1
    BY <2>1, FS_Singleton
  <2>3. fds[d] = Target(h) /\ fds[d] \notin {"syslogd", "dead", "closed"} /\ slog.fd # d
    BY <1>4, <1>5, <2>1
  <2> QED BY <2>1, <2>2, <2>3 DEF H, Target
<1> QED BY <1>7, <1>8

\* Whatever close(), destructors and reconnecting do to each other's numbers, a
\* descriptor above 2 has exactly one holder, is open on what belongs to it, and
\* is closed when the holder is gone (no leak, no number closed under someone).
THEOREM Ownership == Spec => []OwnedAbove2
  BY OwnInit, OwnStep, OwnImplies, PTL DEF Spec

-----------------------------------------------------------------------------
(* Descriptors 1 and 2 *)

\* A console or file logger that is ERR_CLOSED closed both descriptors, and no
\* other one is.
ClosedOnce ==
  \A l \in Loggers \ Sysloggers : err[l] = "ERR_CLOSED" =>
    /\ fds[1] = "closed" /\ fds[2] = "closed"
    /\ \A k \in Loggers \ Sysloggers : err[k] = "ERR_CLOSED" => k = l

\* The invariant behind AtHomeUnlessReused and OneIsClosed.  Neither is inductive:
\* they say nothing of a closed descriptor 1 while no logger is ERR_CLOSED.
StdInv == OwnInv /\ (~reused => AtStd(fds, Nums, slog.fd) /\ ClosedOnce)

\* A step opens nothing as descriptor 1 or 2, or admits that it did.
Tame ==
  ~reused' =>
    /\ ~reused
    /\ \A d \in StdFds : fds'[d] \in {fds[d], "closed"}
    /\ \A h \in Streams : Nums'[h] \in StdFds => Nums[h] \in StdFds
    /\ slog'.fd \in StdFds => slog.fd \in StdFds

\* No console or file logger becomes ERR_CLOSED.
NoneCloses ==
  \A l \in Loggers \ Sysloggers : err'[l] = "ERR_CLOSED" => err[l] = "ERR_CLOSED"

\* A tame step that closes no logger keeps StdInv.
LEMMA StdKept ==
  ASSUME StdInv, OwnInv', Tame, NoneCloses
  PROVE  StdInv'
<1> SUFFICES ASSUME ~reused' PROVE AtStd(fds, Nums, slog.fd)' /\ ClosedOnce'
  BY DEF StdInv
<1>1. /\ ~reused
      /\ \A d \in StdFds : fds'[d] \in {fds[d], "closed"}
      /\ \A h \in Streams : Nums'[h] \in StdFds => Nums[h] \in StdFds
      /\ slog'.fd \in StdFds => slog.fd \in StdFds
  BY DEF Tame
<1>2. AtStd(fds, Nums, slog.fd) /\ ClosedOnce
  BY <1>1 DEF StdInv
<1>3. fds'[1] \in {fds[1], "closed"} /\ fds'[2] \in {fds[2], "closed"}
  BY <1>1 DEF StdFds
<1>4. AtStd(fds, Nums, slog.fd)'
  BY <1>1, <1>2, <1>3 DEF AtStd
<1>5. ClosedOnce'
  BY <1>2, <1>3 DEF ClosedOnce, NoneCloses
<1> QED BY <1>4, <1>5

\* close() succeeds only when both are open, which no ERR_CLOSED logger leaves.
LEMMA StdClosed ==
  ASSUME StdInv, OwnInv', NEW l \in Loggers \ Sysloggers, CloseStd(l),
         UNCHANGED stream, UNCHANGED slog
  PROVE  StdInv'
<1>1. fds \in [Fds -> Contents] /\ err \in [Loggers -> ErrTypes] /\ 1 \in Fds /\ 2 \in Fds
  BY TypeParts, StdFdsOpen DEF StdInv, OwnInv, Parts, SharedTypeOK, ErrTypes
<1>2. Nums' = Nums /\ slog' = slog /\ reused' = reused
  BY DEF Nums, CloseStd
<1>3. \A d \in StdFds : fds'[d] \in {fds[d], "closed"}
  BY <1>1 DEF CloseStd, CloseFd, StdFds
<1>4. Tame
  BY <1>2, <1>3 DEF Tame
<1>5. CASE err'[l] # "ERR_CLOSED"
  <2>1. NoneCloses
    BY <1>1, <1>5 DEF NoneCloses, CloseStd
  <2> QED BY <1>4, <2>1, StdKept
<1>6. CASE err'[l] = "ERR_CLOSED"
  <2>1. /\ fds[1] # "closed" /\ fds[2] # "closed"
        /\ fds'[1] = "closed" /\ fds'[2] = "closed"
        /\ err' = [err EXCEPT ![l] = "ERR_CLOSED"]
    BY <1>1, <1>6 DEF CloseStd, CloseFd
  <2> SUFFICES ASSUME ~reused' PROVE AtStd(fds, Nums, slog.fd)' /\ ClosedOnce'
    BY DEF StdInv
  <2>2. AtStd(fds, Nums, slog.fd) /\ ClosedOnce
    BY <1>2 DEF StdInv
  <2>3. AtStd(fds, Nums, slog.fd)'
    BY <1>2, <2>1, <2>2 DEF AtStd
  <2>4. \A k \in Loggers \ Sysloggers : err[k] # "ERR_CLOSED"
    BY <2>1, <2>2 DEF ClosedOnce
  <2>5. ClosedOnce'
    BY <1>1, <2>1, <2>4 DEF ClosedOnce
  <2> QED BY <2>3, <2>5
<1> QED BY <1>5, <1>6

\* An open that takes neither 1 nor 2 leaves both alone.
LEMMA OpenStd ==
  ASSUME NEW t \in [Fds -> Contents], NEW p, NEW r, Opened(t, p, r), r.fd \notin StdFds
  PROVE  \A d \in StdFds : r.table[d] = t[d]
  BY StdFdsOpen DEF Opened, StdFds

\* A close leaves each alone or closes it.
LEMMA ShutStd ==
  ASSUME NEW t \in [Fds -> Contents], NEW x
  PROVE  \A d \in StdFds : CloseFd(t, x)[d] \in {t[d], "closed"}
  BY StdFdsOpen DEF CloseFd, StdFds

\* Steps that open and close nothing.
LEMMA StillTame ==
  ASSUME fds' = fds, reused' = reused, Nums' = Nums, slog'.fd = slog.fd
  PROVE  Tame
  BY DEF Tame

\* Each class keeps StdInv.
LEMMA ConStd ==
  ASSUME StdInv, OwnInv', Con!Next, UNCHANGED <<stream, slog, text, up>>
  PROVE  StdInv'
<1>1. TypeOK /\ err \in [Loggers -> ErrTypes]
  BY TypeParts DEF Parts, SharedTypeOK, ErrTypes, OwnInv, StdInv
<1>2. PICK l \in Consoles :
        \/ Con!ConsoleLogger(l)
        \/ ConLog(l)
        \/ \E v \in LevelChoices : Con!level(l, v)
        \/ Con!close(l)
        \/ Con!Destroy(l)
  BY ConSteps
<1>3. l \in Loggers \ Sysloggers /\ Nums' = Nums
  BY MarksAreContents DEF Nums
<1>4. CASE Con!close(l)
  <2>1. CloseStd(l)
    BY <1>4, SameRuntime DEF Con!close
  <2> QED BY <1>3, <2>1, StdClosed
<1>5. CASE fds' = fds /\ reused' = reused /\ NoneCloses
  <2>1. Tame
    BY <1>3, <1>5, StillTame
  <2> QED BY <1>5, <2>1, StdKept
<1>6. CASE Con!ConsoleLogger(l)
  <2>1. Made(l, fds, "HEALTHY") /\ reused' = reused
    BY <1>6, SameRuntime DEF Con!ConsoleLogger
  <2>2. NoneCloses /\ fds' = fds
    BY <1>1, <2>1 DEF NoneCloses, Made
  <2> QED BY <1>5, <2>1, <2>2
<1>7. CASE ConLog(l)
  <2>1. fds' = fds /\ reused' = reused /\ err' = err
    BY <1>7 DEF ConLog, Con!write_log
  <2> QED BY <1>5, <2>1 DEF NoneCloses
<1>8. CASE \E v \in LevelChoices : Con!level(l, v)
  <2>1. fds' = fds /\ reused' = reused /\ err' = err
    BY <1>8, SameRuntime DEF Con!level, Tuned
  <2> QED BY <1>5, <2>1 DEF NoneCloses
<1>9. CASE Con!Destroy(l)
  <2>1. Destroyed(l, fds)
    BY <1>9, SameRuntime DEF Con!Destroy
  <2>2. NoneCloses /\ fds' = fds /\ reused' = reused
    BY <1>1, <2>1 DEF NoneCloses, Destroyed
  <2> QED BY <1>5, <2>2
<1> QED BY <1>2, <1>4, <1>6, <1>7, <1>8, <1>9

\* The constructor: what it opens as 1 or 2 is recorded in reused.
LEMMA MadeStd ==
  ASSUME StdInv, OwnInv', NEW l \in Dsk!Disks, NEW o, NEW e, DskMade(l, o, e), slog' = slog
  PROVE  StdInv'
<1> DEFINE h == <<l, "outs">>
           k == <<l, "errs">>
<1>1. TypeOK /\ err \in [Loggers -> ErrTypes] /\ fds \in [Fds -> Contents]
      /\ Nums \in [Streams -> 0..NFds]
  BY TypeParts DEF Parts, SharedTypeOK, ErrTypes, OwnInv, StdInv, Owned
<1>2. /\ Opened(fds, Target(h), o)
      /\ Opened(o.table, Target(k), e)
      /\ Made(l, e.table, IF o.fd # 0 /\ e.fd # 0 THEN "HEALTHY" ELSE "ERR_OPEN")
      /\ Replaced(l, NewStream(o), NewStream(e))
      /\ reused' = (reused \/ {o.fd, e.fd} \cap StdFds # {})
  BY DEF DskMade, Replaced
<1>3. NoneCloses
  BY <1>1, <1>2 DEF NoneCloses, Made
<1>4. Nums' = [[Nums EXCEPT ![h] = NewStream(o).fd] EXCEPT ![k] = NewStream(e).fd]
  BY <1>1, <1>2, NumsMade
<1>5. NewStream(o).fd = o.fd /\ NewStream(e).fd = e.fd
  BY DEF NewStream
<1>6. h \in Streams /\ k \in Streams
  BY NumsAt
<1>7. Target(h) \in Contents
  BY <1>6, MarksAreContents
<1> HIDE DEF h, k
<1>8. \A x \in Streams : Nums'[x] \in {Nums[x], o.fd, e.fd}
  BY <1>1, <1>4, <1>5, <1>6
<1>9. o.table \in [Fds -> Contents]
  BY <1>1, <1>2, <1>7, OpenTypes
<1>10. Tame
  <2> SUFFICES ASSUME ~reused'
               PROVE  /\ ~reused
                      /\ \A d \in StdFds : fds'[d] \in {fds[d], "closed"}
                      /\ \A x \in Streams : Nums'[x] \in StdFds => Nums[x] \in StdFds
                      /\ slog'.fd \in StdFds => slog.fd \in StdFds
    BY DEF Tame
  <2>1. ~reused /\ o.fd \notin StdFds /\ e.fd \notin StdFds
    BY <1>2
  <2>2. \A d \in StdFds : o.table[d] = fds[d]
    BY <1>1, <1>2, <2>1, OpenStd
  <2>3. \A d \in StdFds : e.table[d] = o.table[d]
    BY <1>2, <1>9, <2>1, OpenStd
  <2>4. fds' = e.table
    BY <1>2 DEF Made
  <2> QED BY <1>8, <2>1, <2>2, <2>3, <2>4
<1> QED BY <1>3, <1>10, StdKept

\* The destructor opens nothing.
LEMMA DestroyStd ==
  ASSUME StdInv, OwnInv', NEW l \in Dsk!Disks, Dsk!Destroy(l), slog' = slog
  PROVE  StdInv'
<1> DEFINE h == <<l, "outs">>
           k == <<l, "errs">>
           t == CloseFd(fds, stream[l]["errs"].fd)
           u == CloseFd(t, stream[l]["outs"].fd)
<1>1. TypeOK /\ err \in [Loggers -> ErrTypes] /\ fds \in [Fds -> Contents]
      /\ Nums \in [Streams -> 0..NFds]
  BY TypeParts DEF Parts, SharedTypeOK, ErrTypes, OwnInv, StdInv, Owned
<1>2. Destroyed(l, u)
  BY SameRuntime, SameClose DEF Dsk!Destroy
<1>3. Replaced(l, Dsk!Unopened, Dsk!Unopened)
  BY DEF Dsk!Destroy, Dsk!Sinks, Sinks, Replaced
<1>4. NoneCloses
  BY <1>1, <1>2 DEF NoneCloses, Destroyed
<1>5. Nums' = [[Nums EXCEPT ![h] = Dsk!Unopened.fd] EXCEPT ![k] = Dsk!Unopened.fd]
  BY <1>1, <1>3, NumsMade
<1>6. Dsk!Unopened.fd = 0 /\ h \in Streams /\ k \in Streams
  BY NumsAt DEF Dsk!Unopened
<1> HIDE DEF h, k
<1>7. \A x \in Streams : Nums'[x] \in {Nums[x], 0}
  BY <1>1, <1>5, <1>6
<1>8. t \in [Fds -> Contents]
  BY <1>1, CloseTypes
<1>9. \A d \in StdFds : t[d] \in {fds[d], "closed"}
  BY <1>1, ShutStd
<1> HIDE DEF t
<1>10. \A d \in StdFds : u[d] \in {t[d], "closed"}
  BY <1>8, ShutStd
<1>11. fds' = u /\ reused' = reused
  BY <1>2 DEF Destroyed
<1> HIDE DEF u
<1>12. Tame
  BY <1>7, <1>9, <1>10, <1>11, StdFdsOpen DEF Tame
<1> QED BY <1>4, <1>12, StdKept

\* Every step of a logger on files keeps StdInv.
LEMMA DskStd ==
  ASSUME StdInv, OwnInv', Dsk!Next, UNCHANGED <<console, slog, text, up>>
  PROVE  StdInv'
<1>1. TypeOK
  BY DEF OwnInv, StdInv
<1>2. PICK l \in Dsk!Disks :
        \/ Dsk!Construct(l)
        \/ DskLog(l)
        \/ \E v \in LevelChoices : Dsk!level(l, v)
        \/ Dsk!close(l)
        \/ Dsk!Destroy(l)
  BY DskSteps
<1>3. l \in Loggers \ Sysloggers
  BY MarksAreContents
<1>4. CASE Dsk!Construct(l)
  <2>1. PICK o, e : DskMade(l, o, e)
    BY <1>4, DskMakes
  <2> QED BY <2>1, MadeStd
<1>5. CASE DskLog(l)
  <2>1. /\ Nums' = Nums /\ fds' = fds /\ reused' = reused
        /\ \A k \in Loggers : err'[k] = "ERR_CLOSED" => err[k] = "ERR_CLOSED"
    BY <1>1, <1>5, WriteNums
  <2>2. Tame
    BY <2>1, StillTame
  <2> QED BY <2>1, <2>2, StdKept DEF NoneCloses
<1>6. CASE \E v \in LevelChoices : Dsk!level(l, v)
  <2>1. fds' = fds /\ err' = err /\ stream' = stream /\ reused' = reused
    BY <1>6, SameRuntime DEF Dsk!level, Tuned
  <2>2. Nums' = Nums
    BY <2>1 DEF Nums
  <2>3. Tame
    BY <2>1, <2>2, StillTame
  <2> QED BY <2>1, <2>3, StdKept DEF NoneCloses
<1>7. CASE Dsk!close(l)
  <2>1. CloseStd(l) /\ stream' = stream
    BY <1>7, SameRuntime DEF Dsk!close
  <2> QED BY <1>3, <2>1, StdClosed
<1>8. CASE Dsk!Destroy(l)
  BY <1>8, DestroyStd
<1> QED BY <1>2, <1>4, <1>5, <1>6, <1>7, <1>8

\* So does every step of a syslog logger: what it connects as 1 or 2 is recorded,
\* and a stopping syslogd touches neither, since neither is a connection.
LEMMA SysStd ==
  ASSUME StdInv, OwnInv', Sys!Next, UNCHANGED <<console, stream>>
  PROVE  StdInv'
<1>1. /\ TypeOK /\ err \in [Loggers -> ErrTypes] /\ fds \in [Fds -> Contents]
      /\ slog \in SlogRec
  BY TypeParts DEF Parts, SharedTypeOK, ErrTypes, OwnInv, StdInv
<1>2. Nums' = Nums /\ 0 \notin StdFds
  BY StdFdsOpen DEF Nums
<1>3. ASSUME NEW l \in Sysloggers,
             \/ Sys!Syslogger(l)
             \/ SysLog(l)
             \/ \E v \in LevelChoices : Sys!level(l, v)
             \/ Sys!close(l)
             \/ Sys!Destroy(l)
      PROVE  Tame /\ NoneCloses
  <2>1. l \in Loggers
    BY MarksAreContents
  <2>2. CASE Sys!Syslogger(l)
    <3>1. PICK c : SysMade(l, c)
      BY <2>2, SysMakes
    <3>2. /\ fds' = c.table /\ slog'.fd = c.fd /\ err' = [err EXCEPT ![l] = "HEALTHY"]
          /\ reused' = (reused \/ (slog.fd = 0 /\ c.fd \in StdFds))
          /\ \/ c.table = fds /\ c.fd = slog.fd
             \/ slog.fd = 0 /\ Opened(fds, "syslogd", c)
      BY <3>1 DEF SysMade, Made
    <3>3. NoneCloses
      BY <1>1, <3>2 DEF NoneCloses
    <3>4. CASE c.table = fds /\ c.fd = slog.fd
      <4>1. ~reused' => ~reused
        BY <3>2
      <4>2. fds' = fds /\ slog'.fd = slog.fd
        BY <3>2, <3>4
      <4> QED BY <1>2, <3>3, <4>1, <4>2 DEF Tame
    <3>5. CASE slog.fd = 0 /\ Opened(fds, "syslogd", c)
      <4>1. ~reused' => ~reused /\ c.fd \notin StdFds
        BY <3>2, <3>5
      <4>2. c.fd \notin StdFds => \A d \in StdFds : fds'[d] = fds[d]
        BY <1>1, <3>2, <3>5, OpenStd
      <4>3. Tame
        BY <1>2, <3>2, <4>1, <4>2 DEF Tame
      <4> QED BY <3>3, <4>3
    <3> QED BY <3>2, <3>4, <3>5
  <2>3. CASE SysLog(l)
    <3>1. /\ err' = err
          /\ UNCHANGED <<fds, slog, reused>> \/ \E c : Reconnected(c)
      BY <2>3, SysLogs
    <3>2. CASE UNCHANGED <<fds, slog, reused>>
      BY <1>2, <3>1, <3>2 DEF Tame, NoneCloses
    <3>3. CASE \E c : Reconnected(c)
      <4> DEFINE t == CloseFd(fds, slog.fd)
      <4>1. PICK c : Reconnected(c)
        BY <3>3
      <4>2. /\ Opened(t, "syslogd", c) /\ fds' = c.table
            /\ reused' = (reused \/ c.fd \in StdFds) /\ slog'.fd = c.fd
        BY <1>1, <4>1 DEF Reconnected, SlogRec
      <4>3. t \in [Fds -> Contents] /\ \A d \in StdFds : t[d] \in {fds[d], "closed"}
        BY <1>1, CloseTypes, ShutStd
      <4> HIDE DEF t
      <4>4. c.fd \notin StdFds => \A d \in StdFds : c.table[d] = t[d]
        BY <4>2, <4>3, OpenStd
      <4>5. Tame
        BY <1>2, <4>2, <4>3, <4>4 DEF Tame
      <4> QED BY <3>1, <4>5 DEF NoneCloses
    <3> QED BY <3>1, <3>2, <3>3
  <2>4. CASE \E v \in LevelChoices : Sys!level(l, v)
    <3>1. fds' = fds /\ err' = err /\ slog' = slog /\ reused' = reused
      BY <2>4, SameRuntime DEF Sys!level, Tuned
    <3> QED BY <1>2, <3>1, StillTame DEF NoneCloses
  <2>5. CASE Sys!close(l)
    <3>1. /\ fds' = CloseFd(fds, slog.fd)
          /\ slog' = [[slog EXCEPT !.tag = Sys!Null] EXCEPT !.fd = 0]
          /\ err' = [err EXCEPT ![l] = "ERR_CLOSED"]
          /\ reused' = reused
      BY <2>5, SameClose DEF Sys!close, Sys!closelog
    <3>2. slog'.fd = 0
      BY <1>1, <3>1 DEF SlogRec
    <3>3. \A d \in StdFds : fds'[d] \in {fds[d], "closed"}
      BY <1>1, <3>1, ShutStd
    <3>4. NoneCloses
      BY <1>1, <3>1 DEF NoneCloses
    <3>5. Tame
      BY <1>2, <3>1, <3>2, <3>3 DEF Tame
    <3> QED BY <3>4, <3>5
  <2>6. CASE Sys!Destroy(l)
    <3>1. Destroyed(l, fds) /\ slog' = slog
      BY <2>6, SameRuntime DEF Sys!Destroy
    <3>2. fds' = fds /\ reused' = reused /\ NoneCloses
      BY <1>1, <3>1 DEF Destroyed, NoneCloses
    <3> QED BY <1>2, <3>1, <3>2, StillTame
  <2> QED BY <1>3, <2>2, <2>3, <2>4, <2>5, <2>6
<1>4. CASE Sys!Daemon
  <2>1. /\ \A d \in Fds : fds'[d] = fds[d] \/ (fds[d] = "syslogd" /\ fds'[d] = "dead")
        /\ UNCHANGED <<err, slog, reused>>
    BY <1>4 DEF Sys!Daemon, Sys!Fds, Fds
  <2>2. ~reused => \A d \in StdFds : fds'[d] = fds[d]
    BY <2>1, StdFdsOpen DEF StdInv, AtStd, StdFds
  <2>3. Tame
    BY <1>2, <2>1, <2>2 DEF Tame
  <2> QED BY <2>1, <2>3, StdKept DEF NoneCloses
<1> QED BY <1>3, <1>4, SysSteps, StdKept

\* StdInv holds at the start.
LEMMA StdInit == Init => StdInv
<1> SUFFICES ASSUME Init PROVE StdInv
  OBVIOUS
<1>1. OwnInv
  BY OwnInit
<1>2. \A l \in Dsk!Disks, s \in Sinks : stream[l][s].fd = 0
  BY DEF Init, Dsk!Init, Dsk!Sinks, Sinks, Dsk!Unopened
<1>3. \A h \in Streams : Nums[h] \notin StdFds
  BY <1>2, StdFdsOpen DEF Nums, Streams
<1>4. slog.fd \notin StdFds
  BY StdFdsOpen DEF Init, Sys!Init
<1>5. fds[1] \in {"stdout", "closed"} /\ fds[2] \in {"stderr", "closed"}
  BY StdFdsOpen DEF Init, SharedInit
<1>6. ClosedOnce
  BY DEF ClosedOnce, Init, SharedInit
<1> QED BY <1>1, <1>3, <1>4, <1>5, <1>6 DEF StdInv, AtStd

\* And when the program is run again.
LEMMA RestartStd ==
  ASSUME OwnInv', Restart
  PROVE  StdInv'
<1>2. \A l \in Dsk!Disks, s \in Sinks : stream'[l][s].fd = 0
  BY DEF Restart, Dsk!Unopened
<1>3. \A h \in Streams : Nums'[h] \notin StdFds
  BY <1>2, StdFdsOpen DEF Nums, Streams
<1>4. slog'.fd \notin StdFds
  BY StdFdsOpen DEF Restart
<1>5. fds'[1] \in {"stdout", "closed"} /\ fds'[2] \in {"stderr", "closed"}
  BY StdFdsOpen DEF Restart
<1>6. ClosedOnce'
  BY DEF ClosedOnce, Restart
<1>7. AtStd(fds, Nums, slog.fd)'
  BY <1>3, <1>4, <1>5 DEF AtStd
<1> QED BY <1>6, <1>7 DEF StdInv

\* StdInv is inductive.
LEMMA StdStep == StdInv /\ [Next]_vars => StdInv'
<1> SUFFICES ASSUME StdInv, [Next]_vars PROVE StdInv'
  OBVIOUS
<1>1. OwnInv'
  BY OwnStep DEF StdInv
<1>2. CASE Con!Next /\ UNCHANGED <<stream, slog, text, up>>
  BY <1>1, <1>2, ConStd
<1>3. CASE Dsk!Next /\ UNCHANGED <<console, slog, text, up>>
  BY <1>1, <1>3, DskStd
<1>4. CASE Sys!Next /\ UNCHANGED <<console, stream>>
  BY <1>1, <1>4, SysStd
<1>5. CASE (LoseStd \/ Return) /\ UNCHANGED <<console, stream, slog, text, up>>
  <2>1. fds \in [Fds -> Contents]
    BY TypeParts DEF StdInv, OwnInv, Parts, SharedTypeOK
  <2>2. \A d \in StdFds : fds'[d] \in {fds[d], "closed"}
    <3>1. CASE LoseStd
      <4>1. PICK x \in StdFds : fds' = CloseFd(fds, x)
        BY <3>1 DEF LoseStd
      <4> QED BY <2>1, <4>1, ShutStd
    <3>2. CASE Return
      BY <3>2 DEF Return
    <3> QED BY <1>5, <3>1, <3>2
  <2>3. err' = err /\ reused' = reused /\ Nums' = Nums
    BY <1>5 DEF LoseStd, Return, Nums
  <2>4. Tame
    BY <1>5, <2>2, <2>3 DEF Tame
  <2> QED BY <1>1, <2>3, <2>4, StdKept DEF NoneCloses
<1>6. CASE Restart
  BY <1>1, <1>6, RestartStd
<1>7. CASE UNCHANGED vars
  <2>1. fds' = fds /\ err' = err /\ reused' = reused /\ slog' = slog /\ Nums' = Nums
    BY <1>7 DEF vars, shared, Nums
  <2>2. Tame
    BY <2>1, StillTame
  <2> QED BY <1>1, <2>1, <2>2, StdKept DEF NoneCloses
<1> QED BY <1>2, <1>3, <1>4, <1>5, <1>6, <1>7 DEF Next

\* Console loggers write to 1 and 2, which are at home or closed; streams and the
\* connection have numbers above 2, which are owned.
LEMMA HomeImplied == StdInv => AtHomeUnlessReused
<1> SUFFICES ASSUME StdInv, ~reused, NEW l \in Loggers, err[l] # "none"
             PROVE  ArrivesHome(l)
  BY DEF AtHomeUnlessReused
<1>1. /\ Owned(fds, Nums, slog.fd) /\ AtStd(fds, Nums, slog.fd)
  BY DEF StdInv, OwnInv
<1>2. ASSUME NEW s \in Sinks PROVE Con!Reaches(s) \subseteq Con!Home(s)
  BY <1>1, SinkNames DEF Con!Reaches, Con!Reached, Con!StdFd, Con!Home, AtStd
<1>3. ASSUME NEW k \in Dsk!Disks, NEW s \in Sinks
      PROVE  Dsk!Reaches(k, s) \subseteq Dsk!Home(k, s)
  <2> DEFINE h == <<k, s>>
             d == stream[k][s].fd
  <2>1. h \in Streams /\ Nums[h] = d /\ Target(h) = FileOf[k][s]
    BY <1>3 DEF Streams, Nums, Target
  <2>2. d = 0 \/ d \in Above2
    BY <1>1, <2>1 DEF Owned, AtStd, Above2, Fds
  <2>3. d # 0 => fds[d] = FileOf[k][s]
    BY <1>1, <2>1, <2>2 DEF Owned
  <2>4. Dsk!Reaches(k, s) \subseteq Dsk!Reached(d)
    BY DEF Dsk!Reaches, Dsk!Reached
  <2>5. Dsk!Reached(d) \subseteq {FileOf[k][s]}
    BY <2>3 DEF Dsk!Reached
  <2> QED BY <2>4, <2>5 DEF Dsk!Home
<1>4. Sys!Reaches \subseteq Sys!Home
  <2>1. Sys!Reached(2) \subseteq {"stderr"}
    BY <1>1 DEF Sys!Reached, AtStd
  <2> QED BY <2>1 DEF Sys!Reaches, Sys!Home
<1> QED BY <1>2, <1>3, <1>4 DEF ArrivesHome

\* OneIsClosed is part of ClosedOnce.
LEMMA OnceImplied == StdInv => OneIsClosed
  BY DEF StdInv, ClosedOnce, OneIsClosed

\* As long as nothing is opened as descriptor 1 or 2, no record of any logger of
\* any class arrives anywhere but where its class says, in any program.
THEOREM NothingStrays == Spec => []AtHomeUnlessReused
  BY StdInit, StdStep, HomeImplied, PTL DEF Spec

\* In the same programs no two console or file loggers are ERR_CLOSED at the same
\* time.
THEOREM ClosesOnce == Spec => []OneIsClosed
  BY StdInit, StdStep, OnceImplied, PTL DEF Spec

=============================================================================
