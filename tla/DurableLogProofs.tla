-------------------------- MODULE DurableLogProofs --------------------------
(***************************************************************************)
(* What DurableLog amounts to, proved for any number of messages.  Both    *)
(* facts are inductive together with the types: Prefix alone does not      *)
(* survive Store, which adds a number above all others and needs Complete. *)
(***************************************************************************)
EXTENDS DurableLog, TLAPS

IInv == TypeOK /\ Complete /\ Prefix

LEMMA InitIInv == Init => IInv
<1> SUFFICES ASSUME Init PROVE IInv
  OBVIOUS
<1>1. alive \in BOOLEAN /\ ok \in BOOLEAN /\ owed \in BOOLEAN
  BY Zenon DEF Init
<1>2. logged \in Nat /\ stored \in SUBSET (1..logged) /\ Prefix
  BY DEF Init, Prefix
<1>3. Complete
  BY Zenon DEF Init, Complete
<1> QED
  BY <1>1, <1>2, <1>3, Zenon DEF IInv, TypeOK

\* The three Booleans, which no proof below needs to look at again.
LEMMA NextBooleans ==
  TypeOK /\ [Next]_vars
    => alive' \in BOOLEAN /\ ok' \in BOOLEAN /\ owed' \in BOOLEAN
BY Zenon DEF TypeOK, Next, vars, Open, Store, Fail, Drop, Destroy, Crash

LEMMA NextIInv == IInv /\ [Next]_vars => IInv'
<1> SUFFICES ASSUME IInv, [Next]_vars PROVE IInv'
  OBVIOUS
<1> DEFINE NumbersOK == logged \in Nat /\ stored \in SUBSET (1..logged)
<1>0. NumbersOK /\ Complete /\ Prefix
  BY DEF IInv, TypeOK
<1> SUFFICES NumbersOK' /\ Complete' /\ Prefix'
  BY NextBooleans, Zenon DEF IInv, TypeOK
<1>1. CASE Open
  <2>1. NumbersOK' /\ Prefix'
    BY <1>1 DEF Open, Prefix
  <2>2. stored' = 1..logged'
    BY <1>1 DEF Open
  <2> QED
    BY <2>1, <2>2, Zenon DEF Complete
<1>2. CASE Store
  <2>1. stored = 1..logged
    BY <1>0, <1>2, Zenon DEF Store, Complete
  <2>2. stored' = 1..logged' /\ logged' \in Nat
    BY <1>0, <1>2, <2>1 DEF Store
  <2>3. NumbersOK' /\ Prefix'
    BY <2>2 DEF Prefix
  <2> QED
    BY <2>2, <2>3, Zenon DEF Complete
<1>3. CASE Fail
  <2>1. NumbersOK' /\ Prefix'
    BY <1>0, <1>3 DEF Fail, Prefix
  <2> QED
    BY <1>3, <2>1, Zenon DEF Fail, Complete
<1>4. CASE Drop
  <2>1. NumbersOK' /\ Prefix'
    BY <1>0, <1>4 DEF Drop, Prefix
  <2> QED
    BY <1>4, <2>1, Zenon DEF Drop, Complete
<1>5. CASE Destroy
  <2>1. Complete'
    BY <1>5, Zenon DEF Destroy, Complete
  <2>2. CASE UNCHANGED stored
    <3>1. NumbersOK' /\ Prefix'
      BY <1>0, <1>5, <2>2 DEF Destroy, Prefix
    <3> QED
      BY <2>1, <3>1
  <2>3. CASE \E i \in 1..logged :
               1..(i - 1) \subseteq stored /\ stored' = stored \cup {i}
    <3>1. PICK i \in 1..logged :
            1..(i - 1) \subseteq stored /\ stored' = stored \cup {i}
      BY <2>3
    <3>2. NumbersOK' /\ Prefix'
      BY <1>0, <1>5, <3>1 DEF Destroy, Prefix
    <3> QED
      BY <2>1, <3>2
  <2> QED
    BY <1>5, <2>2, <2>3, Zenon DEF Destroy
<1>6. CASE Crash
  <2>1. NumbersOK' /\ Prefix'
    BY <1>0, <1>6 DEF Crash, Prefix
  <2> QED
    BY <1>6, <2>1, Zenon DEF Crash, Complete
<1>7. CASE UNCHANGED vars
  BY <1>0, <1>7 DEF vars, Complete, Prefix
<1> QED
  BY <1>1, <1>2, <1>3, <1>4, <1>5, <1>6, <1>7, Zenon DEF Next

\* Types: in particular a reader never finds a message that was not logged.
THEOREM TypeCorrect == Spec => []TypeOK
<1>1. IInv => TypeOK
  BY DEF IInv
<1> QED
  BY InitIInv, NextIInv, <1>1, PTL DEF Spec

\* A live object whose stream never failed has stored everything.
THEOREM NothingMissing == Spec => []Complete
<1>1. IInv => Complete
  BY DEF IInv
<1> QED
  BY InitIInv, NextIInv, <1>1, PTL DEF Spec

\* What is stored of an object's messages is always a prefix of what it was
\* told to log, over failures, late writes of destructors and crashes.
THEOREM NoMiddleLost == Spec => []Prefix
<1>1. IInv => Prefix
  BY DEF IInv
<1> QED
  BY InitIInv, NextIInv, <1>1, PTL DEF Spec

=============================================================================
