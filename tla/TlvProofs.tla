------------------------------ MODULE TlvProofs -----------------------------
(***************************************************************************)
(* Proofs about the binary records: TypeCorrect, AllReadBack and           *)
(* ShortRecords, for any width of size_t, any lengths and any number of    *)
(* strings that fit in it.                                                 *)
(*                                                                         *)
(* A claim about every number, such as the one about bits, is proved by    *)
(* looking at the least number of which it fails (Least).                  *)
(***************************************************************************)
EXTENDS Tlv, TLAPS, WellFoundedInduction

-----------------------------------------------------------------------------
(* The values of bits *)

\* A set of numbers that is not empty has a least one.  Its uses below stand
\* for induction: there is no least number of which a claim fails.
LEMMA Least ==
  ASSUME NEW S, S \subseteq Nat, S # {}
  PROVE  \E m \in S : \A n \in S : m <= n
<1> DEFINE R == OpToRel(<, Nat)
<1>1. IsWellFoundedOn(R, Nat)
  BY NatLessThanWellFounded
<1>2. \E m \in S : \A n \in S : ~(<<n, m>> \in R)
  <2> HIDE DEF R
  <2> QED BY <1>1, WFMin
<1>3. PICK m \in S : \A n \in S : ~(<<n, m>> \in R)
  BY <1>2
<1>4. ASSUME NEW n \in S PROVE m <= n
  <2>1. m \in Nat /\ n \in Nat
    OBVIOUS
  <2>2. ~(n < m)
    BY <1>3, <2>1 DEF OpToRel
  <2> QED BY <2>1, <2>2
<1> QED BY <1>4

\* The recursion of bits, up to n.
BitsTo(f, n) == f = [j \in 0..n |-> IF j = 0 THEN 1 ELSE 2 * f[j - 1]]

\* It defines a function.
LEMMA BitsExist ==
  ASSUME NEW n \in Nat
  PROVE  \E f : BitsTo(f, n)
<1> DEFINE Has(m) == \E f : BitsTo(f, m)
           S == {m \in Nat : ~Has(m)}
<1> HIDE DEF Has
<1>1. ASSUME S # {} PROVE FALSE
  <2>1. S \subseteq Nat
    OBVIOUS
  <2>2. PICK m \in S : \A k \in S : m <= k
    <3> HIDE DEF S
    <3> QED BY <1>1, <2>1, Least
  <2>3. m \in Nat /\ ~Has(m) /\ \A k \in Nat : ~Has(k) => m <= k
    BY <2>2
  <2>4. CASE m = 0
    <3> DEFINE f == [j \in 0..0 |-> 1]
    <3>1. BitsTo(f, 0)
      BY DEF BitsTo
    <3> HIDE DEF f
    <3> QED BY <2>3, <2>4, <3>1 DEF Has
  <2>5. CASE m # 0
    <3>1. m - 1 \in Nat /\ Has(m - 1)
      BY <2>3, <2>5
    <3>2. PICK f : BitsTo(f, m - 1)
      BY <3>1 DEF Has
    <3> DEFINE g == [j \in 0..m |-> IF j = m THEN 2 * f[m - 1] ELSE f[j]]
    <3>3. ASSUME NEW j \in 0..m PROVE g[j] = IF j = 0 THEN 1 ELSE 2 * g[j - 1]
      <4>1. CASE j = m
        BY <2>3, <2>5, <4>1
      <4>2. CASE j # m
        <5>1. j \in 0..(m - 1)
          BY <2>3, <4>2
        <5>2. f[j] = IF j = 0 THEN 1 ELSE 2 * f[j - 1]
          BY <3>2, <5>1 DEF BitsTo
        <5>3. j # 0 => j - 1 \in 0..m /\ j - 1 # m
          BY <2>3, <5>1
        <5> QED BY <4>2, <5>2, <5>3
      <4> QED BY <4>1, <4>2
    <3>4. g = [j \in 0..m |-> IF j = 0 THEN 1 ELSE 2 * g[j - 1]]
      <4>1. g = [j \in 0..m |-> g[j]]
        OBVIOUS
      <4> HIDE DEF g
      <4> QED BY <3>3, <4>1, Zenon
    <3>5. BitsTo(g, m)
      BY <3>4 DEF BitsTo
    <3> HIDE DEF g
    <3> QED BY <2>3, <3>5 DEF Has
  <2> QED BY <2>4, <2>5
<1> QED BY <1>1 DEF Has

\* So bits is that function.
LEMMA BitsDef == BitsTo(bits, 8 * Octets)
<1>1. 8 * Octets \in Nat
  BY OctetsAssumption
<1>2. \E f : BitsTo(f, 8 * Octets)
  BY <1>1, BitsExist
<1>3. \E f : f = [e \in 0..(8 * Octets) |-> IF e = 0 THEN 1 ELSE 2 * f[e - 1]]
  BY <1>2 DEF BitsTo
<1> QED BY <1>3 DEF bits, BitsTo

\* The values of bits: each is twice the one before.
LEMMA BitsNext ==
  /\ bits[0] = 1
  /\ \A e \in 1..(8 * Octets) : bits[e] = 2 * bits[e - 1]
<1>1. 8 * Octets \in Nat
  BY OctetsAssumption
<1>2. \A j \in 0..(8 * Octets) : bits[j] = IF j = 0 THEN 1 ELSE 2 * bits[j - 1]
  BY BitsDef, Zenon DEF BitsTo
<1> QED BY <1>1, <1>2

\* Larger exponents have larger values, all of them positive.
LEMMA BitsGrow ==
  /\ \A e \in 0..(8 * Octets) : bits[e] \in Nat \ {0}
  /\ \A e, j \in 0..(8 * Octets) : e < j => 2 * bits[e] <= bits[j]
<1> DEFINE W == 8 * Octets
           S == {j \in 0..W : ~ /\ bits[j] \in Nat \ {0}
                                /\ \A k \in 0..W : k < j => 2 * bits[k] <= bits[j]}
<1>1. W \in Nat
  BY OctetsAssumption
<1> HIDE DEF W
<1>2. ASSUME S # {} PROVE FALSE
  <2>1. S \subseteq Nat
    BY <1>1
  <2>2. PICK m \in S : \A k \in S : m <= k
    <3> HIDE DEF S
    <3> QED BY <1>2, <2>1, Least
  <2>3. m \in 0..W
    OBVIOUS
  <2>4. \A k \in 0..W : k < m => k \notin S
    BY <1>1, <2>2
  <2>5. CASE m = 0
    BY <1>1, <2>5, BitsNext
  <2>6. CASE m # 0
    <3>1. m - 1 \in 0..W /\ m \in 1..W
      BY <1>1, <2>3, <2>6
    <3>2. /\ bits[m - 1] \in Nat \ {0}
          /\ \A k \in 0..W : k < m - 1 => 2 * bits[k] <= bits[m - 1]
      BY <1>1, <2>4, <3>1
    <3>3. bits[m] = 2 * bits[m - 1]
      BY <3>1, BitsNext DEF W
    <3>4. bits[m] \in Nat \ {0}
      BY <3>2, <3>3
    <3>5. ASSUME NEW k \in 0..W, k < m PROVE 2 * bits[k] <= bits[m]
      <4>1. CASE k = m - 1
        BY <3>3, <4>1, <3>4
      <4>2. CASE k # m - 1
        <5>1. k < m - 1
          BY <1>1, <2>3, <3>5, <4>2
        <5>2. bits[k] \in Nat
          BY <1>1, <2>4, <3>5
        <5> QED BY <3>2, <3>3, <5>1, <5>2
      <4> QED BY <4>1, <4>2
    <3> QED BY <3>4, <3>5
  <2> QED BY <2>5, <2>6
<1>3. S = {}
  BY <1>2
<1> QED BY <1>3 DEF W

-----------------------------------------------------------------------------
(* The octets of a length *)

\* What a quotient is.
LEMMA DivIs ==
  ASSUME NEW n \in Nat, NEW b \in Nat \ {0}, NEW q \in Nat, q * b <= n, n < q * b + b
  PROVE  n \div b = q
  BY SMT

\* Eight bits are an octet.
LEMMA BitsOctet ==
  ASSUME NEW k \in 1..Octets
  PROVE  /\ 8 * k \in 0..(8 * Octets) /\ 8 * (k - 1) \in 0..(8 * Octets)
         /\ bits[8 * k] = 256 * bits[8 * (k - 1)]
<1>1. Octets \in Nat /\ k \in Nat
  BY OctetsAssumption
<1>2. PICK e \in Nat : e = 8 * k /\ e - 8 = 8 * (k - 1)
  BY <1>1
<1>3. /\ e \in 0..(8 * Octets) /\ e - 8 \in 0..(8 * Octets)
      /\ \A j \in 0..7 : e - j \in 1..(8 * Octets) /\ (e - j) - 1 = e - (j + 1)
  BY <1>1, <1>2
<1>4. \A j \in 0..7 : bits[e - j] = 2 * bits[e - (j + 1)]
  <2>1. ASSUME NEW j \in 0..7 PROVE bits[e - j] = 2 * bits[e - (j + 1)]
    <3>1. bits[e - j] = 2 * bits[(e - j) - 1]
      BY <1>3, BitsNext
    <3> QED BY <1>3, <3>1
  <2> QED BY <2>1
<1>5. /\ bits[e - 0] = 2 * bits[e - 1] /\ bits[e - 1] = 2 * bits[e - 2]
      /\ bits[e - 2] = 2 * bits[e - 3] /\ bits[e - 3] = 2 * bits[e - 4]
      /\ bits[e - 4] = 2 * bits[e - 5] /\ bits[e - 5] = 2 * bits[e - 6]
      /\ bits[e - 6] = 2 * bits[e - 7] /\ bits[e - 7] = 2 * bits[e - 8]
  BY <1>4
<1>6. e - 0 = e /\ bits[e - 8] \in Nat
  BY <1>2, <1>3, BitsGrow
<1>7. bits[e] = 256 * bits[e - 8]
  BY <1>5, <1>6
<1> QED BY <1>2, <1>3, <1>7

\* A length above 127 lies between two neighbouring bits.
LEMMA Between ==
  ASSUME NEW n \in SizeT, n > 127
  PROVE  \E h \in 7..(8 * Octets - 1) : bits[h] <= n /\ n < bits[h + 1]
<1> DEFINE W == 8 * Octets
<1>1. W \in Nat /\ W >= 8 /\ n \in Nat
  BY OctetsAssumption, BitsGrow DEF SizeT
<1> DEFINE S == {k \in 0..W : n < bits[k]}
<1>2. W \in S
  BY <1>1, BitsGrow DEF SizeT
<1>3. S \subseteq Nat
  BY <1>1
<1>4. PICK m \in S : \A k \in S : m <= k
  <2> HIDE DEF S
  <2> QED BY <1>2, <1>3, Least
<1>5. /\ bits[0] = 1 /\ bits[1] = 2 /\ bits[2] = 4 /\ bits[3] = 8 /\ bits[4] = 16
      /\ bits[5] = 32 /\ bits[6] = 64 /\ bits[7] = 128
  BY <1>1, BitsNext
<1>6. m \in 0..W /\ n < bits[m]
  OBVIOUS
<1>7. m # 0 /\ m # 1 /\ m # 2 /\ m # 3 /\ m # 4 /\ m # 5 /\ m # 6 /\ m # 7
  BY <1>1, <1>5, <1>6
<1>8. m - 1 \in 7..(W - 1) /\ m - 1 \in 0..W /\ (m - 1) + 1 = m /\ m - 1 \notin S
  BY <1>1, <1>4, <1>6, <1>7
<1>9. bits[m - 1] <= n
  BY <1>1, <1>8, BitsGrow
<1> QED BY <1>6, <1>8, <1>9

\* The scan finds it.
LEMMA HighestBitIs ==
  ASSUME NEW n \in SizeT, n > 127, NEW h \in 7..(8 * Octets - 1),
         bits[h] <= n, n < bits[h + 1]
  PROVE  HighestBit(n) = h
<1> DEFINE W == 8 * Octets
           Set(e) == (n \div bits[e]) % 2 = 1
           Top(e) == Set(e) /\ \A j \in (e + 1)..(W - 1) : (n \div bits[j]) % 2 = 0
<1>1. W \in Nat /\ n \in Nat
  BY OctetsAssumption, BitsGrow DEF SizeT
<1>2. h \in 0..W /\ h + 1 \in 1..W /\ h + 1 \in 0..W /\ (h + 1) - 1 = h
  BY <1>1
<1>3. bits[h] \in Nat \ {0} /\ bits[h + 1] = 2 * bits[h]
  BY <1>2, BitsNext, BitsGrow
<1>4. Set(h)
  <2>1. n \div bits[h] = 1
    BY <1>1, <1>3, DivIs
  <2> QED BY <2>1
<1>5. ASSUME NEW j \in (h + 1)..(W - 1) PROVE (n \div bits[j]) % 2 = 0
  <2>1. j \in 0..W /\ bits[j] \in Nat \ {0}
    BY <1>1, <1>2, BitsGrow
  <2>2. n < bits[j]
    <3>1. CASE j = h + 1
      BY <3>1
    <3>2. CASE j # h + 1
      <4>1. h + 1 < j
        BY <1>1, <1>2, <3>2
      <4>2. 2 * bits[h + 1] <= bits[j]
        BY <1>2, <2>1, <4>1, BitsGrow
      <4> QED BY <1>1, <1>3, <2>1, <4>2
    <3> QED BY <3>1, <3>2
  <2>3. n \div bits[j] = 0
    BY <1>1, <2>1, <2>2, DivIs
  <2> QED BY <2>3
<1>6. ASSUME NEW e \in 1..(W - 1), Top(e) PROVE e = h
  <2>1. CASE e < h
    <3>1. h \in (e + 1)..(W - 1)
      BY <1>1, <2>1
    <3> QED BY <1>4, <1>6, <3>1
  <2>2. CASE e > h
    <3>1. e \in (h + 1)..(W - 1)
      BY <1>1, <2>2
    <3> QED BY <1>5, <1>6, <3>1
  <2> QED BY <1>1, <2>1, <2>2
<1>7. h \in 1..(W - 1) /\ Top(h)
  BY <1>1, <1>4, <1>5
<1> HIDE DEF Top
<1>8. HighestBit(n) = CHOOSE e \in 1..(W - 1) : Top(e)
  BY DEF HighestBit, Top
<1> QED BY <1>6, <1>7, <1>8

\* So the number of octets is right.
LEMMA OctetsIs ==
  ASSUME NEW n \in SizeT, n > 127
  PROVE  \E k \in 1..Octets :
           loct(n) = k /\ bits[8 * (k - 1)] <= n /\ n < bits[8 * k]
<1> DEFINE W == 8 * Octets
<1>1. Octets \in Nat /\ n \in Nat
  BY OctetsAssumption, BitsGrow DEF SizeT
<1>2. PICK h \in 7..(W - 1) : bits[h] <= n /\ n < bits[h + 1]
  BY Between
<1>3. loct(n) = (h + 8) \div 8
  BY <1>2, HighestBitIs DEF loct
<1>4. PICK k \in 1..Octets : k = (h + 8) \div 8 /\ 8 * (k - 1) <= h /\ h + 1 <= 8 * k
  BY <1>1, <1>2
<1>5. 8 * k \in 0..W /\ 8 * (k - 1) \in 0..W /\ h \in 0..W /\ h + 1 \in 0..W
  BY <1>1, <1>2
<1>6. bits[8 * (k - 1)] <= bits[h]
  <2>1. CASE 8 * (k - 1) = h
    BY <1>5, <2>1, BitsGrow
  <2>2. CASE 8 * (k - 1) < h
    BY <1>5, <2>2, BitsGrow
  <2> QED BY <1>4, <1>5, <2>1, <2>2
<1>7. bits[h + 1] <= bits[8 * k]
  <2>1. CASE 8 * k = h + 1
    BY <1>5, <2>1, BitsGrow
  <2>2. CASE h + 1 < 8 * k
    BY <1>5, <2>2, BitsGrow
  <2> QED BY <1>4, <1>5, <2>1, <2>2
<1>8. /\ bits[8 * (k - 1)] \in Nat /\ bits[h] \in Nat /\ bits[h + 1] \in Nat
      /\ bits[8 * k] \in Nat
  BY <1>5, BitsGrow
<1>9. bits[8 * (k - 1)] <= n /\ n < bits[8 * k]
  BY <1>1, <1>2, <1>6, <1>7, <1>8
<1> QED BY <1>3, <1>4, <1>9

\* The long form: how many octets follow, and these, the first one not zero.
LongForm(o, n, k) ==
  /\ o \in Seq(Octet)
  /\ Len(o) = k + 1 /\ o[1] = 128 + k
  /\ \A j \in 1..k : o[j + 1] = (n \div bits[8 * (k - j)]) % 256
  /\ o[2] # 0

\* What is written of a length above 127.
LEMMA LongIs ==
  ASSUME NEW n \in SizeT, n > 127
  PROVE  \E k \in 1..Octets : n < bits[8 * k] /\ LongForm(write_length(n), n, k)
<1> DEFINE b == BigEndian(n)
           off == CHOOSE e \in 1..Octets : b[e] # 0 /\ \A j \in 1..(e - 1) : b[j] = 0
<1>1. Octets \in Nat /\ n \in Nat
  BY OctetsAssumption, BitsGrow DEF SizeT
<1>2. PICK k \in 1..Octets :
        loct(n) = k /\ bits[8 * (k - 1)] <= n /\ n < bits[8 * k]
  BY OctetsIs
<1>3. /\ \A j \in 1..Octets : b[j] = (n \div bits[8 * (Octets - j)]) % 256
      /\ \A j \in 1..Octets : b[j] \in Octet
  <2>1. ASSUME NEW j \in 1..Octets
        PROVE  b[j] = (n \div bits[8 * (Octets - j)]) % 256 /\ b[j] \in Octet
    <3>1. 8 * (Octets - j) \in 0..(8 * Octets)
      BY <1>1
    <3>2. bits[8 * (Octets - j)] \in Nat \ {0}
      BY <3>1, BitsGrow
    <3>3. b[j] = (n \div bits[8 * (Octets - j)]) % 256
      BY DEF BigEndian
    <3>4. n \div bits[8 * (Octets - j)] \in Nat
      BY <1>1, <3>2
    <3> HIDE DEF b
    <3> QED BY <3>3, <3>4 DEF Octet
  <2> QED BY <2>1
<1>4. b \in Seq(Octet) /\ Len(b) = Octets
  <2>1. b = [j \in 1..Octets |-> b[j]]
    BY DEF BigEndian
  <2> HIDE DEF b
  <2> QED BY <1>1, <1>3, <2>1
<1> DEFINE z == Octets - k + 1
<1>5. z \in 1..Octets /\ Octets - z = k - 1
  BY <1>1
<1>6. b[z] # 0
  <2>1. bits[8 * k] = 256 * bits[8 * (k - 1)]
    BY BitsOctet
  <2>2. bits[8 * (k - 1)] \in Nat \ {0}
    BY BitsOctet, BitsGrow
  <2>3. PICK d \in Nat \ {0} : d = bits[8 * (k - 1)]
    BY <2>2
  <2>4. d <= n /\ n < 256 * d
    BY <1>2, <2>1, <2>3
  <2>5. n \div d \in 1..255
    BY <1>1, <2>4, SMT
  <2>6. b[z] = (n \div d) % 256
    BY <1>3, <1>5, <2>3
  <2> HIDE DEF b, z
  <2> QED BY <2>5, <2>6
<1>7. ASSUME NEW j \in 1..(z - 1) PROVE b[j] = 0
  <2>1. j \in 1..Octets /\ 8 * (Octets - j) \in 0..(8 * Octets) /\ 8 * k \in 0..(8 * Octets)
        /\ 8 * (Octets - j) >= 8 * k
    BY <1>1, <1>5
  <2>2. bits[8 * k] <= bits[8 * (Octets - j)] /\ bits[8 * (Octets - j)] \in Nat \ {0}
    <3>1. CASE 8 * k = 8 * (Octets - j)
      BY <2>1, <3>1, BitsGrow
    <3>2. CASE 8 * k < 8 * (Octets - j)
      BY <2>1, <3>2, BitsGrow
    <3> QED BY <2>1, <3>1, <3>2
  <2>3. bits[8 * k] \in Nat
    BY <2>1, BitsGrow
  <2>4. n \div bits[8 * (Octets - j)] = 0
    BY <1>1, <1>2, <2>2, <2>3, DivIs
  <2>5. b[j] = (n \div bits[8 * (Octets - j)]) % 256
    BY <1>3, <2>1
  <2> QED BY <2>4, <2>5
<1>8. off = z
  <2>1. ASSUME NEW e \in 1..Octets, b[e] # 0, \A j \in 1..(e - 1) : b[j] = 0
        PROVE  e = z
    <3> HIDE DEF b, z
    <3>1. CASE e < z
      <4>1. e \in 1..(z - 1)
        BY <1>1, <1>5, <3>1
      <4> QED BY <1>7, <2>1, <4>1
    <3>2. CASE z < e
      <4>1. z \in 1..(e - 1)
        BY <1>1, <1>5, <3>2
      <4> QED BY <1>6, <2>1, <4>1
    <3> QED BY <1>1, <1>5, <3>1, <3>2
  <2> HIDE DEF b, z
  <2> QED BY <1>5, <1>6, <1>7, <2>1
<1>9. write_length(n) = <<128 + k>> \o SubSeq(b, z, Octets)
  <2>1. (128 + k) % 256 = 128 + k /\ ~(n <= 127)
    BY <1>1, OctetsAssumption
  <2> HIDE DEF z
  <2>2. write_length(n) = <<(128 + loct(n)) % 256>> \o SubSeq(b, off, Octets)
    BY <2>1, Zenon DEF write_length
  <2> HIDE DEF b, off
  <2> QED BY <1>2, <1>8, <2>1, <2>2
<1>10. /\ SubSeq(b, z, Octets) \in Seq(Octet)
       /\ Len(SubSeq(b, z, Octets)) = k
       /\ \A j \in 1..k : SubSeq(b, z, Octets)[j] = b[z + j - 1]
  <2> HIDE DEF b
  <2> QED BY <1>1, <1>4, <1>5
<1> DEFINE t == SubSeq(b, z, Octets)
<1> HIDE DEF t
<1>11. /\ t \in Seq(Octet) /\ Len(t) = k /\ 128 + k \in Octet
       /\ \A j \in 1..k : t[j] = b[z + j - 1]
       /\ write_length(n) = <<128 + k>> \o t
  BY <1>1, <1>9, <1>10, OctetsAssumption DEF t, Octet
<1>12. \A j \in 1..k : t[j] = (n \div bits[8 * (k - j)]) % 256
  <2>1. ASSUME NEW j \in 1..k PROVE t[j] = (n \div bits[8 * (k - j)]) % 256
    <3>1. z + j - 1 \in 1..Octets /\ Octets - (z + j - 1) = k - j
      BY <1>1, <1>5
    <3> HIDE DEF b, z
    <3> QED BY <1>3, <1>11, <3>1, ZenonT(60)
  <2> QED BY <2>1
<1>13. t[1] # 0
  <2>1. z + 1 - 1 = z
    BY <1>1
  <2> HIDE DEF b, z
  <2> QED BY <1>6, <1>11, <2>1
<1>14. LongForm(<<128 + k>> \o t, n, k)
  <2> HIDE DEF b, z
  <2>1. /\ <<128 + k>> \in Seq(Octet) /\ Len(<<128 + k>>) = 1
    BY <1>11
  <2> QED BY <1>11, <1>12, <1>13, <2>1 DEF LongForm
<1> QED BY <1>2, <1>11, <1>14

\* The short form is one octet.
LEMMA ShortFormIs ==
  ASSUME NEW n \in SizeT, n <= 127
  PROVE  write_length(n) = <<n>> /\ n \in 0..127
<1>1. n \in Nat
  BY OctetsAssumption, BitsGrow DEF SizeT
<1>2. write_length(n) = <<n>>
  BY Zenon DEF write_length
<1> QED BY <1>1, <1>2

\* Taking off the last octet of the octets in front.
LEMMA DivTwice ==
  ASSUME NEW n \in Nat, NEW d \in Nat \ {0}
  PROVE  (n \div d) \div 256 = n \div (256 * d)
  BY SMT

\* The reader's sum of the octets so far is the length without the octets that
\* are still to come.
LEMMA NumberIs ==
  ASSUME NEW n \in Nat, NEW k \in 1..Octets, n < bits[8 * k],
         NEW o, o \in Seq(Octet), Len(o) = k,
         \A j \in 1..k : o[j] = (n \div bits[8 * (k - j)]) % 256
  PROVE  Number(o) = n
<1> DEFINE Reads(f) == f = [j \in 0..k |-> IF j = 0 THEN 0 ELSE 256 * f[j - 1] + o[j]]
           g == [j \in 0..k |-> n \div bits[8 * (k - j)]]
<1>1. Octets \in Nat
  BY OctetsAssumption
<1>2. \A j \in 0..k : g[j] = n \div bits[8 * (k - j)] /\ g[j] \in Nat
  <2>1. ASSUME NEW j \in 0..k PROVE g[j] \in Nat
    <3>1. 8 * (k - j) \in 0..(8 * Octets)
      BY <1>1
    <3>2. bits[8 * (k - j)] \in Nat \ {0}
      BY <3>1, BitsGrow
    <3>3. n \div bits[8 * (k - j)] \in Nat
      BY <3>2, SMTT(60)
    <3> QED BY <3>3
  <2> QED BY <2>1
<1>3. g[0] = 0
  <2>1. 8 * k \in 0..(8 * Octets) /\ k - 0 = k /\ 0 \in 0..k
    BY <1>1
  <2>2. bits[8 * k] \in Nat \ {0}
    BY <2>1, BitsGrow
  <2>3. n \div bits[8 * k] = 0
    BY <2>2, DivIs
  <2> QED BY <2>1, <2>3
<1>4. g[k] = n
  <2>1. 8 * (k - k) = 0 /\ k \in 0..k
    BY <1>1
  <2>2. n \div 1 = n
    OBVIOUS
  <2> QED BY <1>2, <2>1, <2>2, BitsNext
<1>5. ASSUME NEW j \in 1..k PROVE g[j] = 256 * g[j - 1] + o[j]
  <2>1. /\ k - j + 1 \in 1..Octets /\ (k - j + 1) - 1 = k - j
        /\ k - (j - 1) = k - j + 1 /\ j \in 0..k /\ j - 1 \in 0..k
    BY <1>1
  <2>2. /\ bits[8 * (k - j + 1)] = 256 * bits[8 * (k - j)]
        /\ 8 * (k - j) \in 0..(8 * Octets)
    BY <2>1, BitsOctet
  <2>3. PICK d \in Nat \ {0} : d = bits[8 * (k - j)]
    BY <2>2, BitsGrow
  <2>4. g[j] = n \div d /\ g[j - 1] = n \div (256 * d) /\ o[j] = (n \div d) % 256
    <3>1. g[j] = n \div bits[8 * (k - j)] /\ g[j - 1] = n \div bits[8 * (k - (j - 1))]
      BY <2>1
    <3> QED BY <2>1, <2>2, <2>3, <3>1
  <2>5. (n \div d) \div 256 = n \div (256 * d)
    BY DivTwice, SMTT(60)
  <2>6. n \div d \in Nat
    BY SMT
  <2>7. n \div d = (256 * ((n \div d) \div 256)) + ((n \div d) % 256)
    BY <2>6
  <2> QED BY <2>4, <2>5, <2>7
<1>6. Reads(g)
  <2>1. g = [j \in 0..k |-> g[j]]
    OBVIOUS
  <2>2. \A j \in 0..k : g[j] = IF j = 0 THEN 0 ELSE 256 * g[j - 1] + o[j]
    <3>1. \A j \in 0..k : j # 0 => j \in 1..k
      BY <1>1
    <3> HIDE DEF g
    <3> QED BY <1>3, <1>5, <3>1
  <2> HIDE DEF g
  <2>3. g = [j \in 0..k |-> IF j = 0 THEN 0 ELSE 256 * g[j - 1] + o[j]]
    BY <2>1, <2>2, SMTT(60)
  <2> QED BY <2>3
<1> HIDE DEF g
<1>7. ASSUME NEW f, Reads(f) PROVE f[k] = n
  <2> DEFINE S == {j \in 0..k : f[j] # g[j]}
  <2>1. \A j \in 0..k : f[j] = IF j = 0 THEN 0 ELSE 256 * f[j - 1] + o[j]
    BY <1>7, Zenon
  <2> HIDE DEF Reads
  <2>2. ASSUME S # {} PROVE FALSE
    <3>1. S \subseteq Nat
      BY <1>1
    <3>2. PICK m \in S : \A j \in S : m <= j
      <4> HIDE DEF S
      <4> QED BY <2>2, <3>1, Least
    <3>3. m \in 0..k /\ f[m] # g[m] /\ m # 0
      BY <1>3, <2>1
    <3>4. m \in 1..k /\ m - 1 \in 0..k /\ m - 1 \notin S
      BY <1>1, <3>2, <3>3
    <3>5. f[m - 1] = g[m - 1]
      BY <3>4
    <3> QED BY <1>5, <2>1, <3>3, <3>4, <3>5
  <2>3. k \in 0..k
    BY <1>1
  <2>4. f[k] = g[k]
    BY <2>2, <2>3
  <2> QED BY <1>4, <2>4
<1>8. Number(o) = (CHOOSE f : Reads(f))[k]
  BY DEF Number
<1> HIDE DEF Reads
<1> QED BY <1>6, <1>7, <1>8

\* Every length has an encoding that the reader reads back.
LEMMA ReadBack ==
  ASSUME NEW n \in SizeT, NEW o, o = write_length(n)
  PROVE  /\ o \in Seq(Octet)
         /\ OctetsRead(o) = Len(o)
         /\ LengthRead(o) = n
         /\ Len(o) > 1 => o[2] # 0 /\ n > 127
<1>1. n \in Nat /\ Octets \in Nat
  BY OctetsAssumption, BitsGrow DEF SizeT
<1>2. CASE n <= 127
  <2>1. o = <<n>> /\ n \in 0..127
    BY <1>2, ShortFormIs
  <2>2. o \in Seq(Octet) /\ Len(o) = 1 /\ o[1] = n
    BY <2>1 DEF Octet
  <2> QED BY <2>1, <2>2 DEF OctetsRead, LengthRead
<1>3. CASE n > 127
  <2>1. PICK k \in 1..Octets : n < bits[8 * k] /\ LongForm(o, n, k)
    BY <1>3, LongIs
  <2>2. /\ o \in Seq(Octet) /\ Len(o) = k + 1 /\ o[1] = 128 + k /\ o[2] # 0
        /\ \A j \in 1..k : o[j + 1] = (n \div bits[8 * (k - j)]) % 256
    BY <2>1 DEF LongForm
  <2>3. k \in Nat /\ ~(o[1] < 128)
    BY <1>1, <2>2
  <2>4. /\ Tail(o) \in Seq(Octet) /\ Len(Tail(o)) = k
        /\ \A j \in 1..k : Tail(o)[j] = o[j + 1]
    BY <2>2, <2>3
  <2>5. Number(Tail(o)) = n
    <3> DEFINE t == Tail(o)
    <3>1. /\ t \in Seq(Octet) /\ Len(t) = k
          /\ \A j \in 1..k : t[j] = (n \div bits[8 * (k - j)]) % 256
      BY <2>2, <2>4
    <3> HIDE DEF t
    <3>2. Number(t) = n
      BY <1>1, <2>1, <3>1, NumberIs
    <3> QED BY <3>2 DEF t
  <2>6. OctetsRead(o) = 1 + (o[1] - 128) /\ LengthRead(o) = Number(Tail(o))
    BY <2>3, Zenon DEF OctetsRead, LengthRead
  <2>7. OctetsRead(o) = Len(o)
    BY <2>2, <2>3, <2>6
  <2> QED BY <1>3, <2>2, <2>5, <2>6, <2>7
<1> QED BY <1>1, <1>2, <1>3

\* A length has at most as many octets as size_t.
LEMMA LengthOctetsType ==
  ASSUME NEW n \in SizeT
  PROVE  length_octets(n) \in 1..Octets
<1>1. n \in Nat
  BY OctetsAssumption, BitsGrow DEF SizeT
<1>2. CASE n <= 127
  BY <1>2, OctetsAssumption DEF length_octets
<1>3. CASE n > 127
  BY <1>1, <1>3, OctetsIs DEF length_octets
<1> QED BY <1>1, <1>2, <1>3

-----------------------------------------------------------------------------
(* Every length is read back *)

\* What log_length adds for a string, and that the sum stays a size_t.
LEMMA StringSize ==
  /\ Lengths \subseteq Nat
  /\ \E c \in Nat :
       /\ \A n \in Lengths : string_record_length(n) \in 0..c
       /\ 13 + MaxStrings * c \in SizeT
<1>1. SizeT \subseteq Nat /\ Octets \in Nat
  BY OctetsAssumption, BitsGrow DEF SizeT
<1>2. PICK longest \in Lengths \cup {0} :
        /\ \A n \in Lengths : n <= longest
        /\ 13 + MaxStrings * (1 + Octets + longest) \in SizeT
  BY LengthsAssumption
<1>3. Lengths \subseteq SizeT /\ longest \in Nat
  BY <1>1, LengthsAssumption
<1> DEFINE c == 1 + Octets + longest
<1>4. ASSUME NEW n \in Lengths PROVE string_record_length(n) \in 0..c
  <2>1. n \in Nat /\ n <= longest /\ length_octets(n) \in 1..Octets
    BY <1>1, <1>2, <1>3, LengthOctetsType
  <2> QED BY <1>1, <1>3, <2>1 DEF string_record_length
<1> QED BY <1>1, <1>2, <1>3, <1>4

\* What write_header and write_string wrote, of a length n.
Wrote(item, n) ==
  /\ n \in SizeT
  /\ \E tag \in Octet : item.octets = <<tag>> \o write_length(n)

\* A sum that each string so far has added c to at most.
LEMMA SumFits ==
  ASSUME NEW c \in Nat, 13 + MaxStrings * c \in SizeT,
         NEW k \in 0..MaxStrings, NEW d \in Nat, d <= 13 + k * c
  PROVE  d \in SizeT
<1>1. MaxStrings \in Nat /\ k \in Nat /\ bits[8 * Octets] \in Nat
  BY MaxStringsAssumption, OctetsAssumption, BitsGrow
<1>2. k * c <= MaxStrings * c /\ k * c \in Nat /\ MaxStrings * c \in Nat
  BY <1>1
<1>3. PICK x \in SizeT : x = 13 + MaxStrings * c
  OBVIOUS
<1>4. d <= x
  BY <1>1, <1>2, <1>3 DEF SizeT
<1> QED BY <1>1, <1>4 DEF SizeT

\* TypeOK says that the sum is a size_t, but not why the next string cannot make
\* it overflow, and LengthsReadBack says nothing of the header before it is
\* written.  c is the most that one string adds.
LenInv ==
  /\ TypeOK
  /\ Len(strs) <= MaxStrings
  /\ at = "log_length" =>
       /\ out = << >>
       /\ \A c \in Nat : (\A n \in Lengths : string_record_length(n) \in 0..c) =>
            declared <= 13 + i * c
  /\ at = "header" => out = << >>
  /\ at \notin {"log_length", "header"} => Len(out) > 0
  /\ \A k \in 1..Len(out) :
       Wrote(out[k], IF k = 1 THEN declared ELSE out[k].value)

\* Nothing is written at the start.
LEMMA LenInit == Init => LenInv
<1> SUFFICES ASSUME Init PROVE LenInv
  OBVIOUS
<1>1. PICK n \in {k \in 2..MaxStrings : k % 2 = 0} : strs \in [1..n -> Lengths]
  BY DEF Init
<1>2. n \in Nat /\ n <= MaxStrings
  BY MaxStringsAssumption
<1>3. strs \in Seq(Lengths) /\ Len(strs) = n
  BY <1>1, <1>2
<1>4. \A c \in Nat : declared <= 13 + i * c
  BY DEF Init
<1>6. declared \in SizeT
  <2>1. PICK c \in Nat : 13 + MaxStrings * c \in SizeT
    BY StringSize
  <2>2. declared \in Nat /\ declared <= 13 + 0 * c /\ 0 \in 0..MaxStrings
    BY MaxStringsAssumption DEF Init
  <2> QED BY <2>1, <2>2, SumFits
<1>5. out \in Seq(Items) /\ Len(out) = 0 /\ 1..Len(out) = {}
  BY DEF Init
<1> QED BY <1>2, <1>3, <1>4, <1>5, <1>6 DEF LenInv, TypeOK, Init

\* An item of a length that fits.
LEMMA ItemIs ==
  ASSUME NEW tag \in Octet, NEW n \in SizeT
  PROVE  /\ Item(tag, n) \in Items /\ write_header(tag, n) \in Items
         /\ Wrote(Item(tag, n), n) /\ Wrote(write_header(tag, n), n)
         /\ Item(tag, n).value = n
         /\ Size(Item(tag, n)) \in Nat
<1>1. write_length(n) \in Seq(Octet) /\ n \in Nat
  BY ReadBack, OctetsAssumption, BitsGrow DEF SizeT
<1>2. <<tag>> \o write_length(n) \in Seq(Octet)
  BY <1>1
<1> DEFINE o == <<tag>> \o write_length(n)
<1>3. Item(tag, n) = [octets |-> o, value |-> n]
  BY DEF Item
<1>4. write_header(tag, n) = [octets |-> o, value |-> 0]
  BY DEF write_header
<1>5. o \in Seq(Octet) /\ Len(o) \in Nat
  BY <1>2
<1>6. \E t \in Octet : o = <<t>> \o write_length(n)
  OBVIOUS
<1> HIDE DEF o
<1>7. Item(tag, n) \in Items /\ write_header(tag, n) \in Items
  <2>1. 0 \in SizeT
    BY <1>1, OctetsAssumption, BitsGrow DEF SizeT
  <2> QED BY <2>1, <1>3, <1>4, <1>5 DEF Items
<1>8. /\ Item(tag, n).octets = o /\ write_header(tag, n).octets = o
      /\ Item(tag, n).value = n
  BY <1>3, <1>4
<1>9. Wrote(Item(tag, n), n) /\ Wrote(write_header(tag, n), n)
  BY <1>6, <1>8 DEF Wrote
<1>10. Size(Item(tag, n)) \in Nat
  BY <1>1, <1>5, <1>8 DEF Size
<1> QED BY <1>7, <1>8, <1>9, <1>10

\* Each step writes nothing or an item of a length that fits.
LEMMA LenStep == LenInv /\ [Next]_vars => LenInv'
<1> SUFFICES ASSUME LenInv, [Next]_vars PROVE LenInv'
  OBVIOUS
<1>1. /\ strs \in Seq(Lengths) /\ i \in 0..Len(strs) /\ Len(strs) \in Nat
      /\ Len(strs) <= MaxStrings /\ MaxStrings \in Nat
      /\ declared \in SizeT /\ out \in Seq(Items) /\ size \in Nat
  BY MaxStringsAssumption DEF LenInv, TypeOK
<1>2. SizeT \subseteq Nat /\ Lengths \subseteq SizeT /\ 8 \in SizeT /\ 1 \in SizeT
  <2>1. bits[8 * Octets] \in Nat /\ bits[8 * Octets] >= 256
    <3>1. Octets \in 1..Octets /\ 8 * (Octets - 1) \in 0..(8 * Octets)
      BY OctetsAssumption
    <3>2. bits[8 * (Octets - 1)] \in Nat \ {0} /\ bits[8 * Octets] = 256 * bits[8 * (Octets - 1)]
      BY <3>1, BitsGrow, BitsOctet
    <3> QED BY <3>2
  <2> QED BY <2>1, LengthsAssumption DEF SizeT
<1>3. /\ TTimestamp \in Octet /\ TLevel \in Octet /\ TString \in Octet
      /\ TLogEntry \in Octet
  BY DEF TTimestamp, TLevel, TString, TLogEntry, Octet
<1>4. CASE log_length
  <2>1. /\ at = "log_length" /\ out = << >> /\ out' = out /\ strs' = strs
        /\ size' = size
    BY <1>4 DEF LenInv, log_length
  <2>2. 1..Len(out) = {}
    BY <2>1
  <2>3. CASE i < Len(strs)
    <3>1. at' = at /\ i' = i + 1
          /\ declared' = declared + string_record_length(strs[i + 1])
      BY <1>1, <1>4, <2>3 DEF log_length
    <3>2. i + 1 \in 1..Len(strs) /\ strs[i + 1] \in Lengths
      BY <1>1, <2>3
    <3>3. PICK m : m = string_record_length(strs[i + 1])
      OBVIOUS
    <3>4. m \in Nat
      <4>1. PICK c \in Nat : \A n \in Lengths : string_record_length(n) \in 0..c
        BY StringSize
      <4>2. m \in 0..c
        BY <3>2, <3>3, <4>1
      <4> QED BY <4>2
    <3>5. ASSUME NEW c \in Nat, \A n \in Lengths : string_record_length(n) \in 0..c
          PROVE  declared' <= 13 + i' * c
      <4>1. declared <= 13 + i * c
        BY <2>1, <3>5 DEF LenInv
      <4>2. m <= c
        BY <3>2, <3>3, <3>5
      <4>3. (i + 1) * c = i * c + c /\ i * c \in Nat
        BY <1>1
      <4> QED BY <1>1, <1>2, <3>1, <3>3, <3>4, <4>1, <4>2, <4>3
    <3>6. declared' \in SizeT
      <4>1. PICK c \in Nat : /\ \A n \in Lengths : string_record_length(n) \in 0..c
                             /\ 13 + MaxStrings * c \in SizeT
        BY StringSize
      <4>2. declared' \in Nat
        BY <1>1, <1>2, <3>1, <3>3, <3>4
      <4>3. i' \in 0..MaxStrings
        BY <1>1, <2>3, <3>1
      <4>4. declared' <= 13 + i' * c
        BY <3>5, <4>1
      <4> QED BY <4>1, <4>2, <4>3, <4>4, SumFits
    <3> QED BY <1>1, <2>1, <2>2, <3>1, <3>2, <3>5, <3>6 DEF LenInv, TypeOK
  <2>4. CASE i = Len(strs)
    <3>1. at' = "header" /\ i' = 0 /\ declared' = declared
      BY <1>1, <1>4, <2>4 DEF log_length
    <3> QED BY <1>1, <2>1, <2>2, <3>1 DEF LenInv, TypeOK
  <2> QED BY <1>4, <2>3, <2>4 DEF log_length
<1>5. CASE header
  <2>1. /\ at = "header" /\ at' = "timestamp" /\ out' = <<write_header(TLogEntry, declared)>>
        /\ UNCHANGED <<strs, i, declared, size>>
    BY <1>5 DEF header
  <2>2. PICK h : h = write_header(TLogEntry, declared)
    OBVIOUS
  <2>3. h \in Items /\ Wrote(h, declared)
    BY <1>1, <1>3, <2>2, ItemIs
  <2>4. out' = <<h>> /\ out' \in Seq(Items) /\ Len(out') = 1 /\ out'[1] = h
    BY <2>1, <2>2, <2>3
  <2>5. \A k \in 1..Len(out') : Wrote(out'[k], IF k = 1 THEN declared' ELSE out'[k].value)
    BY <2>1, <2>3, <2>4
  <2> QED BY <1>1, <2>1, <2>3, <2>4, <2>5 DEF LenInv, TypeOK
<1>6. ASSUME NEW item, item \in Items, Wrote(item, item.value), Size(item) \in Nat,
             Put(item), at \notin {"log_length", "header"}, UNCHANGED <<strs, declared>>,
             i' \in 0..Len(strs), at' \in {"level", "strings"}
      PROVE  LenInv'
  <2>1. Len(out) > 0
    BY <1>6 DEF LenInv
  <2>2. out' = Append(out, item) /\ size' \in Nat
    BY <1>1, <1>6 DEF Put
  <2>3. /\ out' \in Seq(Items) /\ Len(out') = Len(out) + 1 /\ Len(out) \in Nat
        /\ out'[Len(out) + 1] = item /\ \A k \in 1..Len(out) : out'[k] = out[k]
    BY <1>1, <1>6, <2>2
  <2>4. ASSUME NEW k \in 1..Len(out')
        PROVE  Wrote(out'[k], IF k = 1 THEN declared' ELSE out'[k].value)
    <3>1. CASE k \in 1..Len(out)
      <4>1. Wrote(out[k], IF k = 1 THEN declared ELSE out[k].value)
        BY <3>1 DEF LenInv
      <4> QED BY <1>6, <2>3, <3>1, <4>1
    <3>2. CASE k = Len(out) + 1
      <4>1. k # 1 /\ out'[k] = item
        BY <2>1, <2>3, <3>2
      <4> QED BY <1>6, <4>1
    <3> QED BY <2>3, <3>1, <3>2
  <2>5. at' \notin {"log_length", "header"} /\ Len(out') > 0
    BY <1>6, <2>3
  <2>6. declared' = declared /\ strs' = strs
    BY <1>6
  <2>7. TypeOK'
    BY <1>1, <1>6, <2>2, <2>3, <2>6 DEF TypeOK
  <2> QED BY <1>1, <2>1, <2>4, <2>5, <2>6, <2>7, Zenon DEF LenInv
<1>7. CASE timestamp
  <2>1. /\ write_timestamp \in Items /\ Wrote(write_timestamp, write_timestamp.value)
        /\ Size(write_timestamp) \in Nat
    BY <1>2, <1>3, ItemIs DEF write_timestamp
  <2> QED BY <1>1, <1>6, <1>7, <2>1 DEF timestamp
<1>8. CASE loglevel
  <2>1. /\ write_loglevel \in Items /\ Wrote(write_loglevel, write_loglevel.value)
        /\ Size(write_loglevel) \in Nat
    BY <1>2, <1>3, ItemIs DEF write_loglevel
  <2> QED BY <1>1, <1>6, <1>8, <2>1 DEF loglevel
<1>9. CASE strings
  <2>1. i + 1 \in 1..Len(strs)
    BY <1>1, <1>9 DEF strings
  <2>2. PICK s : s = strs[i + 1]
    OBVIOUS
  <2>3. s \in SizeT
    <3>1. strs[i + 1] \in Lengths
      BY <1>1, <2>1
    <3> QED BY <1>2, <2>2, <3>1, Zenon
  <2>4. /\ write_string(s) \in Items /\ Wrote(write_string(s), write_string(s).value)
        /\ Size(write_string(s)) \in Nat
    BY <1>3, <2>3, ItemIs DEF write_string
  <2>5. Put(write_string(s)) /\ at = "strings" /\ at' = at /\ i' = i + 1
        /\ UNCHANGED <<strs, declared>>
    BY <1>9, <2>2 DEF strings
  <2>6. i' \in 0..Len(strs)
    BY <1>1, <2>1, <2>5
  <2> QED BY <1>6, <2>4, <2>5, <2>6
<1>10. CASE done
  BY <1>10 DEF LenInv, TypeOK, done
<1>11. CASE UNCHANGED vars
  BY <1>11 DEF LenInv, TypeOK, vars
<1> QED
  BY <1>4, <1>5, <1>7, <1>8, <1>9, <1>10, <1>11 DEF Next

\* For any width of size_t and any strings that fit in memory, the sum log_length
\* makes stays a size_t at every string, and what write_length puts out of it
\* and of every other length is octets.
THEOREM TypeCorrect == Spec => []TypeOK
<1>1. LenInv => TypeOK
  BY DEF LenInv
<1> QED BY <1>1, LenInit, LenStep, PTL DEF Spec

\* A reader gets back every length that is written, for every length a size_t
\* has.
THEOREM AllReadBack == Spec => []LengthsReadBack
<1>1. ASSUME LenInv PROVE LengthsReadBack
  <2> SUFFICES ASSUME NEW k \in 1..Len(out)
               PROVE  LET o == Tail(out[k].octets)
                          n == IF k = 1 THEN declared ELSE out[k].value
                      IN  /\ OctetsRead(o) = Len(o)
                          /\ LengthRead(o) = n
                          /\ Len(o) > 1 => o[2] # 0 /\ n > 127
    BY DEF LengthsReadBack
  <2> DEFINE n == IF k = 1 THEN declared ELSE out[k].value
  <2>1. Wrote(out[k], n)
    BY <1>1 DEF LenInv
  <2> HIDE DEF n
  <2>2. PICK tag \in Octet : out[k].octets = <<tag>> \o write_length(n)
    BY <2>1 DEF Wrote
  <2>3. n \in SizeT /\ write_length(n) \in Seq(Octet)
    BY <2>1, ReadBack DEF Wrote
  <2>4. Tail(out[k].octets) = write_length(n)
    BY <2>2, <2>3
  <2> QED BY <2>3, <2>4, ReadBack DEF n
<1> QED BY <1>1, LenInit, LenStep, PTL DEF Spec

-----------------------------------------------------------------------------
(* The length in a record's header *)

\* log_length and write_tlv_log go over the same strings, one after the other.
\* What relates them is the sequence of the sums on the way: the first loop
\* makes it, element by element, and the second one follows it.

\* No string is longer than the short form of a length.
Short == \A k \in 1..Len(strs) : strs[k] <= 127

\* sums[k]: log_length after k strings.
Sums(sums, n) ==
  /\ sums \in [0..n -> Int]
  /\ sums[0] = 13
  /\ \A k \in 1..n : sums[k] = sums[k - 1] + string_record_length(strs[k])

\* declared and size are those sums.
Added ==
  /\ at = "log_length" => size = 0 /\ \E sums : Sums(sums, i) /\ declared = sums[i]
  /\ at # "log_length" =>
       \E sums :
         /\ Sums(sums, Len(strs)) /\ declared = sums[Len(strs)]
         /\ at \in {"header", "timestamp"} => i = 0 /\ size = 0
         /\ at = "level" => i = 0 /\ size = 10
         /\ at = "strings" => size = sums[i]
         /\ at = "done" => size = declared

\* What the proof needs of TypeOK, and the sums.
SumInv ==
  /\ strs \in Seq(Nat)
  /\ at \in {"log_length", "header", "timestamp", "level", "strings", "done"}
  /\ i \in 0..Len(strs)
  /\ Short => Added

-----------------------------------------------------------------------------

\* The sizes of the items whose length has the short form.
LEMMA ShortSizes ==
  /\ Size(write_timestamp) = 10
  /\ Size(write_loglevel) = 3
  /\ \A n \in 0..127 : /\ Size(write_string(n)) = n + 2
                       /\ string_record_length(n) = n + 2
<1>1. ASSUME NEW tag, NEW n \in 0..127
      PROVE  Size(Item(tag, n)) = n + 2
  <2>1. Item(tag, n) = [octets |-> <<tag>> \o <<n>>, value |-> n]
    <3>1. write_length(n) = <<n>>
      <4>1. n <= 127
        OBVIOUS
      <4> QED BY <4>1, Zenon DEF write_length
    <3> QED BY <3>1 DEF Item
  <2>2. Len(<<tag>> \o <<n>>) = 2
    OBVIOUS
  <2> QED BY <2>1, <2>2 DEF Size
<1>2. \A n \in 0..127 : string_record_length(n) = n + 2
  BY DEF string_record_length, length_octets
<1>3. Size(Item(TTimestamp, 8)) = 10 /\ Size(Item(TLevel, 1)) = 3
  BY <1>1
<1> QED
  BY <1>1, <1>2, <1>3 DEF write_timestamp, write_loglevel, write_string

\* The sums hold at the start: nothing was added to the 13 octets of time and
\* level.
LEMMA SumInit == Init => SumInv
<1> SUFFICES ASSUME Init PROVE SumInv
  OBVIOUS
<1>1. strs \in Seq(Nat)
  <2>1. PICK n \in Nat : strs \in [1..n -> Lengths]
    BY MaxStringsAssumption DEF Init
  <2>2. Lengths \subseteq Nat
    BY StringSize
  <2>3. strs \in [1..n -> Nat]
    BY <2>1, <2>2
  <2> QED BY <2>3
<1>2. Len(strs) \in Nat
  BY <1>1
<1>3. Added
  <2> DEFINE f == [k \in 0..0 |-> 13]
  <2>1. Sums(f, 0) /\ f[0] = 13
    BY DEF Sums
  <2> HIDE DEF f
  <2> QED BY <2>1 DEF Added, Init
<1> QED BY <1>1, <1>2, <1>3 DEF SumInv, Init

\* Each step keeps them.
LEMMA SumStep == SumInv /\ [Next]_vars => SumInv'
<1> SUFFICES ASSUME SumInv, [Next]_vars PROVE SumInv'
  OBVIOUS
<1>1. strs \in Seq(Nat) /\ i \in 0..Len(strs) /\ Len(strs) \in Nat
  BY DEF SumInv
<1>2. strs' = strs
  BY DEF Next, vars, log_length, header, timestamp, loglevel, strings, done
<1>3. /\ at' \in {"log_length", "header", "timestamp", "level", "strings", "done"}
      /\ i' \in 0..Len(strs)
  BY <1>1 DEF SumInv, Next, vars, log_length, header, timestamp, loglevel, strings, done
<1> SUFFICES ASSUME Short PROVE Added'
  BY <1>1, <1>2, <1>3 DEF SumInv, Short
<1>4. Added /\ \A k \in 1..Len(strs) : strs[k] \in 0..127
  <2>1. Added
    BY DEF SumInv
  <2>2. ASSUME NEW k \in 1..Len(strs) PROVE strs[k] \in 0..127
    <3>1. strs[k] \in Nat
      BY <1>1
    <3>2. strs[k] <= 127
      BY DEF Short
    <3>3. \A n \in Nat : n <= 127 => n \in 0..127
      OBVIOUS
    <3> QED BY <3>1, <3>2, <3>3, Zenon
  <2> QED BY <2>1, <2>2
<1>5. ASSUME NEW f, NEW n PROVE Sums(f, n) <=> Sums(f, n)'
  BY <1>2 DEF Sums
<1>6. CASE log_length
  <2>1. size = 0 /\ size' = 0
    BY <1>4, <1>6 DEF Added, log_length
  <2>2. PICK f : Sums(f, i) /\ declared = f[i]
    BY <1>4, <1>6 DEF Added, log_length
  <2>3. CASE i < Len(strs)
    <3>0. PICK n : n = i + 1
      OBVIOUS
    <3> DEFINE d == declared + string_record_length(strs[n])
               g == [k \in 0..n |-> IF k = n THEN d ELSE f[k]]
    <3>1. at' = "log_length" /\ i' = n /\ declared' = d
      BY <1>1, <1>6, <2>3, <3>0 DEF log_length
    <3>2. n \in Nat /\ i \in Nat /\ n \in 1..Len(strs) /\ n - 1 = i /\ i # n
      BY <1>1, <2>3, <3>0
    <3>3. string_record_length(strs[n]) \in Int
      <4>1. strs[n] \in 0..127
        BY <1>4, <3>2
      <4>2. string_record_length(strs[n]) = strs[n] + 2
        BY <4>1, ShortSizes
      <4> QED BY <4>1, <4>2
    <3>4. f \in [0..i -> Int] /\ declared \in Int
      BY <2>2, <3>2 DEF Sums
    <3>5. d \in Int
      BY <3>3, <3>4
    <3> HIDE DEF d
    <3>6. g \in [0..n -> Int] /\ g[0] = 13 /\ g[n] = d
      BY <2>2, <3>2, <3>4, <3>5 DEF Sums
    <3>7. d = f[i] + string_record_length(strs[n])
      BY <2>2 DEF d
    <3>8. ASSUME NEW k \in 1..n
          PROVE  g[k] = g[k - 1] + string_record_length(strs[k])
      <4>1. CASE k = n
        BY <3>2, <3>7, <4>1
      <4>2. CASE k # n
        <5>1. k \in 1..i /\ k - 1 \in 0..n /\ k - 1 # n /\ k \in 0..n
          BY <3>2, <4>2
        <5> QED BY <2>2, <4>2, <5>1 DEF Sums
      <4> QED BY <4>1, <4>2
    <3>9. Sums(g, n)
      BY <3>6, <3>8 DEF Sums
    <3> HIDE DEF g
    <3>10. PICK x : x = g
      OBVIOUS
    <3>11. Sums(x, n)' /\ x[n] = d
      BY <1>5, <3>6, <3>9, <3>10
    <3> QED BY <2>1, <3>1, <3>11 DEF Added
  <2>4. CASE i = Len(strs)
    <3>1. at' = "header" /\ i' = 0 /\ declared' = declared
      BY <1>1, <1>6, <2>4 DEF log_length
    <3> QED BY <1>2, <2>1, <2>2, <2>4, <3>1 DEF Added, Sums
  <2> QED BY <1>6, <2>3, <2>4 DEF log_length
<1>7. CASE header
  BY <1>2, <1>4, <1>7 DEF Added, Sums, header
<1>8. CASE timestamp
  <2>1. at = "timestamp" /\ at' = "level" /\ size' = size + 10 /\ UNCHANGED <<i, declared>>
    BY <1>8, ShortSizes DEF timestamp, Put
  <2> QED BY <1>2, <1>4, <2>1 DEF Added, Sums
<1>9. CASE loglevel
  <2>1. at = "level" /\ at' = "strings" /\ size' = size + 3 /\ UNCHANGED <<i, declared>>
    BY <1>9, ShortSizes DEF loglevel, Put
  <2>2. PICK f : /\ Sums(f, Len(strs)) /\ declared = f[Len(strs)]
                 /\ i = 0 /\ size = 10
    BY <1>4, <2>1 DEF Added
  <2>3. size' = f[i]
    BY <2>1, <2>2 DEF Sums
  <2> QED BY <1>2, <2>1, <2>2, <2>3 DEF Added, Sums
<1>10. CASE strings
  <2> DEFINE n == i + 1
  <2>1. /\ at = "strings" /\ at' = "strings" /\ i' = n /\ declared' = declared
        /\ i < Len(strs) /\ size' = size + Size(write_string(strs[n]))
    BY <1>10 DEF strings, Put
  <2>2. n \in 1..Len(strs) /\ n - 1 = i
    BY <1>1, <2>1
  <2>3. Size(write_string(strs[n])) = string_record_length(strs[n])
    BY <1>4, <2>2, ShortSizes
  <2>4. PICK f : Sums(f, Len(strs)) /\ declared = f[Len(strs)] /\ size = f[i]
    BY <1>4, <2>1 DEF Added
  <2>5. f[n] = f[i] + string_record_length(strs[n])
    BY <2>2, <2>4 DEF Sums
  <2>6. size' = f[n]
    BY <2>1, <2>3, <2>4, <2>5
  <2> HIDE DEF n
  <2>7. Sums(f, Len(strs))'
    BY <1>2, <2>4 DEF Sums
  <2> QED BY <1>2, <2>1, <2>4, <2>6, <2>7 DEF Added
<1>11. CASE done
  BY <1>2, <1>4, <1>11 DEF Added, Sums, done
<1>12. CASE UNCHANGED vars
  BY <1>2, <1>4, <1>12 DEF Added, Sums, vars
<1> QED
  BY <1>6, <1>7, <1>8, <1>9, <1>10, <1>11, <1>12 DEF Next

\* When no string is longer than 127 octets, the length write_tlv_log declares
\* is the number of octets it writes behind the header, for any number of
\* strings and any width of size_t.
THEOREM ShortRecords == Spec => []ShortIsExact
<1>1. SumInv => ShortIsExact
  BY DEF SumInv, Short, Added, ShortIsExact
<1> QED BY <1>1, SumInit, SumStep, PTL DEF Spec

=============================================================================
