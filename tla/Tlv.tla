--------------------------------- MODULE Tlv --------------------------------
(***************************************************************************)
(* The binary records of klog::tlv (tlv.cc): the tag and length octets in  *)
(* front of every value, and write_tlv_log, which first adds up how long   *)
(* the record will be and then writes it.                                  *)
(*                                                                         *)
(* A string is its length: which octets it holds is never looked at.  An   *)
(* item of the output is what one write_... call puts out: the octets of   *)
(* tag and length, and how many value octets follow them.  A stream that   *)
(* fails in the middle is the subject of BinLogger.                        *)
(* Bounds: size_t has Octets octets (8 in the code); a record has at most  *)
(* MaxStrings strings, whose lengths are taken from Lengths.               *)
(***************************************************************************)
EXTENDS Integers, Sequences

CONSTANTS Octets, Lengths, MaxStrings

\* How many octets a length has is written in seven bits.
ASSUME OctetsAssumption == Octets \in 1..127
ASSUME MaxStringsAssumption == MaxStrings \in Nat

\* size_t bits = 1; bits <<= i.  The last one is the first number that does not
\* fit in a size_t.
bits[i \in 0..(8 * Octets)] == IF i = 0 THEN 1 ELSE 2 * bits[i - 1]

SizeT == 0..(bits[8 * Octets] - 1)

\* A length fits in a size_t, and so does the sum of a record: its strings are
\* in memory together, each with more around it than its tag and length take.
ASSUME LengthsAssumption ==
  /\ Lengths \subseteq SizeT
  /\ \E longest \in Lengths \cup {0} :
       /\ \A n \in Lengths : n <= longest
       /\ 13 + MaxStrings * (1 + Octets + longest) \in SizeT

Octet == 0..255

TLogEntry == 1
TTimestamp == 2
TLevel == 4
TString == 8

-----------------------------------------------------------------------------
(* Lengths *)

\* The highest bit of n that is set; the scan stops at bit 1.
HighestBit(n) ==
  CHOOSE i \in 1..(8 * Octets - 1) :
    /\ (n \div bits[i]) % 2 = 1
    /\ \A j \in (i + 1)..(8 * Octets - 1) : (n \div bits[j]) % 2 = 0

\* The octets of n up to its highest one, counted by the loop that both
\* length_octets and write_length have.
loct(n) == (HighestBit(n) + 8) \div 8

length_octets(n) == IF n <= 127 THEN 1 ELSE loct(n)

\* n in memory after the octets were swapped: big-endian.
BigEndian(n) == [i \in 1..Octets |-> (n \div bits[8 * (Octets - i)]) % 256]

\* Mutant: every zero octet is left out, not only those in front.
write_length_NoZeros(n) ==
  IF n <= 127 THEN <<n>>
  ELSE <<(128 + loct(n)) % 256>> \o SelectSeq(BigEndian(n), LAMBDA o : o # 0)

\* Short form up to 127; else 128 plus the number of octets, and then the
\* octets of n from the first one that is not zero.
write_length(n) ==
  IF n <= 127 THEN <<n>>
  ELSE LET b == BigEndian(n)
           off == CHOOSE i \in 1..Octets :
                    b[i] # 0 /\ \A j \in 1..(i - 1) : b[j] = 0
       IN  <<(128 + loct(n)) % 256>> \o SubSeq(b, off, Octets)

-----------------------------------------------------------------------------
(* Records *)

Item(tag, n) == [octets |-> <<tag>> \o write_length(n), value |-> n]
Items == [octets : Seq(Octet), value : SizeT]
Size(item) == Len(item.octets) + item.value

write_timestamp == Item(TTimestamp, 8)
write_loglevel == Item(TLevel, 1)
write_string(n) == Item(TString, n)
write_header(tag, n) == [octets |-> <<tag>> \o write_length(n), value |-> 0]

\* Mutant: the tag is not counted.
string_record_length_NoTag(n) == length_octets(n) + n

string_record_length(n) == 1 + length_octets(n) + n

VARIABLES
  strs,     \* lengths of actor, event, and the attributes' keys and values
  at,       \* the next step of write_tlv_log
  i,        \* strings done in the present loop
  declared, \* log_length so far
  out,      \* the items written
  size      \* history: octets written behind the header

vars == <<strs, at, i, declared, out, size>>

TypeOK ==
  /\ strs \in Seq(Lengths)
  /\ at \in {"log_length", "header", "timestamp", "level", "strings", "done"}
  /\ i \in 0..Len(strs)
  /\ declared \in SizeT
  /\ out \in Seq(Items)
  /\ size \in Nat

\* Mutant: the strings are written with the index the sum left off at.
log_length_Index ==
  /\ at = "log_length"
  /\ \/ /\ i < Len(strs)
        /\ declared' = declared + string_record_length(strs[i + 1])
        /\ i' = i + 1
        /\ UNCHANGED at
     \/ /\ i = Len(strs)
        /\ at' = "header"
        /\ i' = i + 1
        /\ UNCHANGED declared
  /\ UNCHANGED <<strs, out, size>>

\* One string of log_length's sum.
log_length ==
  /\ at = "log_length"
  /\ \/ /\ i < Len(strs)
        /\ declared' = declared + string_record_length(strs[i + 1])
        /\ i' = i + 1
        /\ UNCHANGED at
     \/ /\ i = Len(strs)
        /\ at' = "header"
        /\ i' = 0
        /\ UNCHANGED declared
  /\ UNCHANGED <<strs, out, size>>

header ==
  /\ at = "header"
  /\ out' = <<write_header(TLogEntry, declared)>>
  /\ at' = "timestamp"
  /\ UNCHANGED <<strs, i, declared, size>>

Put(item) == out' = Append(out, item) /\ size' = size + Size(item)

timestamp ==
  /\ at = "timestamp"
  /\ Put(write_timestamp)
  /\ at' = "level"
  /\ UNCHANGED <<strs, i, declared>>

loglevel ==
  /\ at = "level"
  /\ Put(write_loglevel)
  /\ at' = "strings"
  /\ UNCHANGED <<strs, i, declared>>

strings ==
  /\ at = "strings"
  /\ i < Len(strs)
  /\ Put(write_string(strs[i + 1]))
  /\ i' = i + 1
  /\ UNCHANGED <<strs, at, declared>>

done ==
  /\ at = "strings" /\ i = Len(strs)
  /\ at' = "done"
  /\ UNCHANGED <<strs, i, declared, out, size>>

Init ==
  /\ strs \in UNION {[1..n -> Lengths] : n \in {k \in 2..MaxStrings : k % 2 = 0}}
  /\ at = "log_length"
  /\ i = 0
  /\ declared = 13
  /\ out = << >>
  /\ size = 0

Next == log_length \/ header \/ timestamp \/ loglevel \/ strings \/ done

Spec == Init /\ [][Next]_vars

-----------------------------------------------------------------------------
(* Properties *)

\* A reader of the length octets o, written independently of write_length:
\* one octet below 128 is the length; otherwise it tells how many octets of
\* the length follow it.
Number(o) ==
  LET first[k \in 0..Len(o)] == IF k = 0 THEN 0 ELSE 256 * first[k - 1] + o[k]
  IN  first[Len(o)]
OctetsRead(o) == IF o[1] < 128 THEN 1 ELSE 1 + (o[1] - 128)
LengthRead(o) == IF o[1] < 128 THEN o[1] ELSE Number(Tail(o))

\* Every length is read back as it was written and ends where the reader says
\* it ends, although write_length finds the number of octets by a scan over
\* bits and the octets themselves by another one over bytes.
LengthsReadBack ==
  \A k \in 1..Len(out) :
    LET o == Tail(out[k].octets)
        n == IF k = 1 THEN declared ELSE out[k].value
    IN  /\ OctetsRead(o) = Len(o)
        /\ LengthRead(o) = n
        /\ Len(o) > 1 => o[2] # 0 /\ n > 127

\* When no string is longer than 127 octets the length in the header is the
\* number of octets behind it, so a reader finds the next record.
ShortIsExact ==
  at = "done" /\ (\A k \in 1..Len(strs) : strs[k] <= 127) => declared = size

\* src/tlv_test.cc: the record of a string of 128 octets is "088180" and the
\* string, 131 octets, one of them the octet in front of the length.  So the
\* length in a header has to be the number of octets behind it.
DeclaredIsExact == at = "done" => declared = size

=============================================================================
