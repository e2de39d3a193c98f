------------------------------ MODULE Lexinum ------------------------------
(***************************************************************************)
(* Package lexinum: heights as byte strings that compare as the heights    *)
(* do, in two formats, and the bytes.Compare order of badger's keys.       *)
(*                                                                         *)
(* The greatest byte and the number of leading bytes of the short format   *)
(* are parameters; all else in the code follows from them.                 *)
(***************************************************************************)
EXTENDS Integers, Sequences, SequencesExt, FiniteSetsExt

CONSTANTS
  Byte,     \* 255, the greatest byte
  Lead,     \* 127, the leading bytes of the short format
  Word      \* 2^32

\* Only the long format has the leading byte Byte, its lead fits in a word.
ASSUME LexinumAssumption ==
  /\ Byte \in Nat /\ Lead \in Nat /\ Word \in Nat
  /\ 3 < Byte /\ 0 < Lead /\ Lead < Byte

Low == Byte - Lead                  \* 0x80
Base == Byte - 2                    \* 253: a digit of the lead, from 2 on
MaxSmall == Lead * Byte * Byte      \* 8258175
U32 == 0..(Word - 1)

----------------------------------------------------------------------------
(* EncodeHeight.                                                           *)

\* Which heights have the short format.  (slip: one too many)
IsSmall_Inclusive(v) == v <= MaxSmall
IsSmall(v) == v < MaxSmall

Short(v) == << Low + v \div (Byte * Byte),
               ((v \div Byte) % Byte) + 1,
               (v % Byte) + 1 >>

\* The digits of the lead, the most significant first.
Digits[n \in U32] ==
  IF n = 0 THEN <<>> ELSE Append(Digits[n \div Base], (n % Base) + 2)

\* pow: as many factors as the exponent says, in 32 bits.
Power(n) == FoldLeft(LAMBDA p, i : (p * Base) % Word, 1, [i \in 1..n |-> i])

\* Every lead is below a power of the base that fits in a word.
ASSUME PowersAssumption ==
  \E n \in 1..(Byte - 1) :
    /\ (Word - 1) \div Byte < Power(n)
    /\ \A k \in 1..n : Power(k) = Power(k - 1) * Base

\* The loop ends at the first power above the lead; a byte tells how many
\* turns it took.
Size(lead) ==
  CHOOSE n \in 1..(Byte - 1) : /\ lead \div Power(n) = 0
                              /\ \A k \in 1..(n - 1) : lead \div Power(k) # 0

\* slip: the digits are not preceded by their number
Long_NoSize(v) ==
  LET lead == (v - MaxSmall) \div Byte
      rem == (v - MaxSmall) % Byte
  IN <<Byte, 2>> \o Digits[lead] \o (IF rem > 0 THEN <<1, rem>> ELSE <<>>)

Long(v) ==
  LET lead == (v - MaxSmall) \div Byte
      rem == (v - MaxSmall) % Byte
  IN <<Byte, Size(lead) + 1>> \o Digits[lead]
       \o (IF rem > 0 THEN <<1, rem>> ELSE <<>>)

EncodeHeight(v) == IF IsSmall(v) THEN Short(v) ELSE Long(v)

----------------------------------------------------------------------------
(* DecodeHeight.                                                           *)

Invalid == [ok |-> FALSE]
Height(v) == [ok |-> TRUE, height |-> v % Word]

Value(digits) == FoldLeft(LAMBDA v, char : (v * Base + char - 2) % Word, 0, digits)

\* A byte 1 ends the digits: one more byte, the remainder, must follow.
DecodeLong(body) ==
  LET marks == {i \in DOMAIN body : body[i] = 1} IN
  IF marks = {} THEN Height(Value(body) * Byte + MaxSmall)
  ELSE LET i == Min(marks) IN
       IF i # Len(body) - 1 THEN Invalid
       ELSE Height(Value(SubSeq(body, 1, i - 1)) * Byte + body[i + 1] + MaxSmall)

DecodeHeight(d) ==
  IF Len(d) < 2 \/ d[1] < Low THEN Invalid
  ELSE IF d[1] = Byte THEN DecodeLong(SubSeq(d, 3, Len(d)))
  ELSE IF Len(d) < 3 THEN Invalid
  ELSE Height(((d[1] - Low) * Byte + d[2] - 1) * Byte + d[3] - 1)

----------------------------------------------------------------------------
(* bytes.Compare.                                                          *)

Less(s, t) ==
  \/ IsStrictPrefix(s, t)
  \/ \E i \in DOMAIN s \intersect DOMAIN t :
       /\ s[i] < t[i]
       /\ \A j \in 1..(i - 1) : s[j] = t[j]

AtMost(s, t) == s = t \/ Less(s, t)
=============================================================================
