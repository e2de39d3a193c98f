--------------------------- MODULE LexinumProofs ---------------------------
(***************************************************************************)
(* The encoding of heights, the keys of balances made with it, and the     *)
(* searches over those keys, for every width of byte, base, split between  *)
(* the formats, word, set of addresses and set of heights that the named   *)
(* assumptions of Lexinum, BalanceKeys and HeightOrder allow.              *)
(*                                                                         *)
(*   1. Strings: Less is a total order, and what lies between two strings  *)
(*      with a prefix has that prefix.                                     *)
(*   2. Digits, powers and Size: a lead of k digits is below Power(k).     *)
(*   3. The short format orders and returns every small height.            *)
(*   4. The long format, and both together: EncodedInOrder and DecodedIs,  *)
(*      and what HeightOrder asks of them.                                 *)
(*   5. Keys: the parts of a key are found again, no key has the prefix of *)
(*      another account and contract, keys sort as their heights.          *)
(*   6. Searches: the seeks and the scan find what they are meant to find. *)
(***************************************************************************)
EXTENDS BalanceKeys, HeightOrder, SequenceTheorems, FiniteSetTheorems, TLAPS

----------------------------------------------------------------------------
(* Strings of bytes.                                                       *)

\* The strings the encoder builds: characters from 0 to the widest byte.
Strings == Seq(0..Byte)

\* The induction over numbers of Folding, whatever the fold.
Concat == INSTANCE Folding WITH Step <- LAMBDA env, x, y : x, Top <- Max

\* Where the lower of two strings first differs from the other, or ends.
Before(s, t, i) ==
  /\ i \in 1..Len(t) /\ i - 1 <= Len(s)
  /\ \A j \in 1..(i - 1) : s[j] = t[j]
  /\ i <= Len(s) => s[i] < t[i]

\* The characters of a string are numbers, at the places 1 to its length.
LEMMA StringLen ==
  ASSUME NEW s \in Strings
  PROVE  Len(s) \in Nat /\ DOMAIN s = 1..Len(s) /\ \A i \in 1..Len(s) : s[i] \in 0..Byte /\ s[i] \in Int
<1>1. Len(s) \in Nat /\ DOMAIN s = 1..Len(s) /\ s \in [1..Len(s) -> 0..Byte]
  BY LenProperties DEF Strings
<1>2. Byte \in Nat BY LexinumAssumption
<1> QED BY <1>1, <1>2

\* The first Len(s) elements are the whole of s.
LEMMA PrefixAt ==
  ASSUME NEW s \in Strings, NEW t \in Strings
  PROVE  IsPrefix(s, t) <=> Len(s) <= Len(t) /\ \A j \in 1..Len(s) : s[j] = t[j]
<1>l. Len(s) \in Nat /\ Len(t) \in Nat /\ (\A i \in 1..Len(s) : s[i] \in 0..Byte)
      /\ (\A i \in 1..Len(t) : t[i] \in 0..Byte)
  BY StringLen
<1> DEFINE n == Len(s)
           a == SubSeq(s, 1, n)
           b == SubSeq(t, 1, n)
<1>1. ASSUME n <= Len(t)
      PROVE  /\ a \in Strings /\ Len(a) = n /\ \A i \in 1..n : a[i] = s[i]
             /\ b \in Strings /\ Len(b) = n /\ \A i \in 1..n : b[i] = t[i]
  <2>1. \A i \in 1..n : s[i] \in 0..Byte /\ t[i] \in 0..Byte BY <1>1, <1>l
  <2>2. /\ a \in Strings /\ Len(a) = (IF 1 <= n THEN n - 1 + 1 ELSE 0)
        /\ \A i \in 1..(n - 1 + 1) : a[i] = s[1 + i - 1]
    BY <1>l, <2>1, SubSeqProperties DEF Strings
  <2>3. /\ b \in Strings /\ Len(b) = (IF 1 <= n THEN n - 1 + 1 ELSE 0)
        /\ \A i \in 1..(n - 1 + 1) : b[i] = t[1 + i - 1]
    BY <1>l, <2>1, SubSeqProperties DEF Strings
  <2> HIDE DEF a, b
  <2>4. \A i \in 1..n : i \in 1..(n - 1 + 1) /\ 1 + i - 1 = i BY <1>l
  <2>5. (IF 1 <= n THEN n - 1 + 1 ELSE 0) = n BY <1>l
  <2> QED BY <2>2, <2>3, <2>4, <2>5
<1>2. IsPrefix(s, t) <=> n <= Len(t) /\ a = b BY DEF IsPrefix
<1>3. ASSUME n <= Len(t), \A j \in 1..n : s[j] = t[j] PROVE a = b
  <2>0. a \in Strings /\ b \in Strings /\ Len(a) = n /\ Len(b) = n
        /\ \A i \in 1..n : a[i] = b[i]
    BY <1>1, <1>3
  <2> HIDE DEF a, b, n
  <2> QED BY <2>0, SeqEqual DEF Strings
<1>4. ASSUME n <= Len(t), a = b PROVE \A j \in 1..n : s[j] = t[j]
  <2> HIDE DEF a, b
  <2> QED BY <1>1, <1>4
<1> HIDE DEF a, b
<1> QED BY <1>2, <1>3, <1>4

\* The order of badger's keys is that of the first difference.
LEMMA LessAt ==
  ASSUME NEW s \in Strings, NEW t \in Strings
  PROVE  Less(s, t) <=> \E i \in Nat : Before(s, t, i)
<1>l. Len(s) \in Nat /\ Len(t) \in Nat /\ DOMAIN s = 1..Len(s) /\ DOMAIN t = 1..Len(t)
      /\ (\A i \in 1..Len(s) : s[i] \in Int) /\ (\A i \in 1..Len(t) : t[i] \in Int)
  BY StringLen
<1>1. ASSUME IsStrictPrefix(s, t) PROVE Before(s, t, Len(s) + 1)
  <2>1. Len(s) <= Len(t) /\ (\A j \in 1..Len(s) : s[j] = t[j]) /\ s # t
    BY <1>1, PrefixAt DEF IsStrictPrefix
  <2>2. Len(s) # Len(t) BY <2>1, SeqEqual DEF Strings
  <2> DEFINE m == Len(s)
             n == Len(t)
  <2>a. m \in Nat /\ n \in Nat /\ m <= n /\ m # n BY <1>l, <2>1, <2>2
  <2>b. m \in Nat /\ n \in Nat /\ m <= n /\ m # n => (m + 1) - 1 = m /\ m + 1 \in 1..n /\ ~(m + 1 <= m)
    <3> HIDE DEF m, n
    <3> QED OBVIOUS
  <2>3. (Len(s) + 1) - 1 = Len(s) /\ Len(s) + 1 \in 1..Len(t) /\ ~(Len(s) + 1 <= Len(s))
    BY <2>a, <2>b
  <2> QED BY <1>l, <2>1, <2>3 DEF Before
<1>2. ASSUME NEW i \in DOMAIN s \intersect DOMAIN t, s[i] < t[i],
             \A j \in 1..(i - 1) : s[j] = t[j]
      PROVE  i \in Nat /\ Before(s, t, i)
  BY <1>l, <1>2 DEF Before
<1>3. ASSUME NEW i \in Nat, Before(s, t, i) PROVE Less(s, t)
  <2>1. CASE i <= Len(s)
    <3>1. i \in DOMAIN s \intersect DOMAIN t BY <1>l, <1>3, <2>1 DEF Before
    <3> QED BY <1>3, <2>1, <3>1 DEF Before, Less
  <2>2. CASE ~(i <= Len(s))
    <3>1. i = Len(s) + 1 /\ Len(s) < Len(t) BY <1>l, <1>3, <2>2 DEF Before
    <3>2. IsPrefix(s, t) BY <1>l, <1>3, <3>1, PrefixAt DEF Before
    <3>3. s # t BY <1>l, <3>1
    <3> QED BY <3>2, <3>3 DEF Less, IsStrictPrefix
  <2> QED BY <2>1, <2>2
<1>4. Len(s) + 1 \in Nat BY <1>l
<1> QED BY <1>1, <1>2, <1>3, <1>4 DEF Less

\* It is a strict order in which any two strings compare.
LEMMA LessIrreflexive ==
  ASSUME NEW s \in Strings
  PROVE  ~Less(s, s)
<1>1. \A i \in 1..Len(s) : s[i] \in Int BY StringLen
<1>2. ASSUME NEW i \in Nat, Before(s, s, i) PROVE FALSE
  <2>1. i \in 1..Len(s) /\ s[i] < s[i] BY StringLen, <1>2 DEF Before
  <2> QED BY <1>1, <2>1
<1> QED BY <1>2, LessAt

\* The order of strings is transitive,
LEMMA LessTransitive ==
  ASSUME NEW s \in Strings, NEW t \in Strings, NEW u \in Strings, Less(s, t), Less(t, u)
  PROVE  Less(s, u)
<1>l. Len(s) \in Nat /\ Len(t) \in Nat /\ Len(u) \in Nat
      /\ (\A i \in 1..Len(s) : s[i] \in Int) /\ (\A i \in 1..Len(t) : t[i] \in Int)
      /\ (\A i \in 1..Len(u) : u[i] \in Int)
  BY StringLen
<1>1. PICK i \in Nat : Before(s, t, i) BY LessAt
<1>2. PICK j \in Nat : Before(t, u, j) BY LessAt
<1>3. CASE i <= j
  <2>1. \A k \in 1..(i - 1) : s[k] = t[k] /\ t[k] = u[k] BY <1>1, <1>2, <1>3 DEF Before
  <2>2. i \in 1..Len(u) /\ i - 1 <= Len(s) BY <1>l, <1>1, <1>2, <1>3 DEF Before
  <2>3. i <= Len(s) => s[i] < u[i]
    <3> SUFFICES ASSUME i <= Len(s) PROVE s[i] < u[i] OBVIOUS
    <3>1. s[i] < t[i] /\ i \in 1..Len(t) /\ i \in 1..Len(s) BY <1>l, <1>1 DEF Before
    <3>2. i < j => t[i] = u[i] BY <1>l, <1>1, <1>2 DEF Before
    <3>3. i = j => t[i] < u[i] BY <1>l, <1>2, <3>1 DEF Before
    <3>4. s[i] \in Int /\ t[i] \in Int /\ u[i] \in Int BY <1>l, <2>2, <3>1
    <3> QED BY <1>3, <3>1, <3>2, <3>3, <3>4
  <2>4. Before(s, u, i) BY <2>1, <2>2, <2>3 DEF Before
  <2> QED BY <2>4, LessAt
<1>4. CASE j < i
  <2>1. \A k \in 1..(j - 1) : s[k] = t[k] /\ t[k] = u[k] BY <1>1, <1>2, <1>4 DEF Before
  <2>2. j \in 1..Len(u) /\ j <= Len(s) /\ j \in 1..Len(t) BY <1>l, <1>1, <1>2, <1>4 DEF Before
  <2>3. s[j] = t[j] /\ t[j] < u[j] BY <1>l, <1>1, <1>2, <1>4, <2>2 DEF Before
  <2>4. Before(s, u, j) BY <1>l, <2>1, <2>2, <2>3 DEF Before
  <2> QED BY <2>4, LessAt
<1> QED BY <1>3, <1>4

\* and it is total.
LEMMA LessTotal ==
  ASSUME NEW s \in Strings, NEW t \in Strings
  PROVE  s = t \/ Less(s, t) \/ Less(t, s)
<1>l. Len(s) \in Nat /\ Len(t) \in Nat
      /\ (\A i \in 1..Len(s) : s[i] \in Int) /\ (\A i \in 1..Len(t) : t[i] \in Int)
  BY StringLen
<1> DEFINE D == {i \in Nat : 1 <= i /\ ~(i <= Len(s) /\ i <= Len(t) /\ s[i] = t[i])}
<1>1. Len(s) + 1 \in D BY <1>l
<1>2. PICK i \in D : \A j \in D : i <= j
  <2>1. D \in SUBSET Nat /\ D # {} BY <1>1
  <2> HIDE DEF D
  <2> QED BY <2>1, Concat!LeastOf
<1>3. \A j \in 1..(i - 1) : j <= Len(s) /\ j <= Len(t) /\ s[j] = t[j]
  <2> SUFFICES ASSUME NEW j \in 1..(i - 1), ~(j <= Len(s) /\ j <= Len(t) /\ s[j] = t[j])
               PROVE  FALSE
    OBVIOUS
  <2>1. j \in D /\ ~(i <= j) OBVIOUS
  <2> HIDE DEF D
  <2> QED BY <1>2, <2>1
<1>4. i \in Nat /\ 1 <= i /\ ~(i <= Len(s) /\ i <= Len(t) /\ s[i] = t[i]) OBVIOUS
<1> HIDE DEF D
<1>5. i - 1 <= Len(s) /\ i - 1 <= Len(t)
  <2>1. CASE i = 1 BY <1>l, <2>1
  <2>2. CASE i # 1
    <3>1. i - 1 \in 1..(i - 1) BY <1>4, <2>2
    <3> QED BY <1>3, <3>1
  <2> QED BY <2>1, <2>2
<1>6. CASE i <= Len(s) /\ i <= Len(t)
  <2>1. s[i] < t[i] \/ t[i] < s[i] BY <1>l, <1>4, <1>6
  <2>2. Before(s, t, i) \/ Before(t, s, i) BY <1>3, <1>4, <1>5, <1>6, <1>l, <2>1 DEF Before
  <2> QED BY <1>4, <2>2, LessAt
<1>7. CASE ~(i <= Len(s)) /\ i <= Len(t)
  <2>2. Before(s, t, i) BY <1>3, <1>4, <1>5, <1>7, <1>l DEF Before
  <2> QED BY <1>4, <2>2, LessAt
<1>8. CASE i <= Len(s) /\ ~(i <= Len(t))
  <2>2. Before(t, s, i) BY <1>3, <1>4, <1>5, <1>8, <1>l DEF Before
  <2> QED BY <1>4, <2>2, LessAt
<1>9. CASE ~(i <= Len(s)) /\ ~(i <= Len(t))
  <2>1. Len(s) = Len(t) /\ i - 1 = Len(s) BY <1>l, <1>4, <1>5, <1>9
  <2>2. \A j \in 1..Len(s) : s[j] = t[j] BY <1>3, <2>1
  <2> QED BY <2>1, <2>2, SeqEqual DEF Strings
<1> QED BY <1>6, <1>7, <1>8, <1>9

\* What stands at each place of a string joined to another.
LEMMA JoinAt ==
  ASSUME NEW p \in Strings, NEW s \in Strings
  PROVE  /\ p \o s \in Strings /\ Len(p \o s) = Len(p) + Len(s)
         /\ \A i \in 1..Len(p) : (p \o s)[i] = p[i]
         /\ \A i \in 1..Len(s) : (p \o s)[Len(p) + i] = s[i]
<1> DEFINE u == p \o s
<1>1. /\ u \in Strings /\ Len(u) = Len(p) + Len(s)
      /\ \A i \in 1..(Len(p) + Len(s)) : u[i] = IF i <= Len(p) THEN p[i] ELSE s[i - Len(p)]
  BY ConcatProperties DEF Strings
<1>2. Len(p) \in Nat /\ Len(s) \in Nat BY StringLen
<1> HIDE DEF u
<1>3. \A i \in 1..Len(p) : u[i] = p[i] BY <1>1, <1>2
<1>4. \A i \in 1..Len(s) : u[Len(p) + i] = s[i]
  <2> TAKE i \in 1..Len(s)
  <2>1. Len(p) + i \in 1..(Len(p) + Len(s)) /\ ~(Len(p) + i <= Len(p)) /\ (Len(p) + i) - Len(p) = i
    BY <1>2
  <2> QED BY <1>1, <2>1
<1> QED BY <1>1, <1>3, <1>4 DEF u

\* What is in front of both does not matter.
LEMMA LessAfter ==
  ASSUME NEW p \in Strings, NEW s \in Strings, NEW t \in Strings, Less(s, t)
  PROVE  Less(p \o s, p \o t)
<1>1. PICK i \in Nat : Before(s, t, i) BY LessAt
<1> DEFINE n == Len(p)
           u == p \o s
           v == p \o t
<1>2. n \in Nat /\ Len(s) \in Nat /\ Len(t) \in Nat BY StringLen
<1>3. /\ u \in Strings /\ Len(u) = n + Len(s) /\ (\A k \in 1..n : u[k] = p[k])
      /\ \A k \in 1..Len(s) : u[n + k] = s[k]
  BY JoinAt
<1>4. /\ v \in Strings /\ Len(v) = n + Len(t) /\ (\A k \in 1..n : v[k] = p[k])
      /\ \A k \in 1..Len(t) : v[n + k] = t[k]
  BY JoinAt
<1> HIDE DEF n, u, v
<1>5. \A j \in 1..(n + i - 1) : u[j] = v[j]
  <2> TAKE j \in 1..(n + i - 1)
  <2>1. CASE j <= n BY <1>2, <1>3, <1>4, <2>1
  <2>2. CASE ~(j <= n)
    <3>1. j - n \in 1..(i - 1) /\ n + (j - n) = j BY <1>2, <2>2
    <3>2. j - n \in 1..Len(s) /\ j - n \in 1..Len(t) BY <1>1, <1>2, <3>1 DEF Before
    <3>3. u[n + (j - n)] = s[j - n] /\ v[n + (j - n)] = t[j - n] BY <1>3, <1>4, <3>2
    <3> QED BY <1>1, <3>1, <3>3 DEF Before
  <2> QED BY <2>1, <2>2
<1>6. n + i <= Len(u) => u[n + i] < v[n + i]
  <2> SUFFICES ASSUME n + i <= Len(u) PROVE u[n + i] < v[n + i] OBVIOUS
  <2>1. i \in 1..Len(s) /\ i \in 1..Len(t) /\ s[i] < t[i] BY <1>1, <1>2, <1>3 DEF Before
  <2> QED BY <1>3, <1>4, <2>1
<1>7. n + i \in 1..Len(v) /\ (n + i) - 1 <= Len(u) /\ n + i \in Nat
  BY <1>1, <1>2, <1>3, <1>4 DEF Before
<1>8. Before(u, v, n + i)
  <2>1. (n + i) - 1 = n + i - 1 BY <1>2
  <2> QED BY <1>5, <1>6, <1>7, <2>1 DEF Before
<1>9. Less(u, v) BY <1>3, <1>4, <1>7, <1>8, LessAt
<1> QED BY <1>9 DEF u, v

\* What follows does not either, when they differ before.
LEMMA LessBefore ==
  ASSUME NEW s \in Strings, NEW t \in Strings, NEW x \in Strings, NEW y \in Strings,
         NEW i \in 1..Len(s), i <= Len(t), s[i] < t[i], \A j \in 1..(i - 1) : s[j] = t[j]
  PROVE  Less(s \o x, t \o y)
<1> DEFINE u == s \o x
           v == t \o y
<1>2. Len(s) \in Nat /\ Len(t) \in Nat /\ Len(x) \in Nat /\ Len(y) \in Nat BY StringLen
<1>3. /\ u \in Strings /\ Len(u) = Len(s) + Len(x) /\ (\A k \in 1..Len(s) : u[k] = s[k])
      /\ v \in Strings /\ Len(v) = Len(t) + Len(y) /\ (\A k \in 1..Len(t) : v[k] = t[k])
  BY JoinAt
<1> HIDE DEF u, v
<1>4. \A j \in 1..(i - 1) : j \in 1..Len(s) /\ j \in 1..Len(t) BY <1>2
<1>5. i \in 1..Len(v) /\ i - 1 <= Len(u) /\ i \in Nat /\ i \in 1..Len(t) BY <1>2, <1>3
<1>6. Before(u, v, i) BY <1>3, <1>4, <1>5 DEF Before
<1>7. Less(u, v) BY <1>3, <1>5, <1>6, LessAt
<1> QED BY <1>7 DEF u, v

\* AtMost and Less compose as <= and < do.
LEMMA AtMostTransitive ==
  ASSUME NEW s \in Strings, NEW t \in Strings, NEW u \in Strings
  PROVE  /\ AtMost(s, t) /\ Less(t, u) => Less(s, u)
         /\ Less(s, t) /\ AtMost(t, u) => Less(s, u)
         /\ AtMost(s, t) /\ AtMost(t, u) => AtMost(s, u)
         /\ AtMost(s, t) <=> ~Less(t, s)
<1>1. AtMost(s, t) /\ Less(t, u) => Less(s, u) BY LessTransitive DEF AtMost
<1>2. Less(s, t) /\ AtMost(t, u) => Less(s, u) BY LessTransitive DEF AtMost
<1>3. AtMost(s, t) /\ AtMost(t, u) => AtMost(s, u) BY LessTransitive DEF AtMost
<1>4. AtMost(s, t) => ~Less(t, s) BY LessTransitive, LessIrreflexive DEF AtMost
<1>5. ~Less(t, s) => AtMost(s, t) BY LessTotal DEF AtMost
<1> QED BY <1>1, <1>2, <1>3, <1>4, <1>5

\* What lies between two strings with a prefix has that prefix.
LEMMA BetweenPrefixed ==
  ASSUME NEW p \in Strings, NEW s \in Strings, NEW t \in Strings, NEW x \in Strings,
         IsPrefix(p, s), IsPrefix(p, t), AtMost(s, x), AtMost(x, t)
  PROVE  IsPrefix(p, x)
<1>l. Len(p) \in Nat /\ Len(s) \in Nat /\ Len(t) \in Nat /\ Len(x) \in Nat
      /\ (\A i \in 1..Len(p) : p[i] \in Int) /\ (\A i \in 1..Len(s) : s[i] \in Int)
      /\ (\A i \in 1..Len(t) : t[i] \in Int) /\ (\A i \in 1..Len(x) : x[i] \in Int)
  BY StringLen
<1>p. /\ Len(p) <= Len(s) /\ (\A j \in 1..Len(p) : p[j] = s[j])
      /\ Len(p) <= Len(t) /\ (\A j \in 1..Len(p) : p[j] = t[j])
  BY PrefixAt
<1>1. CASE s = x \/ x = t BY <1>1
<1>2. CASE Less(s, x) /\ Less(x, t)
  <2>1. PICK i \in Nat : Before(s, x, i) BY <1>2, LessAt
  <2>2. PICK j \in Nat : Before(x, t, j) BY <1>2, LessAt
  <2>3. CASE i > Len(p)
    <3>1. Len(p) <= Len(x) BY <1>l, <2>1, <2>3 DEF Before
    <3>2. \A k \in 1..Len(p) : k \in 1..(i - 1) BY <1>l, <2>3
    <3> QED BY <1>p, <2>1, <3>1, <3>2, PrefixAt DEF Before
  <2>4. CASE j > Len(p)
    <3>1. Len(p) <= Len(x) BY <1>l, <2>2, <2>4 DEF Before
    <3>2. \A k \in 1..Len(p) : k \in 1..(j - 1) BY <1>l, <2>4
    <3> QED BY <1>p, <2>2, <3>1, <3>2, PrefixAt DEF Before
  <2>5. CASE i <= Len(p) /\ j <= Len(p)
    <3>1. i \in 1..Len(p) /\ j \in 1..Len(p) /\ i \in 1..Len(x) /\ j \in 1..Len(t)
      BY <1>l, <2>1, <2>2, <2>5 DEF Before
    <3>2. p[i] < x[i] /\ s[i] = p[i] BY <1>l, <1>p, <2>1, <2>5, <3>1 DEF Before
    <3>3. CASE i < j
      <4>1. x[i] = t[i] BY <2>2, <3>1, <3>3 DEF Before
      <4> QED BY <1>l, <1>p, <3>1, <3>2, <4>1
    <3>4. CASE i = j
      <4>1. x[i] < t[i] BY <2>2, <3>1, <3>4 DEF Before
      <4> QED BY <1>l, <1>p, <3>1, <3>2, <4>1
    <3>5. CASE j < i
      <4>1. x[j] = s[j] BY <2>1, <3>1, <3>5 DEF Before
      <4>2. j <= Len(x) BY <1>l, <2>1, <3>1, <3>5 DEF Before
      <4>3. x[j] < t[j] BY <2>2, <4>2 DEF Before
      <4> QED BY <1>l, <1>p, <3>1, <4>1, <4>3
    <3> QED BY <3>1, <3>3, <3>4, <3>5
  <2> QED BY <1>l, <2>3, <2>4, <2>5
<1> QED BY <1>1, <1>2 DEF AtMost

\* Division by the base.
LEMMA Divided ==
  ASSUME NEW n \in Nat
  PROVE  /\ Base \in Nat /\ 1 < Base
         /\ n \div Base \in Nat /\ n % Base \in 0..(Base - 1)
         /\ n = (n \div Base) * Base + (n % Base)
         /\ n > 0 => n \div Base < n
<1>1. Base \in Nat /\ 1 < Base BY LexinumAssumption DEF Base
<1> DEFINE q == n \div Base
           r == n % Base
<1>2. q \in Nat /\ r \in 0..(Base - 1) /\ n = q * Base + r BY <1>1
<1> HIDE DEF q, r
<1>3. n > 0 => q < n
  <2> SUFFICES ASSUME n > 0, q >= n PROVE FALSE BY <1>2
  <2>1. q * Base >= q * 2 BY <1>1, <1>2
  <2> QED BY <1>2, <2>1, <1>1
<1> QED BY <1>1, <1>2, <1>3 DEF q, r

\* The recursion of the digits has a solution, the digits satisfy it.
LEMMA DigitsDef ==
  Digits = [n \in U32 |->
              IF n = 0 THEN <<>> ELSE Append(Digits[n \div Base], (n % Base) + 2)]
<1> DEFINE Upto(g, m) ==
      g = [n \in 0..m |-> IF n = 0 THEN <<>> ELSE Append(g[n \div Base], (n % Base) + 2)]
    S == {m \in Nat : \E g : Upto(g, m)}
<1>1. 0 \in S
  <2> DEFINE g == [n \in 0..0 |-> <<>>]
  <2>1. \A n \in 0..0 : n = 0 OBVIOUS
  <2>2. Upto(g, 0) BY <2>1
  <2> QED BY <2>2
<1>2. ASSUME NEW m \in Nat, m \in S PROVE m + 1 \in S
  <2>1. PICK g : Upto(g, m) BY <1>2
  <2> DEFINE h == [n \in 0..(m + 1) |->
                     IF n = m + 1 THEN Append(g[n \div Base], (n % Base) + 2) ELSE g[n]]
  <2>2. ASSUME NEW n \in 0..(m + 1)
        PROVE  h[n] = IF n = 0 THEN <<>> ELSE Append(h[n \div Base], (n % Base) + 2)
    <3>1. CASE n = 0
      <4>1. h[n] = g[0] /\ g[0] = <<>> BY <2>1, <3>1
      <4> QED BY <3>1, <4>1
    <3>2. CASE n # 0
      <4> DEFINE q == n \div Base
                 r == n % Base
      <4>1. q \in Nat /\ q < n /\ q \in 0..m BY <3>2, Divided
      <4> HIDE DEF q, r
      <4>2. h[q] = g[q] BY <4>1
      <4>3. h[n] = Append(g[q], r + 2)
        <5>1. n = m + 1 => h[n] = Append(g[n \div Base], (n % Base) + 2) OBVIOUS
        <5>2. n # m + 1 => n \in 0..m /\ h[n] = g[n] OBVIOUS
        <5>3. n \in 0..m => g[n] = Append(g[n \div Base], (n % Base) + 2) BY <2>1, <3>2
        <5> QED BY <5>1, <5>2, <5>3 DEF q, r
      <4> HIDE DEF h
      <4> QED BY <3>2, <4>2, <4>3 DEF q, r
    <3> QED BY <3>1, <3>2
  <2>3. Upto(h, m + 1)
    <3>1. h = [n \in 0..(m + 1) |-> h[n]] OBVIOUS
    <3> HIDE DEF h
    <3> QED BY <2>2, <3>1
  <2>4. \E x : Upto(x, m + 1)
    <3> HIDE DEF Upto, h
    <3> QED BY <2>3
  <2> HIDE DEF Upto
  <2> QED BY <1>2, <2>4
<1>3. \E g : g = [n \in U32 |->
                    IF n = 0 THEN <<>> ELSE Append(g[n \div Base], (n % Base) + 2)]
  <2>1. CASE Word = 0
    <3>1. U32 = {} BY <2>1 DEF U32
    <3>2. [n \in {} |-> 0] = [n \in U32 |->
             IF n = 0 THEN <<>> ELSE Append([i \in {} |-> 0][n \div Base], (n % Base) + 2)]
      BY <3>1
    <3> QED BY <3>2
  <2>2. CASE Word # 0
    <3>1. Word - 1 \in Nat BY <2>2, LexinumAssumption
    <3>2. \A k \in 0..((Word - 1) - 1) : k \in S => k + 1 \in S BY <1>2
    <3>3. Word - 1 \in S
      <4> HIDE DEF S
      <4>1. 0..(Word - 1) \subseteq S BY <1>1, <3>1, <3>2, Concat!Induction
      <4> QED BY <3>1, <4>1
    <3> QED BY <3>3 DEF U32
  <2> QED BY <2>1, <2>2
<1> QED BY <1>3 DEF Digits

\* A digit is a byte between the mark of a remainder and the leading byte.
Digit == 2..(Byte - 1)

\* One step of the digits of a number, with the types of what it leaves.
LEMMA DigitsStep ==
  ASSUME NEW n \in U32
  PROVE  /\ n \in Nat /\ n \div Base \in U32
         /\ n = 0 => Digits[n] = <<>>
         /\ n # 0 => /\ Digits[n] = Append(Digits[n \div Base], (n % Base) + 2)
                     /\ n \div Base < n
         /\ (n % Base) + 2 \in Digit
<1>1. n \in Nat /\ Word \in Nat BY LexinumAssumption DEF U32
<1>2. n \div Base \in U32
  <2> DEFINE q == n \div Base
  <2>1. q \in Nat /\ (n > 0 => q < n) /\ (n = 0 => q = 0)
    <3>1. q \in Nat /\ (n > 0 => q < n) BY <1>1, Divided
    <3>2. n = 0 => q = 0 BY Divided
    <3> QED BY <3>1, <3>2
  <2>2. n <= Word - 1 BY DEF U32
  <2> HIDE DEF q
  <2>3. q \in 0..(Word - 1) BY <1>1, <2>1, <2>2
  <2> QED BY <2>3 DEF q, U32
<1>3. n % Base \in 0..(Base - 1) /\ Base + 2 = Byte /\ Byte \in Nat
  BY <1>1, Divided, LexinumAssumption DEF Base
<1> DEFINE r == n % Base
<1>4. r + 2 \in Digit
  <2> HIDE DEF r
  <2> SUFFICES r \in 0..(Base - 1) BY <1>3 DEF Digit, Base
  <2> QED BY <1>3 DEF r
<1>5. n # 0 => n \div Base < n BY <1>1, Divided
<1> QED BY <1>1, <1>2, <1>4, <1>5, DigitsDef

\* Strong induction on the heights of a word.
LEMMA Upwards ==
  ASSUME NEW S, \A n \in U32 : (\A m \in U32 : m < n => m \in S) => n \in S
  PROVE  U32 \subseteq S
<1> DEFINE T == {n \in U32 : n \notin S}
<1> SUFFICES ASSUME T # {} PROVE FALSE OBVIOUS
<1>1. PICK x \in T : \A y \in T : x <= y
  <2>1. T \in SUBSET Nat BY DEF U32
  <2> HIDE DEF T
  <2> QED BY <2>1, Concat!LeastOf
<1>2. x \in U32 /\ x \notin S OBVIOUS
<1>3. \A m \in U32 : m < x => m \in S
  <2> SUFFICES ASSUME NEW m \in U32, m < x, m \notin S PROVE FALSE OBVIOUS
  <2>1. m \in T OBVIOUS
  <2> HIDE DEF T
  <2>2. x <= m BY <1>1, <2>1
  <2> QED BY <1>2, <2>2 DEF U32
<1> QED BY <1>2, <1>3

\* The digits of every number are digits (of the recursion of Digits).
LEMMA DigitsAre ==
  \A n \in U32 : Digits[n] \in Seq(Digit)
<1> DEFINE S == {n \in U32 : Digits[n] \in Seq(Digit)}
<1>1. ASSUME NEW n \in U32, \A m \in U32 : m < n => m \in S PROVE n \in S
  <2>1. CASE n = 0
    <3>1. Digits[n] = <<>> BY <2>1, DigitsStep
    <3> QED BY <3>1, EmptySeq
  <2>2. CASE n # 0
    <3> DEFINE q == n \div Base
               r == (n % Base) + 2
    <3>1. n \in Nat /\ q \in U32 /\ q < n /\ Digits[n] = Append(Digits[q], r) /\ r \in Digit
      BY <2>2, DigitsStep
    <3> HIDE DEF q, r
    <3>2. Digits[q] \in Seq(Digit) BY <1>1, <3>1
    <3>3. Digits[n] \in Seq(Digit) BY <3>1, <3>2, AppendProperties
    <3> QED BY <3>3
  <2> QED BY <2>1, <2>2
<1> HIDE DEF S
<1>2. U32 \subseteq S BY <1>1, Upwards
<1> QED BY <1>2 DEF S

\* The last digit is the remainder, those before are the digits of the quotient.
LEMMA DigitsLast ==
  ASSUME NEW n \in U32, n # 0
  PROVE  LET q == n \div Base IN
         /\ q \in U32 /\ q < n
         /\ Len(Digits[q]) \in Nat /\ Len(Digits[n]) = Len(Digits[q]) + 1
         /\ \A i \in 1..Len(Digits[q]) : Digits[n][i] = Digits[q][i]
         /\ Digits[n][Len(Digits[q]) + 1] = (n % Base) + 2
<1> DEFINE q == n \div Base
           r == (n % Base) + 2
<1>1. n \in Nat /\ q \in U32 /\ q < n /\ Digits[n] = Append(Digits[q], r) /\ r \in Digit
  BY DigitsStep
<1>2. Digits[q] \in Seq(Digit) /\ Len(Digits[q]) \in Nat BY <1>1, DigitsAre, LenProperties
<1> HIDE DEF q, r
<1>3. /\ Len(Digits[n]) = Len(Digits[q]) + 1
      /\ \A i \in 1..Len(Digits[q]) : Digits[n][i] = Digits[q][i]
      /\ Digits[n][Len(Digits[q]) + 1] = r
  BY <1>1, <1>2, AppendProperties
<1> QED BY <1>1, <1>2, <1>3 DEF q, r

----------------------------------------------------------------------------
(* Powers and the number of digits.                                        *)

\* One multiplication of Power, for the traces of Folding.
FactorTurn(env, p, i) == (p * Base) % Word
Factors == INSTANCE Folding WITH Step <- FactorTurn, Top <- Max

\* A member above all the others is the maximum.
LEMMA MaxIs ==
  \A S \in SUBSET Int : \A n \in S : (\A m \in S : m <= n) => Max(S) = n
<1> SUFFICES ASSUME NEW S \in SUBSET Int, NEW n \in S, \A m \in S : m <= n
             PROVE  Max(S) = n
  OBVIOUS
<1>1. \A y \in S : n >= y OBVIOUS
<1>2. ASSUME NEW x \in S, \A y \in S : x >= y PROVE x = n BY <1>2
<1> QED BY <1>1, <1>2 DEF Max

\* The zeroth power is one.
LEMMA PowerZero == Power(0) = 1
<1> DEFINE v == [i \in 1..0 |-> i]
           g == CHOOSE g : g = [s \in SUBSET DOMAIN v |->
                  IF s = {} THEN 1 ELSE (g[s \ {Max(s)}] * Base) % Word]
<1>1. Power(0) = g[DOMAIN v] BY DEF Power, FoldLeft, MapThenFoldSet
<1>v. DOMAIN v = 1..0 /\ DOMAIN v = {} OBVIOUS
<1> HIDE DEF v
<1>2. Factors!Iterates(g, {}, 1, v)
  <2>1. \E x : Factors!Iterates(x, {}, 1, v)
    BY <1>v, Factors!IteratesExist, MaxIs DEF Factors!TopIsMax
  <2> QED BY <2>1 DEF Factors!Iterates, FactorTurn
<1> HIDE DEF g
<1>3. g[{}] = 1 BY <1>2, <1>v DEF Factors!Iterates
<1> QED BY <1>1, <1>3, <1>v

\* A power that fits in a word and is above every lead.
Enough(n) ==
  /\ n \in 1..(Byte - 1)
  /\ (Word - 1) \div Byte < Power(n)
  /\ \A k \in 1..n : Power(k) = Power(k - 1) * Base

\* Powers that have not wrapped are positive.
LEMMA PowersPositive ==
  ASSUME NEW N, Enough(N)
  PROVE  \A k \in 0..N : Power(k) \in Nat /\ Power(k) > 0
<1>n. N \in Nat BY LexinumAssumption DEF Enough
<1> DEFINE S == {k \in 0..N : Power(k) \in Nat /\ Power(k) > 0}
<1>1. 0 \in S BY PowerZero, <1>n
<1>2. ASSUME NEW k \in 0..(N - 1), k \in S PROVE k + 1 \in S
  <2>1. k + 1 \in 1..N /\ k + 1 \in 0..N /\ (k + 1) - 1 = k BY <1>n
  <2>2. Power(k + 1) = Power(k) * Base BY <2>1 DEF Enough
  <2>3. Power(k) \in Nat /\ Power(k) > 0 /\ Base \in Nat /\ Base > 1
    BY <1>2, Divided
  <2>4. Power(k) * Base \in Nat /\ Power(k) * Base > 0 BY <2>3
  <2> QED BY <2>1, <2>2, <2>4
<1> HIDE DEF S
<1>3. 0..N \subseteq S BY <1>1, <1>2, <1>n, Concat!Induction
<1> QED BY <1>3 DEF S

\* A number has at most k digits just when it is below the power k.
LEMMA DigitsLen ==
  ASSUME NEW N, Enough(N)
  PROVE  \A n \in U32 : \A k \in 0..N : Len(Digits[n]) <= k <=> n < Power(k)
<1>n. N \in Nat BY LexinumAssumption DEF Enough
<1> DEFINE S == {n \in U32 : \A k \in 0..N : Len(Digits[n]) <= k <=> n < Power(k)}
<1>1. ASSUME NEW n \in U32, \A m \in U32 : m < n => m \in S PROVE n \in S
  <2> SUFFICES ASSUME NEW k \in 0..N PROVE Len(Digits[n]) <= k <=> n < Power(k) OBVIOUS
  <2>0. n \in Nat /\ Power(k) \in Nat /\ Power(k) > 0 BY DigitsStep, PowersPositive
  <2>1. CASE n = 0
    <3>1. Len(Digits[n]) = 0 BY <2>1, DigitsStep, EmptySeq
    <3> QED BY <2>0, <2>1, <3>1
  <2>2. CASE n # 0
    <3> DEFINE q == n \div Base
               l == Len(Digits[q])
    <3>1. q \in U32 /\ q < n /\ l \in Nat /\ Len(Digits[n]) = l + 1 BY <2>2, DigitsLast
    <3>2. /\ Base \in Nat /\ 1 < Base /\ q \in Nat /\ n % Base \in 0..(Base - 1)
          /\ n = q * Base + (n % Base)
      BY <2>0, Divided
    <3>3. CASE k = 0 BY <2>0, <2>2, <3>1, <3>3, PowerZero
    <3>4. CASE k # 0
      <4>1. k - 1 \in 0..N /\ k \in 1..N BY <3>4, <1>n
      <4>2. l <= k - 1 <=> q < Power(k - 1) BY <1>1, <3>1, <4>1
      <4> DEFINE p == Power(k - 1)
                 r == n % Base
      <4>3. Power(k) = p * Base /\ p \in Nat BY <4>1, PowersPositive DEF Enough
      <4> HIDE DEF p, q, r
      <4>4. q < p => n < p * Base
        <5> SUFFICES ASSUME q < p PROVE n < p * Base OBVIOUS
        <5>1. (q + 1) * Base <= p * Base BY <3>2, <4>3
        <5>2. (q + 1) * Base = q * Base + Base BY <3>2
        <5> QED BY <3>2, <4>3, <5>1, <5>2 DEF r
      <4>5. ~(q < p) => ~(n < p * Base)
        <5> SUFFICES ASSUME q >= p PROVE n >= p * Base BY <2>0, <3>2, <4>3
        <5>1. q * Base >= p * Base BY <3>2, <4>3
        <5>2. q * Base \in Nat /\ p * Base \in Nat BY <3>2, <4>3
        <5> QED BY <3>2, <5>1, <5>2 DEF r
      <4>6. Len(Digits[n]) <= k <=> l <= k - 1 BY <3>1, <4>1
      <4> QED BY <4>2, <4>3, <4>4, <4>5, <4>6 DEF p
    <3> QED BY <3>3, <3>4
  <2> QED BY <2>1, <2>2
<1> HIDE DEF S
<1>2. U32 \subseteq S BY <1>1, Upwards
<1> QED BY <1>2 DEF S

\* A quotient is zero just when the number is below.
LEMMA DivZero ==
  ASSUME NEW a \in Nat, NEW b \in Nat, b > 0
  PROVE  a \div b = 0 <=> a < b
<1> DEFINE q == a \div b
           r == a % b
<1>1. q \in Nat /\ r \in 0..(b - 1) /\ a = q * b + r OBVIOUS
<1> HIDE DEF q, r
<1>2. q # 0 => q * b >= b BY <1>1
<1>3. q = 0 <=> a < b BY <1>1, <1>2
<1> QED BY <1>3 DEF q

\* The lead of a height, the numbers that are split off.
IsLead(n) == n \in U32 /\ n <= (Word - 1) \div Byte

\* The size told is the number of digits, and one for none.
LEMMA SizeIs ==
  ASSUME NEW n \in U32, IsLead(n)
  PROVE  /\ Len(Digits[n]) \in Nat
         /\ Size(n) = IF Len(Digits[n]) = 0 THEN 1 ELSE Len(Digits[n])
         /\ Size(n) \in 1..(Byte - 1)
<1>1. PICK N : Enough(N) BY PowersAssumption DEF Enough
<1>n. N \in 1..(Byte - 1) /\ Byte \in Nat /\ N \in Nat BY <1>1, LexinumAssumption DEF Enough
<1> DEFINE l == Len(Digits[n])
           z == IF l = 0 THEN 1 ELSE l
           Fits(k) == k \in 1..(Byte - 1) /\ n \div Power(k) = 0
                      /\ \A j \in 1..(k - 1) : n \div Power(j) # 0
<1>2. l \in Nat BY DigitsAre, LenProperties
<1>3. \A k \in 0..N : l <= k <=> n < Power(k) BY <1>1, DigitsLen
<1>4. \A k \in 0..N : n \div Power(k) = 0 <=> n < Power(k)
  BY <1>1, DivZero, PowersPositive, DigitsStep
<1>5. n < Power(N)
  <2>1. Power(N) \in Nat BY <1>1, <1>n, PowersPositive
  <2>2. (Word - 1) \div Byte < Power(N) BY <1>1 DEF Enough
  <2>3. Word - 1 \in Int /\ Byte > 0 BY LexinumAssumption
  <2>4. (Word - 1) \div Byte \in Int BY <1>n, <2>3
  <2>5. n \in Nat BY DigitsStep
  <2> QED BY <2>1, <2>2, <2>4, <2>5 DEF IsLead
<1> HIDE DEF l
<1>6. l <= N BY <1>3, <1>5, <1>n
<1>7. Fits(z)
  <2>1. z \in 1..N /\ z \in 0..N /\ l <= z BY <1>2, <1>6, <1>n
  <2>2. \A j \in 1..(z - 1) : j \in 0..N /\ ~(l <= j) BY <1>2, <1>6, <1>n, <2>1
  <2> HIDE DEF z
  <2>3. n \div Power(z) = 0 BY <1>3, <1>4, <2>1
  <2>4. \A j \in 1..(z - 1) : n \div Power(j) # 0 BY <1>3, <1>4, <2>2
  <2>5. z \in 1..(Byte - 1) BY <1>n, <2>1
  <2> QED BY <2>3, <2>4, <2>5
<1>8. ASSUME NEW k, Fits(k) PROVE k = z
  <2>1. k \in 1..(Byte - 1) BY <1>8
  <2>2. ~(N < k)
    <3> SUFFICES ASSUME N < k PROVE FALSE OBVIOUS
    <3>1. N \in 1..(k - 1) BY <1>n, <2>1
    <3>2. n \div Power(N) # 0 BY <1>8, <3>1
    <3> QED BY <1>4, <1>5, <1>n, <3>2
  <2>3. k \in 0..N BY <1>n, <2>1, <2>2
  <2>4. l <= k BY <1>3, <1>4, <1>8, <2>3
  <2>5. z <= k BY <1>2, <2>1, <2>4
  <2>6. ~(z < k)
    <3> SUFFICES ASSUME z < k PROVE FALSE OBVIOUS
    <3>1. z \in 1..(k - 1) BY <1>2, <2>1
    <3> HIDE DEF z
    <3>2. n \div Power(z) # 0 BY <1>8, <3>1
    <3> QED BY <1>7, <3>2
  <2> QED BY <1>2, <2>1, <2>5, <2>6
<1> HIDE DEF z
<1>9. Size(n) = CHOOSE k \in 1..(Byte - 1) : n \div Power(k) = 0
                                             /\ \A j \in 1..(k - 1) : n \div Power(j) # 0
  BY DEF Size
<1>10. Size(n) = z BY <1>7, <1>8, <1>9
<1> QED BY <1>2, <1>7, <1>10 DEF z, l

\* A quotient decides before its remainder does.
LEMMA QuotientFirst ==
  ASSUME NEW b \in Nat, b > 0, NEW v \in Nat, NEW w \in Nat, v < w
  PROVE  /\ v \div b \in Nat /\ v % b \in 0..(b - 1) /\ v = (v \div b) * b + (v % b)
         /\ w \div b \in Nat /\ w % b \in 0..(b - 1) /\ w = (w \div b) * b + (w % b)
         /\ v \div b < w \div b \/ (v \div b = w \div b /\ v % b < w % b)
<1> DEFINE p == v \div b
           q == w \div b
           r == v % b
           s == w % b
<1>1. p \in Nat /\ r \in 0..(b - 1) /\ v = p * b + r
  OBVIOUS
<1>2. q \in Nat /\ s \in 0..(b - 1) /\ w = q * b + s
  OBVIOUS
<1> HIDE DEF p, q, r, s
<1>3. ~(p > q)
  <2> SUFFICES ASSUME p > q PROVE FALSE OBVIOUS
  <2>1. p * b >= (q + 1) * b BY <1>1, <1>2
  <2>2. (q + 1) * b = q * b + b BY <1>2
  <2> QED BY <1>1, <1>2, <2>1, <2>2
<1>4. p = q => r < s BY <1>1, <1>2
<1>5. p < q \/ (p = q /\ r < s) BY <1>1, <1>2, <1>3, <1>4
<1> USE DEF p, q, r, s
<1>6. v \div b \in Nat /\ v % b \in 0..(b - 1) /\ v = (v \div b) * b + (v % b)
  BY <1>1
<1>7. w \div b \in Nat /\ w % b \in 0..(b - 1) /\ w = (w \div b) * b + (w % b)
  BY <1>2
<1> QED BY <1>5, <1>6, <1>7

\* Quotient and remainder are determined by what they add up to.
LEMMA QuotientUnique ==
  ASSUME NEW b \in Nat, b > 0, NEW a \in Nat, NEW q \in Nat, NEW r \in 0..(b - 1),
         a = q * b + r
  PROVE  a \div b = q /\ a % b = r
<1> DEFINE p == a \div b
           s == a % b
<1>1. p \in Nat /\ s \in 0..(b - 1) /\ a = p * b + s OBVIOUS
<1> HIDE DEF p, s
<1>2. ~(p > q)
  <2> SUFFICES ASSUME p > q PROVE FALSE OBVIOUS
  <2>1. p * b >= (q + 1) * b BY <1>1
  <2>2. (q + 1) * b = q * b + b BY <1>1
  <2> QED BY <1>1, <2>1, <2>2
<1>3. ~(q > p)
  <2> SUFFICES ASSUME q > p PROVE FALSE OBVIOUS
  <2>1. q * b >= (p + 1) * b BY <1>1
  <2>2. (p + 1) * b = p * b + b BY <1>1
  <2> QED BY <1>1, <2>1, <2>2
<1>4. p = q BY <1>1, <1>2, <1>3
<1>5. s = r BY <1>1, <1>4
<1> QED BY <1>4, <1>5 DEF p, s

\* The three digits of a height in the short format.
High(v) == v \div (Byte * Byte)
Middle(v) == (v \div Byte) % Byte

\* A number is its three digits: two bytes below and the rest above.
LEMMA ThreeDigits ==
  ASSUME NEW v \in Nat
  PROVE  /\ High(v) \in Nat /\ Middle(v) \in 0..(Byte - 1) /\ (v % Byte) \in 0..(Byte - 1)
         /\ High(v) = (v \div Byte) \div Byte
         /\ v = (High(v) * Byte + Middle(v)) * Byte + (v % Byte)
<1> DEFINE q == v \div Byte
           r == v % Byte
           P == q \div Byte
           m == q % Byte
<1>b. Byte \in Nat /\ Byte > 0 BY LexinumAssumption
<1>1. q \in Nat /\ r \in 0..(Byte - 1) /\ v = q * Byte + r BY <1>b
<1>2. P \in Nat /\ m \in 0..(Byte - 1) /\ q = P * Byte + m BY <1>b, <1>1
<1> HIDE DEF q, r, P, m
<1>3. v = (P * Byte + m) * Byte + r BY <1>1, <1>2
<1>4. v = P * (Byte * Byte) + (m * Byte + r) BY <1>b, <1>1, <1>2, <1>3
<1>5. m * Byte + r \in 0..(Byte * Byte - 1)
  <2>1. m * Byte <= (Byte - 1) * Byte BY <1>b, <1>2
  <2>2. (Byte - 1) * Byte = Byte * Byte - Byte BY <1>b
  <2>3. m * Byte \in Nat /\ Byte * Byte \in Nat BY <1>b, <1>2
  <2> QED BY <1>b, <1>1, <2>1, <2>2, <2>3
<1>6. Byte * Byte \in Nat /\ Byte * Byte > 0 BY <1>b
<1>7. v \div (Byte * Byte) = P
  <2> DEFINE bb == Byte * Byte
             rest == m * Byte + r
  <2>1. bb \in Nat /\ bb > 0 /\ rest \in 0..(bb - 1) /\ v = P * bb + rest
    BY <1>4, <1>5, <1>6
  <2> HIDE DEF bb, rest
  <2>2. v \div bb = P BY <1>2, <2>1, QuotientUnique
  <2> QED BY <2>2 DEF bb
<1> QED BY <1>1, <1>2, <1>3, <1>7 DEF High, Middle, q, r, P, m

----------------------------------------------------------------------------
(* What the short format keeps.                                            *)

\* Three bytes, none of them zero, and the first below that of the long format.
LEMMA ShortIsBytes ==
  ASSUME NEW v \in Nat, IsSmall(v)
  PROVE  /\ Short(v) \in Seq(1..Byte) /\ Len(Short(v)) = 3
         /\ Short(v)[1] = Low + High(v) /\ Low <= Short(v)[1] /\ Short(v)[1] < Byte
         /\ Short(v)[2] = Middle(v) + 1
         /\ Short(v)[3] = (v % Byte) + 1
<1>b. /\ Byte \in Nat /\ Lead \in Nat /\ 3 < Byte /\ 0 < Lead /\ Lead < Byte
      /\ Low \in Nat /\ 0 < Low /\ Low + Lead = Byte
  BY LexinumAssumption DEF Low
<1>1. /\ High(v) \in Nat /\ Middle(v) \in 0..(Byte - 1) /\ (v % Byte) \in 0..(Byte - 1)
      /\ v = (High(v) * Byte + Middle(v)) * Byte + (v % Byte)
  BY ThreeDigits
<1>2. High(v) < Lead
  <2> DEFINE P == High(v)
             m == Middle(v)
             r == v % Byte
  <2>1. /\ P \in Nat /\ m \in Nat /\ r \in Nat /\ v = (P * Byte + m) * Byte + r
    BY <1>b, <1>1
  <2>2. v < (Lead * Byte) * Byte BY <1>b DEF IsSmall, MaxSmall
  <2> HIDE DEF P, m, r
  <2> SUFFICES ASSUME P >= Lead PROVE FALSE BY <1>b, <2>1 DEF P
  <2>3. P * Byte >= Lead * Byte /\ P * Byte \in Nat /\ Lead * Byte \in Nat
    BY <1>b, <2>1
  <2> DEFINE pm == P * Byte + m
             lb == Lead * Byte
  <2>4. pm \in Nat /\ lb \in Nat /\ pm >= lb BY <2>1, <2>3
  <2>5. v = pm * Byte + r /\ v < lb * Byte BY <2>1, <2>2
  <2> HIDE DEF pm, lb
  <2>6. pm * Byte >= lb * Byte /\ pm * Byte \in Nat /\ lb * Byte \in Nat
    BY <1>b, <2>4
  <2> QED BY <2>1, <2>5, <2>6
<1>3. Short(v) = << Low + High(v), Middle(v) + 1, (v % Byte) + 1 >>
  BY DEF Short, High, Middle
<1> HIDE DEF High, Middle
<1>4. Low + High(v) \in 1..Byte /\ Middle(v) + 1 \in 1..Byte /\ (v % Byte) + 1 \in 1..Byte
  BY <1>b, <1>1, <1>2
<1>5. Low <= Low + High(v) /\ Low + High(v) < Byte BY <1>b, <1>1, <1>2
<1> QED BY <1>3, <1>4, <1>5

\* Of two heights in the short format the lower one sorts first: the seeks of
\* the store find the newest entry (EncodeHeight, lexinum.go 47-63).
THEOREM ShortInOrder ==
  ASSUME NEW v \in Nat, NEW w \in Nat, v < w, IsSmall(w)
  PROVE  Less(EncodeHeight(v), EncodeHeight(w))
<1>b. Byte \in Nat /\ Byte > 0 /\ Low \in Nat BY LexinumAssumption DEF Low
<1>0. IsSmall(v)
  <2>1. MaxSmall \in Nat BY LexinumAssumption DEF MaxSmall
  <2> QED BY <2>1 DEF IsSmall
<1>1. EncodeHeight(v) = Short(v) /\ EncodeHeight(w) = Short(w)
  BY <1>0 DEF EncodeHeight
<1>2. /\ Short(v) \in Seq(1..Byte) /\ Len(Short(v)) = 3
      /\ Short(w) \in Seq(1..Byte) /\ Len(Short(w)) = 3
      /\ Short(v)[1] = Low + High(v) /\ Short(w)[1] = Low + High(w)
      /\ Short(v)[2] = Middle(v) + 1 /\ Short(w)[2] = Middle(w) + 1
      /\ Short(v)[3] = (v % Byte) + 1 /\ Short(w)[3] = (w % Byte) + 1
  BY <1>0, ShortIsBytes
<1> DEFINE p == v \div Byte
           q == w \div Byte
<1>4. /\ p \in Nat /\ q \in Nat
      /\ p < q \/ (p = q /\ v % Byte < w % Byte)
      /\ v % Byte \in 0..(Byte - 1) /\ w % Byte \in 0..(Byte - 1)
  BY <1>b, QuotientFirst
<1>5. /\ High(v) = p \div Byte /\ High(w) = q \div Byte
      /\ Middle(v) = p % Byte /\ Middle(w) = q % Byte
      /\ High(v) \in Nat /\ High(w) \in Nat
      /\ Middle(v) \in 0..(Byte - 1) /\ Middle(w) \in 0..(Byte - 1)
  BY ThreeDigits DEF Middle
<1> HIDE DEF p, q
<1> DEFINE s == Short(v)
           t == Short(w)
<1>3. /\ DOMAIN s = 1..3 /\ DOMAIN t = 1..3
      /\ s[1] = Low + High(v) /\ s[2] = Middle(v) + 1 /\ s[3] = (v % Byte) + 1
      /\ t[1] = Low + High(w) /\ t[2] = Middle(w) + 1 /\ t[3] = (w % Byte) + 1
  BY <1>2
<1> HIDE DEF s, t
<1>d. ASSUME NEW i \in 1..3, s[i] < t[i], \A j \in 1..(i - 1) : s[j] = t[j]
      PROVE  Less(s, t)
  <2>1. i \in DOMAIN s \intersect DOMAIN t BY <1>3
  <2> QED BY <1>d, <2>1 DEF Less
<1>6. Less(s, t)
  <2>1. CASE p = q /\ v % Byte < w % Byte
    <3>1. s[1] = t[1] /\ s[2] = t[2] /\ s[3] < t[3]
      BY <1>b, <1>3, <1>4, <1>5, <2>1
    <3>2. \A j \in 1..(3 - 1) : s[j] = t[j]
      <4>1. \A j \in 1..(3 - 1) : j = 1 \/ j = 2 OBVIOUS
      <4> QED BY <3>1, <4>1
    <3> QED BY <1>d, <3>1, <3>2
  <2>2. CASE p < q
    <3>1. High(v) < High(w) \/ (High(v) = High(w) /\ Middle(v) < Middle(w))
      BY <1>b, <1>4, <1>5, <2>2, QuotientFirst
    <3>2. CASE High(v) < High(w)
      <4>1. s[1] < t[1] BY <1>b, <1>3, <1>5, <3>2
      <4>2. \A j \in 1..(1 - 1) : s[j] = t[j] OBVIOUS
      <4> QED BY <1>d, <4>1, <4>2
    <3>3. CASE High(v) = High(w) /\ Middle(v) < Middle(w)
      <4>1. s[1] = t[1] /\ s[2] < t[2]
        BY <1>b, <1>3, <1>5, <3>3
      <4>2. \A j \in 1..(2 - 1) : s[j] = t[j]
        <5>1. \A j \in 1..(2 - 1) : j = 1 OBVIOUS
        <5> QED BY <4>1, <5>1
      <4> QED BY <1>d, <4>1, <4>2
    <3> QED BY <3>1, <3>2, <3>3
  <2> QED BY <1>4, <2>1, <2>2
<1> QED BY <1>1, <1>6 DEF s, t

\* A height in the short format is what its encoding is decoded to, in the
\* word the code computes in (EncodeHeight and DecodeHeight, lexinum.go 40-63).
THEOREM ShortRoundTrip ==
  ASSUME NEW v \in Nat, IsSmall(v)
  PROVE  DecodeHeight(EncodeHeight(v)) = Height(v)
<1>b. Byte \in Nat /\ Lead \in Nat /\ Low \in Nat BY LexinumAssumption DEF Low
<1>1. EncodeHeight(v) = Short(v) BY DEF EncodeHeight
<1>2. /\ Len(Short(v)) = 3 /\ Short(v)[1] = Low + High(v)
      /\ Low <= Short(v)[1] /\ Short(v)[1] < Byte
      /\ Short(v)[2] = Middle(v) + 1 /\ Short(v)[3] = (v % Byte) + 1
  BY ShortIsBytes
<1>3. /\ High(v) \in Nat /\ Middle(v) \in 0..(Byte - 1) /\ (v % Byte) \in 0..(Byte - 1)
      /\ v = (High(v) * Byte + Middle(v)) * Byte + (v % Byte)
  BY ThreeDigits
<1> DEFINE d == Short(v)
           P == High(v)
           m == Middle(v)
           r == v % Byte
<1>4. /\ Len(d) = 3 /\ d[1] = Low + P /\ Low <= d[1] /\ d[1] < Byte
      /\ d[2] = m + 1 /\ d[3] = r + 1
      /\ P \in Nat /\ m \in Nat /\ r \in Nat /\ v = (P * Byte + m) * Byte + r
  BY <1>b, <1>2, <1>3
<1> HIDE DEF d, P, m, r
<1>5. DecodeHeight(d) = Height(((d[1] - Low) * Byte + d[2] - 1) * Byte + d[3] - 1)
  BY <1>b, <1>4 DEF DecodeHeight
<1>6. ((d[1] - Low) * Byte + d[2] - 1) * Byte + d[3] - 1 = v
  <2>1. d[1] - Low = P BY <1>b, <1>4
  <2>2. (P * Byte + (m + 1) - 1) * Byte + (r + 1) - 1 = v BY <1>b, <1>4
  <2> QED BY <1>4, <2>1, <2>2
<1> QED BY <1>1, <1>5, <1>6 DEF d

\* Of as many digits those of the lower number sort first.
LEMMA DigitsLess ==
  \A m \in U32 : \A n \in U32 : n < m /\ Len(Digits[n]) = Len(Digits[m]) =>
     \E i \in 1..Len(Digits[m]) : /\ Digits[n][i] < Digits[m][i]
                                  /\ \A j \in 1..(i - 1) : Digits[n][j] = Digits[m][j]
<1> DEFINE First(n, m, i) == /\ i \in 1..Len(Digits[m])
                             /\ Digits[n][i] < Digits[m][i]
                             /\ \A j \in 1..(i - 1) : Digits[n][j] = Digits[m][j]
           S == {m \in U32 : \A n \in U32 : n < m /\ Len(Digits[n]) = Len(Digits[m]) =>
                               \E i \in Nat : First(n, m, i)}
<1>1. ASSUME NEW m \in U32, \A k \in U32 : k < m => k \in S PROVE m \in S
  <2> SUFFICES ASSUME NEW n \in U32, n < m, Len(Digits[n]) = Len(Digits[m])
               PROVE  \E i \in Nat : First(n, m, i)
    OBVIOUS
  <2>1. m \in Nat /\ n \in Nat /\ m # 0 BY DigitsStep
  <2>2. n # 0
    <3> SUFFICES ASSUME n = 0 PROVE FALSE OBVIOUS
    <3>1. Len(Digits[n]) = 0 BY DigitsStep, EmptySeq
    <3>2. Len(Digits[m]) # 0 BY <2>1, DigitsLast
    <3> QED BY <3>1, <3>2
  <2> DEFINE p == n \div Base
             q == m \div Base
             l == Len(Digits[q])
             r == n % Base
             s == m % Base
  <2>3. /\ p \in U32 /\ Len(Digits[p]) \in Nat /\ Len(Digits[n]) = Len(Digits[p]) + 1
        /\ \A i \in 1..Len(Digits[p]) : Digits[n][i] = Digits[p][i]
        /\ Digits[n][Len(Digits[p]) + 1] = r + 2
    BY <2>2, DigitsLast
  <2>4. /\ q \in U32 /\ q < m /\ l \in Nat /\ Len(Digits[m]) = l + 1
        /\ \A i \in 1..l : Digits[m][i] = Digits[q][i]
        /\ Digits[m][l + 1] = s + 2
    BY <2>1, DigitsLast
  <2>5. /\ r \in Nat /\ s \in Nat
        /\ p < q \/ (p = q /\ r < s)
    <3>1. Base \in Nat /\ Base > 0 BY LexinumAssumption DEF Base
    <3>2. r \in 0..(Base - 1) /\ s \in 0..(Base - 1) /\ (p < q \/ (p = q /\ r < s))
      BY <2>1, <3>1, QuotientFirst
    <3> QED BY <3>1, <3>2
  <2> HIDE DEF p, q, r, s
  <2>6. Len(Digits[p]) = l
    <3>1. Len(Digits[p]) \in Nat /\ Len(Digits[p]) + 1 = l + 1 /\ l \in Nat
      <4>1. Len(Digits[n]) = Len(Digits[p]) + 1 /\ Len(Digits[p]) \in Nat BY <2>3
      <4>2. Len(Digits[m]) = l + 1 /\ l \in Nat BY <2>4
      <4> QED BY <4>1, <4>2
    <3> DEFINE k == Len(Digits[p])
    <3> HIDE DEF k, l
    <3>2. k \in Nat /\ l \in Nat /\ k + 1 = l + 1 => k = l OBVIOUS
    <3> QED BY <3>1, <3>2 DEF k
  <2>7. CASE p = q /\ r < s
    <3>1. Digits[n][l + 1] < Digits[m][l + 1] BY <2>3, <2>4, <2>5, <2>6, <2>7
    <3>2. \A j \in 1..((l + 1) - 1) : Digits[n][j] = Digits[m][j]
      BY <2>3, <2>4, <2>6, <2>7
    <3>3. First(n, m, l + 1) BY <2>4, <3>1, <3>2
    <3>4. l + 1 \in Nat BY <2>4
    <3> HIDE DEF First, l
    <3> QED BY <3>3, <3>4
  <2>8. CASE p < q
    <3>1. q \in S BY <1>1, <2>4
    <3>2. \E i \in Nat : First(p, q, i) BY <2>3, <2>6, <2>8, <3>1
    <3>3. PICK i \in Nat : First(p, q, i) BY <3>2
    <3>4. i \in 1..l /\ Digits[p][i] < Digits[q][i]
          /\ \A j \in 1..(i - 1) : Digits[p][j] = Digits[q][j]
      BY <3>3
    <3>5. \A j \in 1..(i - 1) : j \in 1..l BY <2>4, <3>4
    <3>6. First(n, m, i) BY <2>3, <2>4, <2>6, <3>4, <3>5
    <3> QED BY <3>6
  <2> QED BY <2>5, <2>7, <2>8
<1> HIDE DEF S
<1>2. U32 \subseteq S BY <1>1, Upwards
<1>3. ASSUME NEW m \in U32, NEW n \in U32, n < m, Len(Digits[n]) = Len(Digits[m])
      PROVE  \E i \in 1..Len(Digits[m]) : /\ Digits[n][i] < Digits[m][i]
                                          /\ \A j \in 1..(i - 1) : Digits[n][j] = Digits[m][j]
  <2>1. PICK i \in Nat : First(n, m, i) BY <1>2, <1>3 DEF S
  <2> QED BY <2>1
<1> QED BY <1>3

----------------------------------------------------------------------------
(* The value of digits.                                                    *)

\* One turn of the loop that reads digits back, for the traces of Folding.
ValueTurn(env, v, char) == (v * Base + char - 2) % Word
Values == INSTANCE Folding WITH Step <- ValueTurn, Top <- Max

\* The trace of the loop over the digits.
LEMMA ValueTrace ==
  ASSUME NEW d, NEW n \in Nat, DOMAIN d = 1..n, Len(d) = n
  PROVE  \E f : Values!Trace(f, {}, 0, d) /\ Value(d) = f[n]
<1> DEFINE g == CHOOSE g : g = [s \in SUBSET DOMAIN d |->
                  IF s = {} THEN 0 ELSE (g[s \ {Max(s)}] * Base + d[Max(s)] - 2) % Word]
<1>1. Value(d) = g[DOMAIN d] BY DEF Value, FoldLeft, MapThenFoldSet
<1>2. Values!Iterates(g, {}, 0, d)
  <2>1. \E x : Values!Iterates(x, {}, 0, d)
    BY Values!IteratesExist, MaxIs DEF Values!TopIsMax
  <2> QED BY <2>1 DEF Values!Iterates, ValueTurn
<1> HIDE DEF g
<1>3. PICK f : Values!Trace(f, {}, 0, d) /\ f[n] = g[DOMAIN d]
  BY <1>2, Values!IteratesTrace, MaxIs DEF Values!TopIsMax
<1> QED BY <1>1, <1>3

\* One digit more.
LEMMA ValueAppend ==
  ASSUME NEW s \in Seq(Digit), NEW t \in Seq(Digit), Len(t) = Len(s) + 1,
         \A i \in 1..Len(s) : t[i] = s[i]
  PROVE  Value(t) = (Value(s) * Base + t[Len(t)] - 2) % Word
<1> DEFINE n == Len(s)
<1>1. n \in Nat /\ DOMAIN s = 1..n /\ Len(t) = n + 1 /\ DOMAIN t = 1..(n + 1)
  BY LenProperties
<1>2. PICK f : Values!Trace(f, {}, 0, s) /\ Value(s) = f[n]
  <2> HIDE DEF n
  <2> QED BY <1>1, ValueTrace DEF n
<1>3. PICK h : Values!Trace(h, {}, 0, t) /\ Value(t) = h[n + 1]
  <2>1. n + 1 \in Nat BY <1>1
  <2> HIDE DEF n
  <2> QED BY <1>1, <2>1, ValueTrace
<1>4. /\ f[0] = 0 /\ \A k \in 1..n : f[k] = (f[k - 1] * Base + s[k] - 2) % Word
      /\ h[0] = 0 /\ \A k \in 1..(n + 1) : h[k] = (h[k - 1] * Base + t[k] - 2) % Word
  BY <1>1, <1>2, <1>3 DEF Values!Trace, ValueTurn
<1>9. \A k \in 1..n : t[k] = s[k] OBVIOUS
<1> HIDE DEF n
<1> DEFINE S == {k \in 0..n : f[k] = h[k]}
<1>5. 0 \in S BY <1>1, <1>4
<1>6. ASSUME NEW k \in 0..(n - 1), k \in S PROVE k + 1 \in S
  <2>1. k + 1 \in 1..n /\ k + 1 \in 1..(n + 1) /\ (k + 1) - 1 = k /\ k + 1 \in 0..n BY <1>1
  <2>2. f[k + 1] = (f[k] * Base + s[k + 1] - 2) % Word BY <1>4, <2>1
  <2>3. h[k + 1] = (h[k] * Base + t[k + 1] - 2) % Word BY <1>4, <2>1
  <2> QED BY <1>6, <1>9, <2>1, <2>2, <2>3
<1> HIDE DEF S
<1>7. 0..n \subseteq S BY <1>1, <1>5, <1>6, Values!Induction
<1>8. f[n] = h[n] BY <1>1, <1>7 DEF S
<1>10. n + 1 \in 1..(n + 1) /\ (n + 1) - 1 = n BY <1>1
<1>11. h[n + 1] = (h[n] * Base + t[n + 1] - 2) % Word BY <1>4, <1>10
<1> QED BY <1>1, <1>2, <1>3, <1>8, <1>11

\* The digits of a number have its value.
LEMMA DigitsValue ==
  \A n \in U32 : Value(Digits[n]) = n
<1> DEFINE S == {n \in U32 : Value(Digits[n]) = n}
<1>1. ASSUME NEW n \in U32, \A m \in U32 : m < n => m \in S PROVE n \in S
  <2>1. CASE n = 0
    <3>1. Digits[n] = <<>> BY <2>1, DigitsStep
    <3>2. \E f : Values!Trace(f, {}, 0, <<>>) /\ Value(<<>>) = f[0]
      <4>1. DOMAIN <<>> = 1..0 /\ Len(<<>>) = 0 OBVIOUS
      <4> QED BY <4>1, ValueTrace
    <3>3. Value(<<>>) = 0 BY <3>2 DEF Values!Trace
    <3> QED BY <2>1, <3>1, <3>3
  <2>2. CASE n # 0
    <3> DEFINE q == n \div Base
               r == n % Base
    <3>1. /\ q \in U32 /\ q < n /\ Len(Digits[n]) = Len(Digits[q]) + 1
          /\ \A i \in 1..Len(Digits[q]) : Digits[n][i] = Digits[q][i]
          /\ Digits[n][Len(Digits[q]) + 1] = r + 2
      BY <2>2, DigitsLast
    <3>2. n \in Nat /\ n = q * Base + r /\ q \in Nat /\ r \in 0..(Base - 1) /\ Base \in Nat
      BY DigitsStep, Divided
    <3> HIDE DEF q, r
    <3>3. Digits[n] \in Seq(Digit) /\ Digits[q] \in Seq(Digit) BY <3>1, DigitsAre
    <3>4. Value(Digits[n]) = (Value(Digits[q]) * Base + (r + 2) - 2) % Word
      BY <3>1, <3>3, ValueAppend
    <3>5. Value(Digits[q]) = q BY <1>1, <3>1
    <3>6. q * Base + (r + 2) - 2 = n BY <3>2
    <3>7. n % Word = n BY <3>2, LexinumAssumption DEF U32
    <3> QED BY <3>4, <3>5, <3>6, <3>7
  <2> QED BY <2>1, <2>2
<1> HIDE DEF S
<1>2. U32 \subseteq S BY <1>1, Upwards
<1> QED BY <1>2 DEF S

\* The parts of the long format: the lead, the remainder, and what follows
\* the digits.
LeadOf(v) == (v - MaxSmall) \div Byte
RemOf(v) == (v - MaxSmall) % Byte
Rest(rem) == IF rem > 0 THEN <<1, rem>> ELSE <<>>
Head2(v) == <<Byte, Size(LeadOf(v)) + 1>>
Body(v) == Digits[LeadOf(v)] \o Rest(RemOf(v))

\* The lead and the remainder of a height are in range and give it back.
LEMMA LeadAndRem ==
  ASSUME NEW v \in U32, ~IsSmall(v)
  PROVE  /\ IsLead(LeadOf(v)) /\ LeadOf(v) \in Nat
         /\ RemOf(v) \in 0..(Byte - 1)
         /\ v = LeadOf(v) * Byte + RemOf(v) + MaxSmall
<1>b. Byte \in Nat /\ Byte > 0 /\ Word \in Nat /\ MaxSmall \in Nat
  BY LexinumAssumption DEF MaxSmall
<1>1. v \in Nat /\ v <= Word - 1 /\ v >= MaxSmall BY <1>b DEF U32, IsSmall
<1> DEFINE a == v - MaxSmall
           q == a \div Byte
           r == a % Byte
           c == (Word - 1) \div Byte
           s == (Word - 1) % Byte
<1>2. a \in Nat /\ a <= Word - 1 /\ v = a + MaxSmall /\ Word - 1 \in Nat BY <1>b, <1>1
<1> HIDE DEF a
<1>3. q \in Nat /\ r \in 0..(Byte - 1) /\ a = q * Byte + r BY <1>b, <1>2
<1>4. c \in Nat /\ s \in 0..(Byte - 1) /\ Word - 1 = c * Byte + s BY <1>b, <1>2
<1>5. q <= c
  <2>1. CASE a = Word - 1 BY <1>3, <1>4, <2>1
  <2>2. CASE a < Word - 1
    <3>1. a \div Byte < c \/ a \div Byte = c BY <1>b, <1>2, <2>2, QuotientFirst
    <3> QED BY <1>3, <1>4, <3>1
  <2> QED BY <1>b, <1>2, <2>1, <2>2
<1>6. q <= Word - 1
  <2> HIDE DEF q, r
  <2>1. q <= q * Byte /\ q * Byte \in Nat BY <1>b, <1>3
  <2> QED BY <1>b, <1>2, <1>3, <2>1
<1>7. q \in U32
  <2> HIDE DEF q
  <2> QED BY <1>b, <1>3, <1>6 DEF U32
<1>8. q = LeadOf(v) /\ r = RemOf(v) BY DEF LeadOf, RemOf, a
<1> HIDE DEF q, r, c
<1>9. IsLead(q) BY <1>5, <1>7 DEF IsLead, c
<1> QED BY <1>b, <1>2, <1>3, <1>8, <1>9

\* A string of bytes other than zero.
Nonzero == Seq(1..Byte)

\* The end of the long format: nothing, or a mark and the remainder.
LEMMA RestIs ==
  ASSUME NEW r \in 0..(Byte - 1)
  PROVE  /\ Rest(r) \in Nonzero /\ Rest(r) \in Strings
         /\ r = 0 => Rest(r) = <<>> /\ Len(Rest(r)) = 0
         /\ r > 0 => Rest(r) = <<1, r>> /\ Len(Rest(r)) = 2 /\ Rest(r)[1] = 1 /\ Rest(r)[2] = r
<1>b. Byte \in Nat /\ Byte > 3 BY LexinumAssumption
<1>1. CASE r = 0
  <2>1. Rest(r) = <<>> BY <1>1 DEF Rest
  <2>2. <<>> \in Nonzero /\ <<>> \in Strings /\ Len(<<>>) = 0
    BY EmptySeq DEF Strings, Nonzero
  <2>3. ~(r > 0) BY <1>1
  <2> QED BY <2>1, <2>2, <2>3
<1>2. CASE r > 0
  <2>1. Rest(r) = <<1, r>> BY <1>2 DEF Rest
  <2>2. 1 \in 1..Byte /\ r \in 1..Byte /\ 1 \in 0..Byte /\ r \in 0..Byte BY <1>b, <1>2
  <2> QED BY <1>b, <1>2, <2>1, <2>2 DEF Strings, Nonzero
<1> QED BY <1>b, <1>1, <1>2

\* The long format is a head of two characters, the digits and the rest.
LEMMA LongIs ==
  ASSUME NEW v \in U32, ~IsSmall(v)
  PROVE  /\ EncodeHeight(v) = Head2(v) \o Body(v)
         /\ Head2(v) \in Nonzero /\ Head2(v) \in Strings
         /\ Len(Head2(v)) = 2 /\ Head2(v)[1] = Byte /\ Head2(v)[2] = Size(LeadOf(v)) + 1
         /\ Digits[LeadOf(v)] \in Nonzero /\ Digits[LeadOf(v)] \in Strings
         /\ Body(v) \in Nonzero /\ Body(v) \in Strings
         /\ EncodeHeight(v) \in Nonzero /\ EncodeHeight(v) \in Strings
<1>b. Byte \in Nat /\ Byte > 3 BY LexinumAssumption
<1> DEFINE l == LeadOf(v)
           r == RemOf(v)
           d == Digits[l]
           z == Size(l) + 1
<1>1. IsLead(l) /\ l \in U32 /\ r \in 0..(Byte - 1) BY LeadAndRem DEF IsLead
<1>2. d \in Nonzero /\ d \in Strings
  <2>1. d \in Seq(Digit) BY <1>1, DigitsAre
  <2>2. Digit \subseteq 1..Byte /\ Digit \subseteq 0..Byte BY <1>b DEF Digit
  <2> QED BY <2>1, <2>2, SeqMonotonic DEF Nonzero, Strings
<1>3. z \in 1..Byte /\ z \in 0..Byte BY <1>b, <1>1, SizeIs
<1>4. Rest(r) \in Nonzero /\ Rest(r) \in Strings BY <1>1, RestIs
<1> DEFINE h == <<Byte, z>>
<1>5. h \in Nonzero /\ h \in Strings /\ Len(h) = 2 /\ h[1] = Byte /\ h[2] = z
  <2>1. Byte \in 1..Byte /\ Byte \in 0..Byte BY <1>b
  <2> HIDE DEF z
  <2> QED BY <1>3, <2>1 DEF Nonzero, Strings
<1>6. EncodeHeight(v) = (h \o d) \o Rest(r) BY DEF EncodeHeight, Long, LeadOf, RemOf, Rest
<1>7. h = Head2(v) /\ d \o Rest(r) = Body(v) /\ z = Size(LeadOf(v)) + 1 BY DEF Head2, Body
<1> HIDE DEF h, d, r, z
<1>8. (h \o d) \o Rest(r) = h \o (d \o Rest(r))
  <2>1. h \in Seq(1..Byte) /\ d \in Seq(1..Byte) /\ Rest(r) \in Seq(1..Byte)
    BY <1>2, <1>4, <1>5 DEF Nonzero
  <2> QED BY ONLY <2>1, ConcatAssociative
<1>9. d \o Rest(r) \in Nonzero /\ d \o Rest(r) \in Strings
  BY <1>2, <1>4, ConcatProperties DEF Nonzero, Strings
<1>10. h \o (d \o Rest(r)) \in Nonzero /\ h \o (d \o Rest(r)) \in Strings
  BY <1>5, <1>9, ConcatProperties DEF Nonzero, Strings
<1>11. EncodeHeight(v) = Head2(v) \o Body(v) BY <1>6, <1>7, <1>8
<1>12. Head2(v) \in Nonzero /\ Head2(v) \in Strings /\ Len(Head2(v)) = 2
       /\ Head2(v)[1] = Byte /\ Head2(v)[2] = Size(LeadOf(v)) + 1
  BY <1>5, <1>7
<1>13. Body(v) \in Nonzero /\ Body(v) \in Strings BY <1>7, <1>9
<1>14. Digits[LeadOf(v)] \in Nonzero /\ Digits[LeadOf(v)] \in Strings BY <1>2 DEF d
<1>15. EncodeHeight(v) \in Nonzero /\ EncodeHeight(v) \in Strings BY <1>6, <1>8, <1>10
<1> QED BY <1>11, <1>12, <1>13, <1>14, <1>15

\* Every height is encoded as bytes without zero.
LEMMA EncodedIs ==
  ASSUME NEW v \in U32
  PROVE  /\ EncodeHeight(v) \in Nonzero /\ EncodeHeight(v) \in Strings
         /\ Len(EncodeHeight(v)) \in Nat
<1>b. Byte \in Nat /\ Byte > 3 BY LexinumAssumption
<1>1. CASE IsSmall(v)
  <2>1. v \in Nat BY DEF U32
  <2>2. EncodeHeight(v) \in Nonzero BY <1>1, <2>1, ShortIsBytes DEF EncodeHeight, Nonzero
  <2>3. 1..Byte \subseteq 0..Byte BY <1>b
  <2> QED BY <2>2, <2>3, SeqMonotonic, StringLen DEF Nonzero, Strings
<1>2. CASE ~IsSmall(v) BY <1>2, LongIs, StringLen
<1> QED BY <1>1, <1>2

\* A larger lead has no fewer digits.
LEMMA SizeGrows ==
  ASSUME NEW m, NEW n, IsLead(m), IsLead(n), m < n
  PROVE  Len(Digits[m]) <= Len(Digits[n])
<1>1. PICK N : Enough(N) BY PowersAssumption DEF Enough
<1>n. N \in 1..(Byte - 1) /\ Byte \in Nat /\ N \in Nat BY <1>1, LexinumAssumption DEF Enough
<1> DEFINE k == Len(Digits[n])
           j == Len(Digits[m])
<1>2. m \in U32 /\ n \in U32 /\ m \in Nat /\ n \in Nat BY DigitsStep DEF IsLead
<1>3. k \in Nat /\ j \in Nat BY <1>2, DigitsAre, LenProperties
<1>4. \A i \in 0..N : Len(Digits[m]) <= i <=> m < Power(i) BY <1>1, <1>2, DigitsLen
<1>5. \A i \in 0..N : Len(Digits[n]) <= i <=> n < Power(i) BY <1>1, <1>2, DigitsLen
<1>6. \A i \in 0..N : Power(i) \in Nat BY <1>1, PowersPositive
<1>7. CASE k \in 0..N
  <2>1. n < Power(k) /\ Power(k) \in Nat BY <1>3, <1>5, <1>6, <1>7
  <2>2. m < Power(k) BY <1>2, <2>1
  <2> QED BY <1>4, <1>7, <2>2
<1>8. CASE k \notin 0..N
  <2>1. N < k BY <1>3, <1>8, <1>n
  <2>2. n < Power(N)
    <3>1. Power(N) \in Nat BY <1>6, <1>n
    <3>2. (Word - 1) \div Byte < Power(N) BY <1>1 DEF Enough
    <3>3. Word - 1 \in Int /\ Byte > 0 BY LexinumAssumption
    <3>4. (Word - 1) \div Byte \in Int BY <1>n, <3>3
    <3> QED BY <1>2, <3>1, <3>2, <3>4 DEF IsLead
  <2>3. N \in 0..N BY <1>n
  <2>4. k <= N BY <1>5, <2>2, <2>3
  <2> QED BY <1>3, <1>n, <2>1, <2>4
<1> QED BY <1>7, <1>8

\* Of two heights the lower one sorts first, in whichever formats they are.
THEOREM EncodedInOrder ==
  ASSUME NEW v \in U32, NEW w \in U32, v < w
  PROVE  Less(EncodeHeight(v), EncodeHeight(w))
<1>b. Byte \in Nat /\ Byte > 3 /\ MaxSmall \in Nat BY LexinumAssumption DEF MaxSmall
<1>0. v \in Nat /\ w \in Nat BY DigitsStep
<1>1. CASE IsSmall(w) BY <1>0, <1>1, ShortInOrder
<1>2. CASE IsSmall(v) /\ ~IsSmall(w)
  <2> DEFINE s == EncodeHeight(v)
             t == EncodeHeight(w)
  <2>1. s \in Strings /\ t \in Strings BY EncodedIs
  <2>2. Len(s) = 3 /\ s[1] < Byte BY <1>0, <1>2, ShortIsBytes DEF EncodeHeight
  <2>3. t = Head2(w) \o Body(w) /\ Head2(w) \in Strings /\ Body(w) \in Strings
        /\ Len(Head2(w)) = 2 /\ Head2(w)[1] = Byte
    BY <1>2, LongIs
  <2>4. t[1] = Byte /\ Len(t) = 2 + Len(Body(w)) /\ Len(Body(w)) \in Nat
    <3>1. 1 \in 1..Len(Head2(w)) BY <2>3
    <3> DEFINE h == Head2(w)
               x == Body(w)
    <3> HIDE DEF h, x
    <3>2. h \in Strings /\ x \in Strings /\ t = h \o x /\ Len(h) = 2 /\ h[1] = Byte /\ 1 \in 1..Len(h)
      BY <2>3, <3>1 DEF h, x
    <3>3. Len(h \o x) = Len(h) + Len(x) /\ \A i \in 1..Len(h) : (h \o x)[i] = h[i]
      BY <3>2, JoinAt
    <3>4. Len(x) \in Nat BY <3>2, StringLen
    <3> HIDE DEF t
    <3> QED BY <3>2, <3>3, <3>4 DEF x
  <2> HIDE DEF s, t
  <2>5. Before(s, t, 1) BY <2>1, <2>2, <2>4 DEF Before
  <2>6. Less(s, t) BY <2>1, <2>5, LessAt
  <2> QED BY <2>6 DEF s, t
<1>3. CASE ~IsSmall(v) /\ ~IsSmall(w)
  <2> DEFINE l == LeadOf(v)
             m == LeadOf(w)
             r == RemOf(v)
             u == RemOf(w)
             d == Digits[l]
             e == Digits[m]
  <2>1. /\ IsLead(l) /\ l \in Nat /\ r \in 0..(Byte - 1) /\ v = l * Byte + r + MaxSmall
        /\ IsLead(m) /\ m \in Nat /\ u \in 0..(Byte - 1) /\ w = m * Byte + u + MaxSmall
    BY <1>3, LeadAndRem
  <2>2. /\ EncodeHeight(v) = Head2(v) \o Body(v) /\ EncodeHeight(w) = Head2(w) \o Body(w)
        /\ Head2(v) \in Strings /\ Head2(w) \in Strings
        /\ Len(Head2(v)) = 2 /\ Head2(v)[1] = Byte /\ Head2(v)[2] = Size(l) + 1
        /\ Len(Head2(w)) = 2 /\ Head2(w)[1] = Byte /\ Head2(w)[2] = Size(m) + 1
        /\ Body(v) \in Strings /\ Body(w) \in Strings /\ d \in Strings /\ e \in Strings
    BY <1>3, LongIs
  <2>3. Body(v) = d \o Rest(r) /\ Body(w) = e \o Rest(u)
        /\ Head2(v) = <<Byte, Size(l) + 1>> /\ Head2(w) = <<Byte, Size(m) + 1>>
    BY DEF Body, Head2
  <2>4. Rest(r) \in Strings /\ Rest(u) \in Strings BY <2>1, RestIs
  <2>5. l \in U32 /\ m \in U32 BY <2>1 DEF IsLead
  <2> HIDE DEF l, m, r, u
  <2>6. l < m \/ (l = m /\ r < u)
    <3>1. ASSUME l > m PROVE FALSE
      <4>1. l * Byte >= (m + 1) * Byte BY <1>b, <2>1, <3>1
      <4>2. (m + 1) * Byte = m * Byte + Byte BY <1>b, <2>1
      <4> QED BY <1>b, <2>1, <4>1, <4>2
    <3>2. l = m => r < u BY <1>b, <2>1
    <3> QED BY <2>1, <3>1, <3>2
  <2>7. CASE l = m /\ r < u
    <3>1. Less(Rest(r), Rest(u))
      <4>1. u > 0 /\ Rest(u) = <<1, u>> /\ Len(Rest(u)) = 2 /\ Rest(u)[1] = 1 /\ Rest(u)[2] = u
        BY <2>1, <2>7, RestIs
      <4>2. CASE r = 0
        <5>1. Len(Rest(r)) = 0 BY <2>1, <4>2, RestIs
        <5>2. Before(Rest(r), Rest(u), 1) BY <4>1, <5>1 DEF Before
        <5> QED BY <2>4, <5>2, LessAt
      <4>3. CASE r > 0
        <5>1. Len(Rest(r)) = 2 /\ Rest(r)[1] = 1 /\ Rest(r)[2] = r BY <2>1, <4>3, RestIs
        <5>2. \A j \in 1..(2 - 1) : j = 1 OBVIOUS
        <5>3. Before(Rest(r), Rest(u), 2) BY <2>7, <4>1, <5>1, <5>2 DEF Before
        <5> QED BY <2>4, <5>3, LessAt
      <4> QED BY <2>1, <4>2, <4>3
    <3>2. Less(Body(v), Body(w)) BY <2>2, <2>3, <2>4, <2>7, <3>1, LessAfter
    <3>3. Head2(v) = Head2(w) BY <2>3, <2>7
    <3> QED BY <2>2, <3>2, <3>3, LessAfter
  <2>8. CASE l < m
    <3> DEFINE a == Len(d)
               b == Len(e)
    <3>1. a \in Nat /\ b \in Nat /\ a <= b BY <2>1, <2>2, <2>8, SizeGrows, StringLen
    <3>2. Size(l) = (IF a = 0 THEN 1 ELSE a) /\ Size(m) = (IF b = 0 THEN 1 ELSE b)
      BY <2>1, <2>5, SizeIs
    <3>3. b > 0
      <4>1. m # 0 BY <2>1, <2>8
      <4>2. LET q == m \div Base IN Len(Digits[q]) \in Nat /\ Len(Digits[m]) = Len(Digits[q]) + 1
        BY <2>5, <4>1, DigitsLast
      <4>3. PICK k \in Nat : Len(Digits[m]) = k + 1 BY <4>2
      <4> QED BY <4>3
    <3>4. CASE Size(l) < Size(m)
      <4> DEFINE s == Head2(v)
                 t == Head2(w)
      <4>1. 2 \in 1..Len(s) /\ 2 <= Len(t) BY <2>2
      <4>2. s[2] < t[2] BY <2>2, <3>1, <3>2, <3>4
      <4>3. \A j \in 1..(2 - 1) : s[j] = t[j]
        <5>1. \A j \in 1..(2 - 1) : j = 1 OBVIOUS
        <5> QED BY <2>2, <5>1
      <4> HIDE DEF s, t
      <4>4. Less(s \o Body(v), t \o Body(w))
        BY <2>2, <4>1, <4>2, <4>3, LessBefore DEF s, t
      <4> QED BY <2>2, <4>4 DEF s, t
    <3>5. CASE ~(Size(l) < Size(m))
      <4>1. Size(l) = Size(m) /\ (a = b \/ (a = 0 /\ b = 1))
        <5> HIDE DEF a, b
        <5> QED BY <3>1, <3>2, <3>3, <3>5
      <4>2. Head2(v) = Head2(w) BY <2>3, <4>1
      <4>3. CASE a = b
        <5>1. \E i \in 1..b : e[i] > d[i] /\ \A j \in 1..(i - 1) : d[j] = e[j]
          <6>1. \E i \in 1..Len(Digits[m]) :
                   /\ Digits[l][i] < Digits[m][i]
                   /\ \A j \in 1..(i - 1) : Digits[l][j] = Digits[m][j]
            BY <2>5, <2>8, <4>3, DigitsLess
          <6> QED BY <6>1
        <5>2. PICK i \in 1..b : d[i] < e[i] /\ \A j \in 1..(i - 1) : d[j] = e[j]
          BY <5>1
        <5>3. i \in 1..Len(d) /\ i <= Len(e) BY <3>1, <4>3
        <5> HIDE DEF d, e
        <5>4. Less(d \o Rest(r), e \o Rest(u)) BY <2>2, <2>4, <5>2, <5>3, LessBefore
        <5> QED BY <2>2, <2>3, <4>2, <5>4, LessAfter
      <4>4. CASE a = 0 /\ b = 1
        <5> DEFINE s == Body(v)
                   t == Body(w)
        <5>1. d = <<>> BY <2>2, <4>4, EmptySeq DEF Strings
        <5>2. s = Rest(r) BY <2>3, <2>4, <5>1, ConcatEmptySeq DEF Strings
        <5>3. e[1] \in Digit /\ 1 \in 1..Len(e)
          <6>1. e \in Seq(Digit) /\ 1 \in 1..Len(e) BY <2>5, <4>4, DigitsAre
          <6> QED BY <6>1, ElementOfSeq
        <5>4. t[1] = e[1] /\ Len(t) = Len(e) + Len(Rest(u)) /\ Len(Rest(u)) \in Nat
          BY <2>2, <2>3, <2>4, <5>3, JoinAt, StringLen
        <5>5. 1 <= Len(s) => s[1] = 1 BY <2>1, <5>2, RestIs
        <5>6. t[1] > 1 /\ 1 \in 1..Len(t) /\ 0 <= Len(s)
          <6>1. e[1] > 1 BY <1>b, <5>3 DEF Digit
          <6>2. Len(s) \in Nat BY <2>2, StringLen
          <6> QED BY <3>1, <4>4, <5>4, <6>1, <6>2
        <5> HIDE DEF s, t
        <5>7. Before(s, t, 1) BY <5>5, <5>6 DEF Before
        <5>8. Less(s, t) BY <2>2, <5>7, LessAt DEF s, t
        <5> QED BY <2>2, <4>2, <5>8, LessAfter DEF s, t
      <4> QED BY <4>1, <4>3, <4>4
    <3> QED BY <3>4, <3>5
  <2> QED BY <2>6, <2>7, <2>8
<1>4. IsSmall(w) => IsSmall(v) BY <1>0, <1>b DEF IsSmall
<1> QED BY <1>1, <1>2, <1>3, <1>4

\* A height survives its encoding.
THEOREM DecodedIs ==
  ASSUME NEW v \in U32
  PROVE  DecodeHeight(EncodeHeight(v)) = Height(v)
<1>b. Byte \in Nat /\ Byte > 3 /\ MaxSmall \in Nat /\ Low \in Nat /\ Low <= Byte
  BY LexinumAssumption DEF MaxSmall, Low
<1>0. v \in Nat BY DigitsStep
<1>1. CASE IsSmall(v) BY <1>0, <1>1, ShortRoundTrip
<1>2. CASE ~IsSmall(v)
  <2> DEFINE l == LeadOf(v)
             r == RemOf(v)
             e == Digits[l]
             h == Head2(v)
             b == Body(v)
             d == h \o b
             n == Len(e)
  <2>1. /\ IsLead(l) /\ l \in U32 /\ r \in 0..(Byte - 1) /\ v = l * Byte + r + MaxSmall
    BY <1>2, LeadAndRem DEF IsLead
  <2>2. EncodeHeight(v) = d /\ h \in Strings /\ Len(h) = 2 /\ h[1] = Byte /\ b \in Strings
        /\ e \in Strings
    BY <1>2, LongIs
  <2>3. b = e \o Rest(r) BY DEF Body
  <2>4. Rest(r) \in Strings BY <2>1, RestIs
  <2>5. e \in Seq(Digit) /\ n \in Nat BY <2>1, DigitsAre, LenProperties
  <2> HIDE DEF l, r, h, b
  <2>6. /\ d \in Strings /\ Len(d) = 2 + Len(b) /\ Len(b) \in Nat /\ d[1] = Byte
        /\ \A i \in 1..Len(b) : d[2 + i] = b[i]
    <3>1. 1 \in 1..Len(h) BY <2>2
    <3>2. /\ h \o b \in Strings /\ Len(h \o b) = Len(h) + Len(b)
          /\ \A i \in 1..Len(h) : (h \o b)[i] = h[i]
          /\ \A i \in 1..Len(b) : (h \o b)[Len(h) + i] = b[i]
      BY <2>2, JoinAt
    <3>3. Len(b) \in Nat BY <2>2, StringLen
    <3>4. d = h \o b OBVIOUS
    <3> HIDE DEF d
    <3> QED BY <2>2, <3>1, <3>2, <3>3, <3>4
  <2> HIDE DEF d
  <2>7. SubSeq(d, 3, Len(d)) = b
    <3> DEFINE c == SubSeq(d, 3, Len(d))
               k == Len(d)
    <3>1. \A i \in 3..k : d[i] \in 0..Byte
      <4>1. \A i \in 1..k : d[i] \in 0..Byte BY <2>6, StringLen
      <4> QED BY <2>6, <4>1
    <3>2. k \in Nat /\ k - 3 + 1 = Len(b) /\ (3 <= k => k - 3 + 1 = Len(b)) /\ (~(3 <= k) => Len(b) = 0)
      BY <2>6
    <3>3. /\ c \in Strings /\ Len(c) = (IF 3 <= k THEN k - 3 + 1 ELSE 0)
          /\ \A i \in 1..(k - 3 + 1) : c[i] = d[3 + i - 1]
      <4> HIDE DEF k
      <4> QED BY <3>1, <3>2, SubSeqProperties DEF Strings, k
    <3> HIDE DEF c, k
    <3>4. Len(c) = Len(b) BY <3>2, <3>3
    <3>5. \A i \in 1..Len(c) : c[i] = b[i]
      <4> TAKE i \in 1..Len(c)
      <4>1. i \in 1..(k - 3 + 1) /\ i \in 1..Len(b) /\ 3 + i - 1 = 2 + i BY <2>6, <3>2, <3>4
      <4> QED BY <2>6, <3>3, <4>1
    <3>6. c = b BY <2>2, <3>3, <3>4, <3>5, SeqEqual DEF Strings
    <3> QED BY <3>6 DEF c
  <2>8. DecodeHeight(d) = DecodeLong(b)
    <3>1. ~(Len(d) < 2) /\ ~(d[1] < Low) /\ d[1] = Byte BY <1>b, <2>6
    <3> QED BY <2>7, <3>1 DEF DecodeHeight
  <2>9. Value(e) = l BY <2>1, DigitsValue DEF l
  <2>10. DecodeLong(b) = Height(v)
    <3> DEFINE marks == {i \in DOMAIN b : b[i] = 1}
    <3>1. /\ DOMAIN b = 1..(n + Len(Rest(r))) /\ Len(b) = n + Len(Rest(r))
          /\ \A i \in 1..n : b[i] = e[i]
          /\ \A i \in 1..Len(Rest(r)) : b[n + i] = Rest(r)[i]
      <4>1. /\ e \o Rest(r) \in Strings /\ Len(e \o Rest(r)) = Len(e) + Len(Rest(r))
            /\ \A i \in 1..Len(e) : (e \o Rest(r))[i] = e[i]
            /\ \A i \in 1..Len(Rest(r)) : (e \o Rest(r))[Len(e) + i] = Rest(r)[i]
        <5> HIDE DEF e
        <5> QED BY <2>2, <2>4, JoinAt
      <4>2. DOMAIN b = 1..Len(b) BY <2>2, StringLen
      <4> HIDE DEF e
      <4> QED BY <2>3, <4>1, <4>2 DEF n
    <3>2. \A i \in 1..n : b[i] # 1
      <4> SUFFICES ASSUME NEW i \in 1..n PROVE b[i] # 1 OBVIOUS
      <4>1. e[i] \in Digit BY <2>5, ElementOfSeq
      <4> QED BY <1>b, <3>1, <4>1 DEF Digit
    <3>3. CASE r = 0
      <4>1. Rest(r) = <<>> /\ Len(Rest(r)) = 0 BY <2>1, <3>3, RestIs
      <4>2. b = e BY <2>2, <2>3, <4>1, ConcatEmptySeq DEF Strings
      <4>3. marks = {} BY <2>5, <3>1, <3>2, <4>1
      <4>4. DecodeLong(b) = Height(Value(b) * Byte + MaxSmall) BY <4>3 DEF DecodeLong
      <4>5. l * Byte + MaxSmall = v
        <5>1. l \in Nat BY <2>1, DigitsStep
        <5> QED BY <1>b, <2>1, <3>3, <5>1
      <4> QED BY <2>9, <4>2, <4>4, <4>5
    <3>4. CASE r > 0
      <4>1. Len(Rest(r)) = 2 /\ Rest(r)[1] = 1 /\ Rest(r)[2] = r BY <2>1, <3>4, RestIs
      <4>2. Len(b) = n + 2 /\ b[n + 1] = 1 /\ b[n + 2] = r /\ DOMAIN b = 1..(n + 2)
        <5>1. 1 \in 1..2 /\ 2 \in 1..2 OBVIOUS
        <5> QED BY <3>1, <4>1, <5>1
      <4>3. n + 1 \in marks /\ (\A i \in marks : n + 1 <= i) /\ marks \in SUBSET Int
        BY <2>5, <3>2, <4>2
      <4>4. marks # {} BY <4>3
      <4>5. Min(marks) = n + 1
        <5> HIDE DEF marks
        <5>1. n + 1 \in Int BY <2>5
        <5>2. ASSUME NEW x \in marks, \A y \in marks : x =< y PROVE x = n + 1
          <6>1. x <= n + 1 /\ n + 1 <= x /\ x \in Int BY <4>3, <5>2
          <6> QED BY <5>1, <6>1
        <5>3. Min(marks) = CHOOSE x \in marks : \A y \in marks : x =< y BY DEF Min
        <5> QED BY <4>3, <5>2, <5>3
      <4>6. SubSeq(b, 1, n) = e
        <5> DEFINE c == SubSeq(b, 1, n)
        <5>1. \A i \in 1..n : b[i] \in 0..Byte BY <2>2, <2>5, <4>2, StringLen
        <5>2. /\ c \in Strings /\ Len(c) = (IF 1 <= n THEN n - 1 + 1 ELSE 0)
              /\ \A i \in 1..(n - 1 + 1) : c[i] = b[1 + i - 1]
          <6> HIDE DEF n
          <6> QED BY <2>5, <5>1, SubSeqProperties DEF Strings
        <5> HIDE DEF c
        <5>3. Len(c) = n BY <2>5, <5>2
        <5>4. \A i \in 1..Len(c) : c[i] = e[i]
          <6> TAKE i \in 1..Len(c)
          <6>1. i \in 1..n /\ i \in 1..(n - 1 + 1) /\ 1 + i - 1 = i BY <2>5, <5>3
          <6> QED BY <3>1, <5>2, <6>1
        <5>5. c = e BY <2>2, <5>2, <5>3, <5>4, SeqEqual DEF Strings
        <5> QED BY <5>5 DEF c
      <4>7. ~(n + 1 # Len(b) - 1) /\ (n + 1) - 1 = n /\ (n + 1) + 1 = n + 2 BY <2>5, <4>2
      <4>8. DecodeLong(b) = Height(Value(SubSeq(b, 1, n)) * Byte + b[n + 2] + MaxSmall)
        <5> DEFINE i == Min(marks)
        <5>1. DecodeLong(b) = IF i # Len(b) - 1 THEN Invalid
                ELSE Height(Value(SubSeq(b, 1, i - 1)) * Byte + b[i + 1] + MaxSmall)
          BY <4>4 DEF DecodeLong
        <5>2. i = n + 1 BY <4>5
        <5> HIDE DEF i
        <5> QED BY <4>7, <5>1, <5>2
      <4> QED BY <2>1, <2>9, <4>2, <4>6, <4>8
    <3> QED BY <2>1, <3>3, <3>4
  <2> QED BY <2>2, <2>8, <2>10
<1> QED BY <1>1, <1>2

----------------------------------------------------------------------------
(* Heights encoded one after the other.                                    *)

\* The height at hand is one of a word.
InWord == height \in U32 /\ last \in U32

\* The heights compared fit a word.
LEMMA HeightsInWord == HeightsSpec => []InWord
<1>1. FirstHeights => InWord BY RangesAssumption DEF FirstHeights, InWord
<1>2. InWord /\ [Advance]_heights => InWord'
  <2>1. Word \in Nat BY LexinumAssumption
  <2> QED BY <2>1 DEF InWord, Advance, U32, heights
<1> QED BY <1>1, <1>2, PTL DEF HeightsSpec

\* Every encoded height is above the one before (EncodeHeight, lexinum.go
\* 47-94).
THEOREM HeightsInOrder == HeightsSpec => OrderKept
<1>1. InWord /\ [Advance]_heights
        => [Less(EncodeHeight(height), EncodeHeight(height'))]_heights
  <2> SUFFICES ASSUME InWord, Advance
               PROVE  Less(EncodeHeight(height), EncodeHeight(height'))
    OBVIOUS
  <2>1. height \in U32 /\ height' \in U32 /\ height < height'
    <3>1. Word \in Nat BY LexinumAssumption
    <3> QED BY <3>1 DEF InWord, Advance, U32
  <2> QED BY <2>1, EncodedInOrder
<1> QED BY <1>1, HeightsInWord, PTL DEF HeightsSpec, OrderKept

\* Every height survives its encoding, a string of bytes other than zero
\* (EncodeHeight and DecodeHeight, lexinum.go 11-94).
THEOREM HeightsSurvive == HeightsSpec => []RoundTrip
<1>1. InWord => RoundTrip BY DecodedIs, EncodedIs DEF InWord, RoundTrip, Nonzero
<1> QED BY <1>1, HeightsInWord, PTL

----------------------------------------------------------------------------
(* Keys.                                                                   *)

\* A shortened address is tagged, has the length its tag says and can be
\* undone (addr2slice and decompressAddr).
LEMMA AddrIs ==
  ASSUME NEW a \in Accounts \union Contracts
  PROVE  LET s == addr2slice(a) IN
         /\ s \in Strings /\ Len(s) >= 2 /\ s[1] \in {0, 1}
         /\ Len(s) = PartLen(s[1]) /\ decompressAddr(s) = a
<1>b. Byte \in Nat /\ Byte >= 7 BY LexinumAssumption, KeysAssumption
<1> DEFINE s == addr2slice(a)
           Good(x) == /\ x \in Strings /\ Len(x) >= 2 /\ x[1] \in {0, 1}
                      /\ Len(x) = PartLen(x[1]) /\ decompressAddr(x) = a
<1>7. AddrLen \in Nat /\ AddrLen > 1 BY KeysAssumption
<1>1. CASE a \notin {ongAddr, ontAddr, govAddr, nullAddr}
  <2>1. s = <<0>> \o a BY <1>1 DEF addr2slice
  <2>2. a \in [1..AddrLen -> 0..Byte] BY <1>1, KeysAssumption
  <2>3. a \in Strings /\ Len(a) = AddrLen
    <3>1. a \in Seq(0..Byte) BY <1>7, <2>2, SeqDef
    <3>2. DOMAIN a = 1..AddrLen /\ DOMAIN a = 1..Len(a) /\ Len(a) \in Nat
      BY <2>2, <3>1, LenProperties
    <3>3. Len(a) = AddrLen BY <1>7, <3>2
    <3> QED BY <3>1, <3>3 DEF Strings
  <2>4. <<0>> \in Strings /\ Len(<<0>>) = 1 /\ <<0>>[1] = 0
    <3>1. 0 \in 0..Byte BY <1>b
    <3> QED BY <3>1 DEF Strings
  <2> DEFINE z == <<0>>
  <2>5. z \in Strings /\ Len(z) = 1 /\ z[1] = 0 BY <2>4
  <2>6. s = z \o a BY <2>1
  <2> HIDE DEF z, s
  <2>7. /\ s \in Strings /\ Len(s) = 1 + AddrLen /\ s[1] = 0
        /\ \A i \in 1..AddrLen : s[1 + i] = a[i]
    <3>1. /\ z \o a \in Strings /\ Len(z \o a) = Len(z) + Len(a)
          /\ \A i \in 1..Len(z) : (z \o a)[i] = z[i]
          /\ \A i \in 1..Len(a) : (z \o a)[Len(z) + i] = a[i]
      BY <2>3, <2>5, JoinAt
    <3>2. 1 \in 1..Len(z) BY <2>5
    <3> QED BY <2>3, <2>5, <2>6, <3>1, <3>2
  <2>8. Tail(s) = a
    <3>1. s # <<>> BY <1>7, <2>7, EmptySeq DEF Strings
    <3>2. /\ Tail(s) \in Strings /\ Len(Tail(s)) = Len(s) - 1
          /\ \A i \in 1..Len(Tail(s)) : Tail(s)[i] = s[i + 1]
      BY <2>7, <3>1, HeadTailProperties DEF Strings
    <3>3. Len(Tail(s)) = Len(a) BY <1>7, <2>3, <2>7, <3>2
    <3>4. \A i \in 1..Len(a) : Tail(s)[i] = a[i]
      <4> TAKE i \in 1..Len(a)
      <4>1. i \in 1..AddrLen /\ i + 1 = 1 + i /\ i \in 1..Len(Tail(s)) BY <1>7, <2>3, <3>3
      <4> QED BY <2>7, <3>2, <4>1
    <3> QED BY <2>3, <3>2, <3>3, <3>4, SeqEqual DEF Strings
  <2>9. decompressAddr(s) = a BY <1>7, <2>7, <2>8 DEF decompressAddr
  <2>10. Len(s) >= 2 /\ s[1] \in {0, 1} /\ Len(s) = PartLen(s[1]) BY <1>7, <2>7 DEF PartLen
  <2>11. Good(s) BY <2>7, <2>9, <2>10
  <2> QED BY <2>11 DEF s
<1>p. ASSUME NEW c \in {0, 1, 2, 7}, s = <<1, c>>, c <= Byte,
             a = IF c = 2 THEN ongAddr ELSE IF c = 1 THEN ontAddr
                 ELSE IF c = 7 THEN govAddr ELSE nullAddr
      PROVE  Good(s)
  <2>1. 1 \in 0..Byte /\ c \in 0..Byte BY <1>b, <1>p
  <2> HIDE DEF s
  <2>2. s \in Strings /\ Len(s) = 2 /\ s[1] = 1 /\ s[2] = c BY <1>p, <2>1 DEF Strings
  <2>3. decompressAddr(s) = a BY <1>p, <2>2 DEF decompressAddr
  <2> QED BY <2>2, <2>3 DEF PartLen
<1>2. CASE a = ongAddr BY <1>b, <1>2, <1>p DEF addr2slice
<1>3. CASE a # ongAddr /\ a = ontAddr BY <1>b, <1>3, <1>p DEF addr2slice
<1>4. CASE a # ongAddr /\ a # ontAddr /\ a = govAddr BY <1>b, <1>4, <1>p DEF addr2slice
<1>5. CASE a # ongAddr /\ a # ontAddr /\ a # govAddr /\ a = nullAddr
  BY <1>b, <1>5, <1>p DEF addr2slice
<1> QED BY <1>1, <1>2, <1>3, <1>4, <1>5

\* What a key is made of.
LEMMA KeyIs ==
  ASSUME NEW k \in Holders, NEW h \in U32
  PROVE  /\ addr2slice(k[1]) \in Strings /\ addr2slice(k[2]) \in Strings
         /\ EncodeHeight(h) \in Strings
         /\ Prefix(k) \in Strings /\ Key(k, h) \in Strings
         /\ Key(k, h) = Prefix(k) \o EncodeHeight(h)
         /\ Len(Key(k, h)) = Len(Prefix(k)) + Len(EncodeHeight(h))
         /\ Len(Prefix(k)) = Len(addr2slice(k[1])) + Len(addr2slice(k[2]))
         /\ \A i \in 1..Len(addr2slice(k[1])) : Key(k, h)[i] = addr2slice(k[1])[i]
         /\ \A i \in 1..Len(addr2slice(k[2])) :
              Key(k, h)[Len(addr2slice(k[1])) + i] = addr2slice(k[2])[i]
         /\ \A i \in 1..Len(Prefix(k)) : Key(k, h)[i] = Prefix(k)[i]
<1> DEFINE A == addr2slice(k[1])
           C == addr2slice(k[2])
           E == EncodeHeight(h)
           P == A \o C
           K == P \o E
<1>1. k[1] \in Accounts \union Contracts /\ k[2] \in Accounts \union Contracts BY DEF Holders
<1>2. A \in Strings /\ C \in Strings BY <1>1, AddrIs
<1>3. E \in Strings BY EncodedIs
<1>4. P = Prefix(k) /\ K = Key(k, h) BY DEF Prefix, Key
<1>0. K = P \o E OBVIOUS
<1> HIDE DEF A, C, E
<1>5. /\ P \in Strings /\ Len(P) = Len(A) + Len(C)
      /\ (\A i \in 1..Len(A) : P[i] = A[i])
      /\ \A i \in 1..Len(C) : P[Len(A) + i] = C[i]
  BY <1>2, JoinAt
<1> HIDE DEF P
<1>6. /\ P \o E \in Strings /\ Len(P \o E) = Len(P) + Len(E)
      /\ \A i \in 1..Len(P) : (P \o E)[i] = P[i]
  BY <1>3, <1>5, JoinAt
<1> HIDE DEF K
<1>7. /\ K \in Strings /\ Len(K) = Len(P) + Len(E) /\ \A i \in 1..Len(P) : K[i] = P[i]
  BY <1>0, <1>6
<1>8. Len(A) \in Nat /\ Len(C) \in Nat BY <1>2, StringLen
<1>9. \A i \in 1..Len(A) : K[i] = A[i]
  <2> TAKE i \in 1..Len(A)
  <2>1. i \in 1..Len(P) BY <1>5, <1>8
  <2> QED BY <1>5, <1>7, <2>1
<1>10. \A i \in 1..Len(C) : K[Len(A) + i] = C[i]
  <2> TAKE i \in 1..Len(C)
  <2>1. Len(A) + i \in 1..Len(P) BY <1>5, <1>8
  <2> QED BY <1>5, <1>7, <2>1
<1>11. K = Prefix(k) \o EncodeHeight(h) BY <1>0, <1>4 DEF E
<1> QED BY <1>2, <1>3, <1>4, <1>5, <1>7, <1>9, <1>10, <1>11 DEF A, C, E

\* A key begins with its own prefix and is never empty.
LEMMA KeyHasPrefix ==
  ASSUME NEW k \in Holders, NEW h \in U32
  PROVE  IsPrefix(Prefix(k), Key(k, h)) /\ Key(k, h) # NoKey
<1>1. /\ Prefix(k) \in Strings /\ Key(k, h) \in Strings /\ EncodeHeight(h) \in Strings
      /\ Len(Key(k, h)) = Len(Prefix(k)) + Len(EncodeHeight(h))
      /\ \A i \in 1..Len(Prefix(k)) : Key(k, h)[i] = Prefix(k)[i]
      /\ Len(Prefix(k)) = Len(addr2slice(k[1])) + Len(addr2slice(k[2]))
  BY KeyIs
<1>2. Len(Prefix(k)) \in Nat /\ Len(EncodeHeight(h)) \in Nat BY <1>1, StringLen
<1>3. Len(Prefix(k)) <= Len(Key(k, h)) BY <1>1, <1>2
<1>4. IsPrefix(Prefix(k), Key(k, h)) BY <1>1, <1>3, PrefixAt
<1>5. Len(Prefix(k)) > 0
  <2>1. k[1] \in Accounts \union Contracts /\ k[2] \in Accounts \union Contracts BY DEF Holders
  <2>2. Len(addr2slice(k[1])) >= 2 /\ addr2slice(k[1]) \in Strings BY <2>1, AddrIs
  <2>3. Len(addr2slice(k[2])) >= 2 /\ addr2slice(k[2]) \in Strings BY <2>1, AddrIs
  <2>4. Len(addr2slice(k[1])) \in Nat /\ Len(addr2slice(k[2])) \in Nat BY <2>2, <2>3, StringLen
  <2> QED BY <1>1, <2>2, <2>3, <2>4
<1>6. Len(Key(k, h)) # 0 BY <1>1, <1>2, <1>5
<1>7. Key(k, h) # <<>>
  <2>1. Len(<<>>) = 0 BY EmptySeq
  <2> QED BY <1>6, <2>1
<1> QED BY <1>4, <1>7 DEF NoKey

\* Where the account and the contract of a key end.
LEMMA PartsOfKey ==
  ASSUME NEW k \in Holders, NEW h \in U32
  PROVE  /\ Start(Key(k, h)) = Len(addr2slice(k[1]))
         /\ End(Key(k, h)) = Len(Prefix(k))
<1> DEFINE A == addr2slice(k[1])
           C == addr2slice(k[2])
           K == Key(k, h)
<1>1. k[1] \in Accounts \union Contracts /\ k[2] \in Accounts \union Contracts BY DEF Holders
<1>2. A \in Strings /\ Len(A) >= 2 /\ Len(A) = PartLen(A[1]) BY <1>1, AddrIs
<1>3. C \in Strings /\ Len(C) >= 2 /\ Len(C) = PartLen(C[1]) BY <1>1, AddrIs
<1>4. /\ Len(Prefix(k)) = Len(A) + Len(C)
      /\ \A i \in 1..Len(A) : K[i] = A[i]
      /\ \A i \in 1..Len(C) : K[Len(A) + i] = C[i]
  BY KeyIs
<1>5. 1 \in 1..Len(A) /\ 1 \in 1..Len(C)
  <2>1. Len(A) \in Nat /\ Len(C) \in Nat BY <1>2, <1>3, StringLen
  <2> HIDE DEF A, C
  <2> QED BY <1>2, <1>3, <2>1
<1> HIDE DEF A, C, K
<1>6. Start(K) = Len(A) BY <1>2, <1>4, <1>5 DEF Start
<1>7. End(K) = Len(A) + Len(C) BY <1>3, <1>4, <1>5, <1>6 DEF End
<1> QED BY <1>4, <1>6, <1>7 DEF A, C, K

\* The identity of a key is its prefix, its parts are its account and contract.
LEMMA IdentIs ==
  ASSUME NEW k \in Holders, NEW h \in U32
  PROVE  /\ Ident(Key(k, h)) = Prefix(k)
         /\ decompressAddr(SubSeq(Key(k, h), 1, Start(Key(k, h)))) = k[1]
         /\ decompressAddr(SubSeq(Key(k, h), Start(Key(k, h)) + 1, End(Key(k, h)))) = k[2]
<1> DEFINE A == addr2slice(k[1])
           C == addr2slice(k[2])
           K == Key(k, h)
           P == Prefix(k)
           E == EncodeHeight(h)
<1>1. k[1] \in Accounts \union Contracts /\ k[2] \in Accounts \union Contracts BY DEF Holders
<1>2. A \in Strings /\ Len(A) >= 2 /\ decompressAddr(A) = k[1] BY <1>1, AddrIs
<1>3. C \in Strings /\ Len(C) >= 2 /\ decompressAddr(C) = k[2] BY <1>1, AddrIs
<1>4. /\ Len(P) = Len(A) + Len(C) /\ P \in Strings /\ K \in Strings /\ E \in Strings
      /\ Len(K) = Len(P) + Len(E)
      /\ \A i \in 1..Len(A) : K[i] = A[i]
      /\ \A i \in 1..Len(C) : K[Len(A) + i] = C[i]
      /\ \A i \in 1..Len(P) : K[i] = P[i]
  BY KeyIs
<1>5. Start(K) = Len(A) /\ End(K) = Len(P) BY PartsOfKey
<1> HIDE DEF A, C, K, P, E
<1>6. Len(A) \in Nat /\ Len(C) \in Nat /\ Len(P) \in Nat /\ Len(K) \in Nat /\ Len(E) \in Nat
  BY <1>2, <1>3, <1>4, StringLen
<1>k. \A i \in 1..Len(K) : K[i] \in 0..Byte BY <1>4, StringLen
\* A part of the key that reads as a string is that string.
<1>7. ASSUME NEW s \in Strings, NEW m \in Nat, m + Len(s) <= Len(K), Len(s) > 0,
             \A i \in 1..Len(s) : K[m + i] = s[i]
      PROVE  SubSeq(K, m + 1, m + Len(s)) = s
  <2> DEFINE n == m + Len(s)
             c == SubSeq(K, m + 1, n)
  <2>1. Len(s) \in Nat /\ n \in Nat BY StringLen
  <2>2. \A i \in (m + 1)..n : K[i] \in 0..Byte BY <1>6, <1>7, <1>k, <2>1
  <2>3. /\ c \in Strings /\ Len(c) = (IF m + 1 <= n THEN n - (m + 1) + 1 ELSE 0)
        /\ \A i \in 1..(n - (m + 1) + 1) : c[i] = K[(m + 1) + i - 1]
    <3> HIDE DEF n
    <3> QED BY <2>1, <2>2, SubSeqProperties DEF Strings
  <2>4. (IF m + 1 <= n THEN n - (m + 1) + 1 ELSE 0) = Len(s) /\ n - (m + 1) + 1 = Len(s)
    BY <1>7, <2>1
  <2>5. \A i \in 1..Len(s) : (m + 1) + i - 1 = m + i OBVIOUS
  <2> HIDE DEF c, n
  <2>6. Len(c) = Len(s) /\ \A i \in 1..Len(c) : c[i] = s[i]
    <3>1. Len(c) = Len(s) BY <2>3, <2>4
    <3>2. \A i \in 1..Len(s) : c[i] = K[m + i] BY <2>3, <2>4, <2>5
    <3> QED BY <1>7, <3>1, <3>2
  <2>7. c = s BY <2>3, <2>6, SeqEqual DEF Strings
  <2> QED BY <2>7 DEF c, n
<1>8. SubSeq(K, 0 + 1, 0 + Len(P)) = P
  <2>1. 0 + Len(P) <= Len(K) /\ Len(P) > 0 /\ \A i \in 1..Len(P) : K[0 + i] = P[i]
    BY <1>2, <1>3, <1>4, <1>6
  <2> QED BY <1>4, <1>7, <2>1
<1>9. SubSeq(K, 0 + 1, 0 + Len(A)) = A
  <2>1. 0 + Len(A) <= Len(K) /\ Len(A) > 0 /\ \A i \in 1..Len(A) : K[0 + i] = A[i]
    BY <1>2, <1>3, <1>4, <1>6
  <2> QED BY <1>2, <1>7, <2>1
<1>10. SubSeq(K, Len(A) + 1, Len(A) + Len(C)) = C
  <2>1. Len(A) + Len(C) <= Len(K) /\ Len(C) > 0 BY <1>2, <1>3, <1>4, <1>6
  <2> QED BY <1>3, <1>4, <1>6, <1>7, <2>1
<1>11. 0 + 1 = 1 /\ 0 + Len(P) = Len(P) /\ 0 + Len(A) = Len(A) BY <1>6
<1>12. Ident(K) = P BY <1>5, <1>8, <1>11 DEF Ident
<1>13. decompressAddr(SubSeq(K, 1, Start(K))) = k[1] BY <1>2, <1>5, <1>9, <1>11
<1>14. decompressAddr(SubSeq(K, Start(K) + 1, End(K))) = k[2]
  BY <1>3, <1>4, <1>5, <1>10
<1> QED BY <1>12, <1>13, <1>14 DEF K, P

\* No key has the prefix of another account or contract, though prefixes
\* differ in length.
LEMMA OwnPrefix ==
  ASSUME NEW k \in Holders, NEW j \in Holders, NEW h \in U32, IsPrefix(Prefix(k), Key(j, h))
  PROVE  j = k
<1> DEFINE A == addr2slice(k[1])
           C == addr2slice(k[2])
           B == addr2slice(j[1])
           D == addr2slice(j[2])
           K == Key(j, h)
           P == Prefix(k)
<1>0. /\ k[1] \in Accounts \union Contracts /\ k[2] \in Accounts \union Contracts
      /\ j[1] \in Accounts \union Contracts /\ j[2] \in Accounts \union Contracts
  BY DEF Holders
<1>1. /\ A \in Strings /\ Len(A) >= 2 /\ Len(A) = PartLen(A[1]) /\ decompressAddr(A) = k[1]
      /\ C \in Strings /\ Len(C) >= 2 /\ Len(C) = PartLen(C[1]) /\ decompressAddr(C) = k[2]
  BY <1>0, AddrIs
<1>2. /\ B \in Strings /\ Len(B) >= 2 /\ Len(B) = PartLen(B[1]) /\ decompressAddr(B) = j[1]
      /\ D \in Strings /\ Len(D) >= 2 /\ Len(D) = PartLen(D[1]) /\ decompressAddr(D) = j[2]
  BY <1>0, AddrIs
<1>3. /\ K \in Strings
      /\ \A i \in 1..Len(B) : K[i] = B[i]
      /\ \A i \in 1..Len(D) : K[Len(B) + i] = D[i]
  BY KeyIs
<1>4. P = A \o C /\ P \in Strings BY KeyIs DEF Prefix
<1>5. \A i \in 1..Len(P) : P[i] = K[i]
  <2>1. P \in Strings /\ K \in Strings /\ IsPrefix(P, K) BY <1>3, <1>4
  <2> HIDE DEF P, K
  <2> QED BY <2>1, PrefixAt
<1> HIDE DEF A, B, C, D, K, P
<1>6. /\ Len(P) = Len(A) + Len(C)
      /\ \A i \in 1..Len(A) : P[i] = A[i]
      /\ \A i \in 1..Len(C) : P[Len(A) + i] = C[i]
  <2>1. /\ Len(A \o C) = Len(A) + Len(C)
        /\ \A i \in 1..Len(A) : (A \o C)[i] = A[i]
        /\ \A i \in 1..Len(C) : (A \o C)[Len(A) + i] = C[i]
    <3>1. A \in Strings /\ C \in Strings BY <1>1
    <3> QED BY ONLY <3>1, JoinAt
  <2>2. P = A \o C BY <1>4
  <2> QED BY ONLY <2>1, <2>2
<1>7. Len(A) \in Nat /\ Len(C) \in Nat /\ Len(B) \in Nat /\ Len(D) \in Nat
  BY <1>1, <1>2, StringLen
<1>8. \A i \in 1..Len(A) : A[i] = K[i]
  <2> TAKE i \in 1..Len(A)
  <2>1. i \in 1..Len(P) BY <1>6, <1>7
  <2> QED BY <1>5, <1>6, <2>1
<1>9. \A i \in 1..Len(C) : C[i] = K[Len(A) + i]
  <2> TAKE i \in 1..Len(C)
  <2>1. Len(A) + i \in 1..Len(P) BY <1>6, <1>7
  <2> QED BY <1>5, <1>6, <2>1
<1>10. A = B
  <2>1. 1 \in 1..Len(A) /\ 1 \in 1..Len(B) BY <1>1, <1>2, <1>7
  <2>2. Len(A) = Len(B) BY <1>1, <1>2, <1>3, <1>8, <2>1
  <2>3. \A i \in 1..Len(A) : A[i] = B[i] BY <1>3, <1>8, <2>2
  <2> QED BY <1>1, <1>2, <2>2, <2>3, SeqEqual DEF Strings
<1>11. C = D
  <2>1. 1 \in 1..Len(C) /\ 1 \in 1..Len(D) BY <1>1, <1>2, <1>7
  <2>2. Len(C) = Len(D) BY <1>1, <1>2, <1>3, <1>9, <1>10, <2>1
  <2>3. \A i \in 1..Len(C) : C[i] = D[i] BY <1>3, <1>9, <1>10, <2>2
  <2> QED BY <1>1, <1>2, <2>2, <2>3, SeqEqual DEF Strings
<1>12. j[1] = k[1] /\ j[2] = k[2] BY <1>1, <1>2, <1>10, <1>11
<1> QED BY <1>12 DEF Holders

\* Keys of one account and contract are in the order of their heights.
LEMMA KeysInOrder ==
  ASSUME NEW k \in Holders, NEW h \in U32, NEW i \in U32
  PROVE  /\ Less(Key(k, i), Key(k, h)) <=> i < h
         /\ AtMost(Key(k, i), Key(k, h)) <=> i <= h
         /\ Key(k, i) = Key(k, h) <=> i = h
<1>1. /\ Prefix(k) \in Strings /\ EncodeHeight(h) \in Strings /\ EncodeHeight(i) \in Strings
      /\ Key(k, h) \in Strings /\ Key(k, i) \in Strings
      /\ Key(k, h) = Prefix(k) \o EncodeHeight(h) /\ Key(k, i) = Prefix(k) \o EncodeHeight(i)
  BY KeyIs
<1>2. i < h => Less(Key(k, i), Key(k, h)) BY <1>1, EncodedInOrder, LessAfter
<1>3. h < i => Less(Key(k, h), Key(k, i)) BY <1>1, EncodedInOrder, LessAfter
<1>4. h \in Nat /\ i \in Nat BY DigitsStep
<1>5. i = h => ~Less(Key(k, i), Key(k, h)) BY <1>1, LessIrreflexive
<1>6. Less(Key(k, h), Key(k, i)) => ~Less(Key(k, i), Key(k, h))
  BY <1>1, LessIrreflexive, LessTransitive
<1>7. Less(Key(k, i), Key(k, h)) <=> i < h BY <1>2, <1>3, <1>4, <1>5, <1>6
<1>8. Key(k, i) = Key(k, h) => i = h BY <1>1, <1>2, <1>3, <1>4, LessIrreflexive
<1> QED BY <1>4, <1>7, <1>8 DEF AtMost

\* A finite set of strings has a first and a last one.
LEMMA Ends ==
  ASSUME NEW T \in SUBSET Strings, IsFiniteSet(T), T # {}
  PROVE  /\ \E x \in T : \A y \in T : AtMost(y, x)
         /\ \E x \in T : \A y \in T : AtMost(x, y)
<1> DEFINE Ended(U) == /\ \E x \in U : \A y \in U : AtMost(y, x)
                       /\ \E x \in U : \A y \in U : AtMost(x, y)
           S == {n \in Nat : \A U \in SUBSET T : Cardinality(U) = n /\ U # {} => Ended(U)}
<1>0. \A U \in SUBSET T : IsFiniteSet(U) /\ Cardinality(U) \in Nat
  BY FS_Subset, FS_CardinalityType
<1>1. 0 \in S
  <2>1. ASSUME NEW U \in SUBSET T, Cardinality(U) = 0 PROVE U = {}
    BY <1>0, <2>1, FS_EmptySet
  <2> QED BY <2>1
<1>2. ASSUME NEW n \in Nat, n \in S PROVE n + 1 \in S
  <2> SUFFICES ASSUME NEW U \in SUBSET T, Cardinality(U) = n + 1, U # {} PROVE Ended(U)
    OBVIOUS
  <2>1. PICK z \in U : TRUE OBVIOUS
  <2> DEFINE V == U \ {z}
  <2>2. IsFiniteSet(V) /\ Cardinality(V) = n
    <3>1. Cardinality(V) = Cardinality(U) - 1 /\ IsFiniteSet(V) BY <1>0, FS_RemoveElement
    <3> QED BY <3>1
  <2>z. AtMost(z, z) BY DEF AtMost
  <2>3. CASE V = {}
    <3>1. \A y \in U : y = z BY <2>3
    <3> QED BY <2>z, <3>1
  <2>4. CASE V # {}
    <3>1. Ended(V) BY <1>2, <2>2, <2>4
    <3>2. PICK a \in V : \A y \in V : AtMost(y, a) BY <3>1
    <3>3. PICK b \in V : \A y \in V : AtMost(b, y) BY <3>1
    <3>4. \A x, y \in U : AtMost(x, y) \/ AtMost(y, x) BY LessTotal DEF AtMost
    <3>5. \A x, y, w \in U : AtMost(x, y) /\ AtMost(y, w) => AtMost(x, w)
      BY AtMostTransitive
    <3>6. \E x \in U : \A y \in U : AtMost(y, x)
      <4>1. CASE AtMost(a, z)
        <5>1. \A y \in U : AtMost(y, z) BY <2>z, <3>2, <3>5, <4>1
        <5> QED BY <5>1
      <4>2. CASE AtMost(z, a)
        <5>1. \A y \in U : AtMost(y, a) BY <3>2, <4>2
        <5> QED BY <5>1
      <4> QED BY <3>4, <4>1, <4>2
    <3>7. \E x \in U : \A y \in U : AtMost(x, y)
      <4>1. CASE AtMost(z, b)
        <5>1. \A y \in U : AtMost(z, y) BY <2>z, <3>3, <3>5, <4>1
        <5> QED BY <5>1
      <4>2. CASE AtMost(b, z)
        <5>1. \A y \in U : AtMost(b, y) BY <3>3, <4>2
        <5> QED BY <5>1
      <4> QED BY <3>4, <4>1, <4>2
    <3> QED BY <3>6, <3>7
  <2> QED BY <2>3, <2>4
<1>3. Cardinality(T) \in S
  <2>1. Cardinality(T) \in Nat BY <1>0
  <2> HIDE DEF S
  <2>2. 0..Cardinality(T) \subseteq S BY <1>1, <1>2, <2>1, Concat!Induction
  <2> QED BY <2>1, <2>2
<1> QED BY <1>3

----------------------------------------------------------------------------
(* The entries written.                                                    *)

\* The heights of entries are in the window, and none is above the tip (Index
\* of IndexBlocks, store.go 225-243).
THEOREM KeysTyped == Spec => []TypeOK
<1>w. \A h \in Window : h \in Nat BY KeysAssumption DEF U32
<1>1. Init => TypeOK BY DEF Init, TypeOK
<1>2. TypeOK /\ [Next]_vars => TypeOK'
  <2> SUFFICES ASSUME TypeOK, [Next]_vars PROVE TypeOK' OBVIOUS
  <2>1. CASE UNCHANGED vars BY <2>1 DEF vars, TypeOK
  <2>2. ASSUME NEW h \in Window, NEW moved \in SUBSET Holders, Index(h, moved)
        PROVE  TypeOK'
    <3>1. /\ h > tip \/ (h = 0 /\ tip = 0)
          /\ tip' = h
          /\ written' = [k \in Holders |-> IF k \in moved THEN written[k] \union {h}
                                                          ELSE written[k]]
      BY <2>2 DEF Index
    <3>2. written' \in [Holders -> SUBSET Window] BY <3>1 DEF TypeOK
    <3>3. ASSUME NEW k \in Holders, NEW i \in written'[k] PROVE i <= h
      <4>1. i = h \/ (i \in written[k] /\ i \in Window /\ i <= tip)
        BY <3>1, <3>3 DEF TypeOK
      <4>2. tip \in Int BY <1>w DEF TypeOK
      <4>3. h \in Nat BY <1>w
      <4>4. i \in Window => i \in Nat BY <1>w
      <4> QED BY <3>1, <4>1, <4>2, <4>3, <4>4
    <3> QED BY <3>1, <3>2, <3>3 DEF TypeOK
  <2> QED BY <2>1, <2>2 DEF Next
<1> QED BY <1>1, <1>2, PTL DEF Spec

\* A set of heights has a highest one.
LEMMA HighestOf ==
  ASSUME NEW W \in SUBSET U32, W # {}
  PROVE  Max(W) \in W /\ \A i \in W : i <= Max(W)
<1> DEFINE T == {n \in Nat : \A i \in W : i <= n}
<1>1. \A i \in W : i \in Nat /\ i <= Word - 1 BY DEF U32
<1>2. Word - 1 \in T
  <2>1. Word \in Nat BY LexinumAssumption
  <2>2. PICK i \in W : TRUE OBVIOUS
  <2>3. Word - 1 \in Nat BY <1>1, <2>1, <2>2
  <2> QED BY <1>1, <2>3
<1>3. PICK n \in T : \A m \in T : n <= m
  <2>1. T \in SUBSET Nat /\ T # {} BY <1>2
  <2> HIDE DEF T
  <2> QED BY <2>1, Concat!LeastOf
<1>4. n \in Nat /\ \A i \in W : i <= n OBVIOUS
<1>5. n \in W
  <2> SUFFICES ASSUME n \notin W PROVE FALSE OBVIOUS
  <2>1. \A i \in W : i < n BY <1>1, <1>4
  <2>2. n # 0
    <3>1. PICK i \in W : TRUE OBVIOUS
    <3> QED BY <1>1, <2>1, <3>1
  <2>3. n - 1 \in Nat /\ \A i \in W : i <= n - 1 BY <1>1, <1>4, <2>1, <2>2
  <2>4. n - 1 \in T /\ ~(n <= n - 1) BY <1>4, <2>3
  <2> HIDE DEF T
  <2> QED BY <1>3, <2>4
<1>6. W \in SUBSET Int BY <1>1
<1> HIDE DEF T
<1>7. Max(W) = n BY <1>4, <1>5, <1>6, MaxIs
<1> QED BY <1>4, <1>5, <1>7

\* The keys stored are finitely many strings.
LEMMA StoredIs ==
  ASSUME TypeOK
  PROVE  /\ Stored \in SUBSET Strings /\ IsFiniteSet(Stored)
         /\ \A x \in Stored : \E k \in Holders : \E h \in written[k] : x = Key(k, h)
         /\ \A k \in Holders : \A h \in written[k] : Key(k, h) \in Stored /\ h \in U32
         /\ \A k \in Holders : written[k] \in SUBSET U32
<1>1. \A k \in Holders : written[k] \in SUBSET U32 BY KeysAssumption DEF TypeOK
<1>2. \A x \in Stored : \E k \in Holders : \E h \in written[k] : x = Key(k, h) BY DEF Stored
<1>3. \A k \in Holders : \A h \in written[k] : Key(k, h) \in Stored BY DEF Stored
<1>4. Stored \in SUBSET Strings
  <2> SUFFICES ASSUME NEW x \in Stored PROVE x \in Strings OBVIOUS
  <2>1. PICK k \in Holders : \E h \in written[k] : x = Key(k, h) BY <1>2
  <2>2. PICK h \in written[k] : x = Key(k, h) BY <2>1
  <2> QED BY <1>1, <2>2, KeyIs
<1>5. IsFiniteSet(Stored)
  <2> DEFINE D == Holders \X U32
             f == [e \in D |-> Key(e[1], e[2])]
             R == {f[e] : e \in D}
  <2>1. IsFiniteSet(Holders) BY KeysAssumption, FS_Product DEF Holders
  <2>2. IsFiniteSet(U32)
    <3>1. Word - 1 \in Int BY LexinumAssumption
    <3> QED BY <3>1, FS_Interval DEF U32
  <2>3. IsFiniteSet(D) BY <2>1, <2>2, FS_Product
  <2>4. \A x \in Stored : x \in R
    <3> SUFFICES ASSUME NEW x \in Stored PROVE x \in R OBVIOUS
    <3>1. PICK k \in Holders : \E h \in written[k] : x = Key(k, h) BY <1>2
    <3>2. PICK h \in written[k] : x = Key(k, h) BY <3>1
    <3>3. <<k, h>> \in D /\ f[<<k, h>>] = x BY <1>1, <3>2
    <3> HIDE DEF f, D
    <3> QED BY <3>3
  <2>5. IsFiniteSet(R)
    <3>1. f \in [D -> R] /\ \A y \in R : \E e \in D : f[e] = y OBVIOUS
    <3> HIDE DEF f, D, R
    <3>2. f \in Surjection(D, R) BY <3>1 DEF Surjection
    <3> QED BY <2>3, <3>2, FS_Surjection
  <2> HIDE DEF R
  <2> QED BY <2>4, <2>5, FS_Subset
<1> QED BY <1>1, <1>2, <1>3, <1>4, <1>5

----------------------------------------------------------------------------
(* Searching.                                                              *)

\* A reverse iterator over some of the keys, those of one account and contract
\* among them being those of the heights W, ends at the highest of W.
LEMMA NewestFound ==
  ASSUME TypeOK, NEW k \in Holders, NEW h \in U32, NEW B \in SUBSET Stored,
         NEW W \in SUBSET written[k],
         \A i \in written[k] : Key(k, i) \in B <=> i \in W,
         \A x \in B : AtMost(x, Key(k, h))
  PROVE  ValidForPrefix(Greatest(B), Prefix(k)) = Newest(k, W)
<1>s. /\ Stored \in SUBSET Strings /\ IsFiniteSet(Stored)
      /\ \A x \in Stored : \E j \in Holders : \E i \in written[j] : x = Key(j, i)
      /\ \A j \in Holders : written[j] \in SUBSET U32
  BY StoredIs
<1>p. Prefix(k) \in Strings /\ Key(k, h) \in Strings BY KeyIs
<1>1. ASSUME NEW x \in B, IsPrefix(Prefix(k), x) PROVE \E i \in W : x = Key(k, i)
  <2>1. PICK j \in Holders : \E i \in written[j] : x = Key(j, i) BY <1>s
  <2>2. PICK i \in written[j] : x = Key(j, i) BY <2>1
  <2>3. j = k BY <1>1, <1>s, <2>2, OwnPrefix
  <2> QED BY <2>2, <2>3
<1>2. CASE B = {}
  <2>1. W = {} BY <1>2
  <2> QED BY <1>2, <2>1 DEF Greatest, ValidForPrefix, Newest
<1>3. CASE B # {}
  <2> DEFINE g == Greatest(B)
  <2>1. g \in B /\ \A y \in B : AtMost(y, g)
    <3>1. B \in SUBSET Strings /\ IsFiniteSet(B) BY <1>s, FS_Subset
    <3>2. \E x \in B : \A y \in B : AtMost(y, x) BY <1>3, <3>1, Ends
    <3> QED BY <1>3, <3>2 DEF Greatest
  <2> HIDE DEF g
  <2>2. CASE W = {}
    <3>1. ~IsPrefix(Prefix(k), g) BY <1>1, <2>1, <2>2
    <3> QED BY <2>2, <3>1 DEF ValidForPrefix, Newest, g
  <2>3. CASE W # {}
    <3> DEFINE m == Max(W)
    <3>1. m \in W /\ (\A i \in W : i <= m) /\ m \in U32
      <4>1. W \in SUBSET U32 BY <1>s
      <4> QED BY <2>3, <4>1, HighestOf
    <3> HIDE DEF m
    <3>2. Key(k, m) \in B /\ IsPrefix(Prefix(k), Key(k, m)) BY <3>1, KeyHasPrefix
    <3>3. IsPrefix(Prefix(k), Key(k, h)) BY KeyHasPrefix
    <3>4. AtMost(Key(k, m), g) /\ AtMost(g, Key(k, h)) BY <2>1, <3>2
    <3>5. Key(k, m) \in Strings /\ g \in Strings BY <1>s, <2>1, <3>2
    <3>6. IsPrefix(Prefix(k), g)
      BY <1>p, <3>2, <3>3, <3>4, <3>5, BetweenPrefixed
    <3>7. PICK i \in W : g = Key(k, i) BY <1>1, <2>1, <3>6
    <3>8. i \in U32 BY <1>s
    <3>9. m <= i BY <3>1, <3>4, <3>7, <3>8, KeysInOrder
    <3>10. i = m
      <4>1. i \in Nat /\ m \in Nat /\ i <= m BY <3>1, <3>8, DigitsStep
      <4> QED BY <3>9, <4>1
    <3>11. g # NoKey BY <3>1, <3>7, <3>8, KeyHasPrefix
    <3> QED BY <2>3, <3>6, <3>7, <3>10, <3>11 DEF ValidForPrefix, Newest, g, m
  <2> QED BY <2>2, <2>3
<1> QED BY <1>2, <1>3

\* The seeks of getBalance and of setBlock find the newest entry of the very
\* account and contract, at or below the height and strictly below it
\* (store.go 426-456 and 638-665).
THEOREM SeeksAreNewest == Spec => []SeekIsNewest
<1>1. TypeOK => SeekIsNewest
  <2> SUFFICES ASSUME TypeOK, NEW k \in Holders, NEW h \in Window
               PROVE  /\ Seek(k, h) = Newest(k, {i \in written[k] : i <= h})
                      /\ SeekPrev(k, h) = Newest(k, {i \in written[k] : i < h})
    BY DEF SeekIsNewest
  <2>0. h \in U32 /\ h \in Nat
    <3>1. h \in U32 BY KeysAssumption
    <3> QED BY <3>1, DigitsStep
  <2>s. /\ Stored \in SUBSET Strings
        /\ \A i \in written[k] : Key(k, i) \in Stored /\ i \in U32 /\ i \in Nat
        /\ written[k] \in SUBSET U32
    <3>1. \A i \in U32 : i \in Nat BY DigitsStep
    <3> QED BY <3>1, StoredIs
  <2> DEFINE B == {x \in Stored : AtMost(x, Key(k, h))}
             W == {i \in written[k] : i <= h}
             V == {i \in written[k] : i < h}
  <2>1. Seek(k, h) = Newest(k, W)
    <3>1. \A i \in written[k] : Key(k, i) \in B <=> i \in W BY <2>0, <2>s, KeysInOrder
    <3>2. B \in SUBSET Stored /\ W \in SUBSET written[k] /\ \A x \in B : AtMost(x, Key(k, h))
      OBVIOUS
    <3>3. Seek(k, h) = ValidForPrefix(Greatest(B), Prefix(k)) BY DEF Seek
    <3> HIDE DEF B, W
    <3> QED BY <2>0, <3>1, <3>2, <3>3, NewestFound
  <2>2. h \notin written[k] => Newest(k, W) # Key(k, h) /\ W = V
    <3> SUFFICES ASSUME h \notin written[k] PROVE Newest(k, W) # Key(k, h) /\ W = V OBVIOUS
    <3>1. W = V BY <2>0, <2>s
    <3>2. CASE W = {}
      <4>1. Newest(k, W) = NoKey BY <3>2 DEF Newest
      <4> QED BY <2>0, <3>1, <4>1, KeyHasPrefix
    <3>3. CASE W # {}
      <4>1. Newest(k, W) = Key(k, Max(W)) BY <3>3 DEF Newest
      <4>2. Max(W) \in W
        <5>1. W \in SUBSET U32 BY <2>s
        <5> HIDE DEF W
        <5> QED BY <3>3, <5>1, HighestOf
      <4>3. Max(W) # h /\ Max(W) \in U32 BY <2>s, <4>2
      <4> DEFINE m == Max(W)
      <4>4. m # h /\ m \in U32 BY <4>3
      <4>5. Newest(k, W) = Key(k, m) BY <4>1
      <4> HIDE DEF m, W, V
      <4>6. Key(k, m) # Key(k, h) BY <2>0, <4>4, KeysInOrder
      <4> QED BY <3>1, <4>5, <4>6
    <3> QED BY <3>2, <3>3
  <2>3. h \in written[k] => Newest(k, W) = Key(k, h)
    <3> SUFFICES ASSUME h \in written[k] PROVE Newest(k, W) = Key(k, h) OBVIOUS
    <3>1. h \in W /\ (\A i \in W : i <= h) /\ W \in SUBSET Int BY <2>0, <2>s
    <3> HIDE DEF W
    <3>2. Max(W) = h BY <3>1, MaxIs
    <3> QED BY <3>1, <3>2 DEF Newest
  <2>4. SeekPrev(k, h) = Newest(k, V)
    <3>1. CASE h \notin written[k]
      <4>1. SeekPrev(k, h) = Seek(k, h) BY <2>1, <2>2, <3>1 DEF SeekPrev
      <4> QED BY <2>1, <2>2, <3>1, <4>1
    <3>2. CASE h \in written[k]
      <4> DEFINE C == {y \in Stored : Less(y, Key(k, h))}
      <4>1. SeekPrev(k, h) = ValidForPrefix(Greatest(C), Prefix(k))
        BY <2>1, <2>3, <3>2 DEF SeekPrev
      <4>2. \A i \in written[k] : Key(k, i) \in C <=> i \in V BY <2>0, <2>s, KeysInOrder
      <4>3. C \in SUBSET Stored /\ V \in SUBSET written[k] /\ \A x \in C : AtMost(x, Key(k, h))
        BY DEF AtMost
      <4> HIDE DEF C, V
      <4> QED BY <2>0, <4>1, <4>2, <4>3, NewestFound
    <3> QED BY <3>1, <3>2
  <2> QED BY <2>1, <2>4
<1> QED BY <1>1, KeysTyped, PTL

\* The scan keeps the newest key of every account and contract that has one.
LEMMA ScanIs ==
  ASSUME TypeOK, NEW k \in Holders, NEW h \in written[k]
  PROVE  Key(k, h) \in Scan(Stored) <=> h = Max(written[k])
<1>s. /\ Stored \in SUBSET Strings /\ IsFiniteSet(Stored)
      /\ \A x \in Stored : \E j \in Holders : \E i \in written[j] : x = Key(j, i)
      /\ \A j \in Holders : written[j] \in SUBSET U32
      /\ \A i \in written[k] : Key(k, i) \in Stored /\ i \in U32 /\ i \in Nat
  <2>1. \A i \in U32 : i \in Nat BY DigitsStep
  <2> QED BY <2>1, StoredIs
<1> DEFINE x == Key(k, h)
           above == {y \in Stored : Less(x, y)}
           m == Max(written[k])
           Kept == above = {} \/ \E y \in above : /\ \A z \in above : AtMost(y, z)
                                                  /\ Ident(y) # Ident(x)
<1>1. x \in Stored /\ x \in Strings /\ Prefix(k) \in Strings /\ IsPrefix(Prefix(k), x)
      /\ Ident(x) = Prefix(k)
  BY <1>s, KeyIs, KeyHasPrefix, IdentIs
<1>2. x \in Scan(Stored) <=> Kept BY <1>1 DEF Scan
<1>3. m \in written[k] /\ \A i \in written[k] : i <= m
  <2>1. written[k] \in SUBSET U32 /\ written[k] # {} BY <1>s
  <2> QED BY <2>1, HighestOf
<1> HIDE DEF m
\* A key above that begins alike is a later one of the same.
<1>4. ASSUME NEW y \in above, Ident(y) = Ident(x) PROVE \E i \in written[k] : y = Key(k, i) /\ h < i
  <2>1. y \in Stored /\ Less(x, y) OBVIOUS
  <2>2. PICK j \in Holders : \E i \in written[j] : y = Key(j, i) BY <1>s, <2>1
  <2>3. PICK i \in written[j] : y = Key(j, i) BY <2>2
  <2>4. i \in U32 BY <1>s
  <2>5. Prefix(j) = Prefix(k) BY <1>1, <1>4, <2>3, <2>4, IdentIs
  <2>6. j = k
    <3>1. IsPrefix(Prefix(j), Key(j, i)) BY <2>4, KeyHasPrefix
    <3> QED BY <2>4, <2>5, <3>1, OwnPrefix
  <2>7. h < i BY <1>s, <2>1, <2>3, <2>4, <2>6, KeysInOrder
  <2> QED BY <2>3, <2>6, <2>7
<1>5. CASE h = m
  <2> SUFFICES ASSUME above # {} PROVE Kept BY <1>2, <1>5 DEF m
  <2>1. PICK y \in above : \A z \in above : AtMost(y, z)
    <3>1. above \in SUBSET Strings /\ IsFiniteSet(above)
      <4>1. above \in SUBSET Stored OBVIOUS
      <4> HIDE DEF above
      <4> QED BY <1>s, <4>1, FS_Subset
    <3> HIDE DEF above
    <3> QED BY <3>1, Ends
  <2>2. Ident(y) # Ident(x)
    <3> SUFFICES ASSUME Ident(y) = Ident(x) PROVE FALSE OBVIOUS
    <3>1. PICK i \in written[k] : y = Key(k, i) /\ h < i BY <1>4
    <3>2. i <= h /\ i \in Nat /\ h \in Nat BY <1>3, <1>5, <1>s
    <3> QED BY <3>1, <3>2
  <2> QED BY <2>1, <2>2
<1>6. CASE h # m
  <2> SUFFICES ASSUME Kept PROVE FALSE BY <1>2, <1>6 DEF m
  <2>1. h < m /\ m \in U32 /\ h \in U32
    <3>1. h \in Nat /\ m \in Nat /\ h <= m /\ h \in U32 /\ m \in U32 BY <1>3, <1>s
    <3> QED BY <1>6, <3>1
  <2> DEFINE t == Key(k, m)
  <2>2. t \in above BY <1>3, <1>s, <2>1, KeysInOrder
  <2>3. PICK y \in above : (\A z \in above : AtMost(y, z)) /\ Ident(y) # Ident(x) BY <2>2
  <2>4. AtMost(x, y) /\ AtMost(y, t) /\ y \in Stored
    <3>1. Less(x, y) /\ y \in Stored OBVIOUS
    <3> QED BY <2>2, <2>3, <3>1 DEF AtMost
  <2>5. t \in Strings /\ IsPrefix(Prefix(k), t) BY <2>1, KeyIs, KeyHasPrefix
  <2> HIDE DEF t, above
  <2>6. y \in Strings BY <1>s, <2>4
  <2>7. IsPrefix(Prefix(k), y)
    <3> HIDE DEF x
    <3> QED BY <1>1, <2>4, <2>5, <2>6, BetweenPrefixed
  <2>8. PICK j \in Holders : \E i \in written[j] : y = Key(j, i) BY <1>s, <2>4
  <2>9. PICK i \in written[j] : y = Key(j, i) BY <2>8
  <2>10. i \in U32 BY <1>s
  <2>11. j = k BY <2>7, <2>9, <2>10, OwnPrefix
  <2>12. Ident(y) = Prefix(k) BY <2>9, <2>10, <2>11, IdentIs
  <2> QED BY <1>1, <2>3, <2>12
<1> QED BY <1>5, <1>6

\* Validate looks at every account and contract with an entry once, by its
\* newest one, and asks the ledger about that very account and contract
\* (store.go 279-341).
THEOREM ScanIsComplete == Spec => []ScanFindsNewest
<1>1. TypeOK => ScanFindsNewest
  <2> SUFFICES ASSUME TypeOK PROVE ScanFindsNewest OBVIOUS
  <2>s. /\ \A x \in Stored : \E j \in Holders : \E i \in written[j] : x = Key(j, i)
        /\ \A j \in Holders : written[j] \in SUBSET U32
        /\ \A j \in Holders : \A i \in written[j] : Key(j, i) \in Stored
    BY StoredIs
  <2> DEFINE Row(x) == [ acct     |-> decompressAddr(SubSeq(x, 1, Start(x))),
                         contract |-> decompressAddr(SubSeq(x, Start(x) + 1, End(x))),
                         key      |-> x ]
             Want(k) == [acct |-> k[1], contract |-> k[2], key |-> Newest(k, written[k])]
             Having == {k \in Holders : written[k] # {}}
  <2>1. ASSUME NEW k \in Holders, NEW i \in written[k] PROVE
          Row(Key(k, i)) = [acct |-> k[1], contract |-> k[2], key |-> Key(k, i)]
    <3>1. i \in U32 BY <2>s
    <3> QED BY <3>1, IdentIs
  <2>2. ASSUME NEW x \in Scan(Stored) PROVE \E k \in Having : Row(x) = Want(k)
    <3>1. x \in Stored BY DEF Scan
    <3>2. PICK k \in Holders : \E i \in written[k] : x = Key(k, i) BY <2>s, <3>1
    <3>3. PICK i \in written[k] : x = Key(k, i) BY <3>2
    <3>4. i = Max(written[k]) BY <2>2, <3>3, ScanIs
    <3>5. k \in Having /\ Newest(k, written[k]) = x BY <3>3, <3>4 DEF Newest
    <3>6. Row(x) = Want(k) BY <2>1, <3>3, <3>5
    <3> HIDE DEF Row, Want, Having
    <3> QED BY <3>5, <3>6
  <2>3. ASSUME NEW k \in Having PROVE \E x \in Scan(Stored) : Want(k) = Row(x)
    <3> DEFINE m == Max(written[k])
    <3>1. k \in Holders /\ written[k] # {} OBVIOUS
    <3>2. m \in written[k] BY <2>s, <3>1, HighestOf
    <3>3. Key(k, m) \in Scan(Stored) BY <3>1, <3>2, ScanIs
    <3>4. Want(k) = Row(Key(k, m)) BY <2>1, <3>1, <3>2 DEF Newest
    <3> HIDE DEF Row, Want, Having, m
    <3> QED BY <3>3, <3>4
  <2>4. Compared = {Row(x) : x \in Scan(Stored)} BY DEF Compared
  <2>5. ScanFindsNewest <=> Compared = {Want(k) : k \in Having} BY DEF ScanFindsNewest
  <2> HIDE DEF Row, Want, Having
  <2> QED BY <2>2, <2>3, <2>4, <2>5
<1> QED BY <1>1, KeysTyped, PTL
=============================================================================
