------------------------------ MODULE Folding ------------------------------
(***************************************************************************)
(* Induction over data.  The fold of a step over a sequence, which is how  *)
(* the loops of the code are written, has a trace: what the loop holds     *)
(* before its first turn and after each.  A loop invariant is then shown   *)
(* of the trace, turn by turn, with Induction.                             *)
(*                                                                         *)
(* The library states induction for every predicate; the provers take only *)
(* facts about sets.  Here it is derived in that form from the natural     *)
(* numbers being well-founded.  Step is a parameter of the module, so that *)
(* a loop is treated by an INSTANCE with its own; env stands for what the  *)
(* step reads beside the value at hand and the element.                    *)
(***************************************************************************)
EXTENDS Integers, Sequences, WellFoundedInduction, TLAPS

CONSTANTS
  Step(_, _, _),    \* (env, value, element)
  Top(_)            \* Max of FiniteSetsExt, by which FoldLeft takes the indices

----------------------------------------------------------------------------
(* Induction.                                                              *)

\* A nonempty set of natural numbers has a least element.
LEMMA LeastOf ==
  ASSUME NEW T \in SUBSET Nat, T # {}
  PROVE  \E x \in T : \A y \in T : x <= y
<1> DEFINE R == {ss \in Nat \X Nat : ss[1] < ss[2]}
<1>1. IsWellFoundedOn(R, Nat) BY NatLessThanWellFounded DEF OpToRel
<1>2. \E x \in T : \A y \in T : ~(<<y, x>> \in R)
  <2> HIDE DEF R
  <2> QED BY <1>1, WFMin
<1>3. PICK x \in T : \A y \in T : ~(<<y, x>> \in R) BY <1>2
<1>4. \A y \in T : ~(y < x) BY <1>3
<1> QED BY <1>4

\* What holds of zero, and of the successor of each number it holds of, holds
\* of all numbers up to n.
THEOREM Induction ==
  ASSUME NEW n \in Nat, NEW S, 0 \in S,
         \A k \in 0..(n - 1) : k \in S => k + 1 \in S
  PROVE  0..n \subseteq S
<1> DEFINE T == {k \in 0..n : k \notin S}
<1> SUFFICES ASSUME T # {} PROVE FALSE OBVIOUS
<1>1. PICK x \in T : \A y \in T : x <= y
  <2>1. T \in SUBSET Nat OBVIOUS
  <2> HIDE DEF T
  <2> QED BY <2>1, LeastOf
<1>2. x # 0 /\ x \in 0..n /\ x \notin S OBVIOUS
<1>3. x - 1 \in 0..(n - 1) /\ x - 1 \in 0..n /\ ~(x <= x - 1) /\ (x - 1) + 1 = x BY <1>2
<1>4. x - 1 \in S BY <1>1, <1>3
<1> QED BY <1>2, <1>3, <1>4

----------------------------------------------------------------------------
(* Folds.                                                                  *)

\* The function by which FoldLeft is defined, over the sets of indices.
Iterates(g, env, base, seq) ==
  g = [s \in SUBSET DOMAIN seq |->
         IF s = {} THEN base ELSE Step(env, g[s \ {Top(s)}], seq[Top(s)])]

\* What a loop holds before its first turn and after each.
Trace(f, env, base, seq) ==
  /\ f[0] = base
  /\ \A k \in 1..Len(seq) : f[k] = Step(env, f[k - 1], seq[k])

\* An element no other exceeds is the maximum.
TopIsMax ==
  \A S \in SUBSET Int : \A n \in S : (\A m \in S : m <= n) => Top(S) = n

\* The recursion that defines a fold has a solution.
THEOREM IteratesExist ==
  ASSUME NEW env, NEW base, NEW seq, NEW n \in Nat, DOMAIN seq = 1..n, TopIsMax
  PROVE  \E g : Iterates(g, env, base, seq)
<1> DEFINE Upto(g, m) ==
      g = [s \in SUBSET (1..m) |->
             IF s = {} THEN base ELSE Step(env, g[s \ {Top(s)}], seq[Top(s)])]
    S == {m \in Nat : \E g : Upto(g, m)}
<1>1. 0 \in S
  <2> DEFINE g == [s \in SUBSET (1..0) |-> base]
  <2>1. \A s \in SUBSET (1..0) : s = {} OBVIOUS
  <2>2. Upto(g, 0) BY <2>1
  <2> QED BY <2>2
<1>2. ASSUME NEW m \in 0..(n - 1), m \in S PROVE m + 1 \in S
  <2>1. PICK g : Upto(g, m) BY <1>2
  <2> DEFINE h == [s \in SUBSET (1..(m + 1)) |->
               IF m + 1 \in s THEN Step(env, g[s \ {m + 1}], seq[m + 1]) ELSE g[s]]
  <2>2. ASSUME NEW s \in SUBSET (1..(m + 1)), s # {}
        PROVE  h[s] = Step(env, h[s \ {Top(s)}], seq[Top(s)])
    <3>1. CASE m + 1 \in s
      <4>1. Top(s) = m + 1
        <5>1. s \in SUBSET Int /\ \A k \in s : k <= m + 1 OBVIOUS
        <5> QED BY <3>1, <5>1 DEF TopIsMax
      <4>2. h[s \ {m + 1}] = g[s \ {m + 1}] OBVIOUS
      <4> QED BY <4>1, <4>2, <3>1
    <3>2. CASE m + 1 \notin s
      <4>1. s \in SUBSET (1..m) BY <3>2
      <4>2. h[s] = g[s] BY <3>2
      <4>3. h[s \ {Top(s)}] = g[s \ {Top(s)}] BY <3>2
      <4>4. g[s] = Step(env, g[s \ {Top(s)}], seq[Top(s)]) BY <2>1, <2>2, <4>1
      <4> QED BY <4>2, <4>3, <4>4
    <3> QED BY <3>1, <3>2
  <2>3. h[{}] = base BY <2>1
  <2>4. Upto(h, m + 1)
    <3>1. h = [s \in SUBSET (1..(m + 1)) |-> h[s]] OBVIOUS
    <3> HIDE DEF h
    <3> QED BY <2>2, <2>3, <3>1
  <2>5. \E x : Upto(x, m + 1)
    <3> HIDE DEF Upto, h
    <3> QED BY <2>4
  <2>6. m + 1 \in Nat OBVIOUS
  <2> HIDE DEF Upto
  <2> QED BY <2>5, <2>6
<1>3. n \in S
  <2> HIDE DEF S
  <2>1. 0..n \subseteq S BY <1>1, <1>2, Induction
  <2> QED BY <2>1
<1> QED BY <1>3 DEF Iterates

\* It is the last value of a trace of the loop.
THEOREM IteratesTrace ==
  ASSUME NEW env, NEW base, NEW seq, NEW n \in Nat, DOMAIN seq = 1..n, Len(seq) = n,
         NEW g, Iterates(g, env, base, seq), TopIsMax
  PROVE  \E f : Trace(f, env, base, seq) /\ f[n] = g[DOMAIN seq]
<1> DEFINE f == [k \in 0..n |-> g[1..k]]
<1>1. f[0] = base
  <2>1. 1..0 = {} /\ 1..0 \in SUBSET (1..n) OBVIOUS
  <2> QED BY <2>1 DEF Iterates
<1>2. ASSUME NEW k \in 1..n PROVE f[k] = Step(env, f[k - 1], seq[k])
  <2>1. k \in Int /\ 1 <= k /\ k <= n OBVIOUS
  <2>2. Top(1..k) = k
    <3>1. 1..k \in SUBSET Int /\ k \in 1..k /\ \A m \in 1..k : m <= k BY <2>1
    <3> QED BY <3>1 DEF TopIsMax
  <2>3. (1..k) \ {k} = 1..(k - 1) BY <2>1
  <2>4. k \in 1..k /\ 1..k \in SUBSET (1..n) /\ k - 1 \in 0..n /\ k \in 0..n
    <3> HIDE DEF f
    <3> QED BY <2>1
  <2>5. g[1..k] = Step(env, g[(1..k) \ {k}], seq[k]) BY <2>2, <2>4 DEF Iterates
  <2> QED BY <2>3, <2>4, <2>5
<1>3. f[n] = g[DOMAIN seq] OBVIOUS
<1> HIDE DEF f
<1> QED BY <1>1, <1>2, <1>3 DEF Trace
=============================================================================
