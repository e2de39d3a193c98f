--------------------------- MODULE TransferProofs ---------------------------
(***************************************************************************)
(* The loops of Transfers, for every block, whatever tokens are tracked:   *)
(* what an event adds to the diffs, that the diffs of a block are what the *)
(* transfers stored for it move, and that the operations answered for a    *)
(* transaction move the same.                                              *)
(*                                                                         *)
(* Each loop is a fold, and an INSTANCE of Folding says that it has a      *)
(* trace; what holds of the trace is shown turn by turn.                   *)
(***************************************************************************)
EXTENDS Transfers, FiniteSetTheorems, SequenceTheorems, TLAPS

\* The turns of the loops: a sum, the events of a transaction, the transactions
\* of a block, the transfers of an answer.
SumStep(env, n, m) == n + m
EventTurn(env, st, e) == IndexEvent(st, e, env[1], env[2])
TxnTurn(env, acc, txn) ==
  LET st == IndexTxn(acc.diffs, txn, env) IN
  [diffs |-> st.diffs, txns |-> Append(acc.txns, st.transfers)]
OpsTurn(env, ops, xfer) == AppendOperations(ops, xfer)

Sums == INSTANCE Folding WITH Step <- SumStep, Top <- Max
Turns == INSTANCE Folding WITH Step <- EventTurn, Top <- Max
Blocks == INSTANCE Folding WITH Step <- TxnTurn, Top <- Max
Answers == INSTANCE Folding WITH Step <- OpsTurn, Top <- Max

\* Max picks the greatest element.
LEMMA MaxIs ==
  \A S \in SUBSET Int : \A n \in S : (\A m \in S : m <= n) => Max(S) = n
<1> SUFFICES ASSUME NEW S \in SUBSET Int, NEW n \in S, \A m \in S : m <= n
             PROVE  Max(S) = n
  OBVIOUS
<1>1. \A y \in S : n >= y OBVIOUS
<1>2. ASSUME NEW x \in S, \A y \in S : x >= y PROVE x = n BY <1>2
<1> QED BY <1>1, <1>2 DEF Max

\* The trace of a sum: the partial sums.
LEMMA SumTrace ==
  ASSUME NEW v, NEW n \in Nat, DOMAIN v = 1..n, Len(v) = n
  PROVE  \E f : /\ f[0] = 0 /\ (\A k \in 1..n : f[k] = f[k - 1] + v[k])
                /\ SumOf(v) = f[n]
<1> DEFINE g == CHOOSE g : g = [s \in SUBSET DOMAIN v |->
                  IF s = {} THEN 0 ELSE g[s \ {Max(s)}] + v[Max(s)]]
<1>1. SumOf(v) = g[DOMAIN v] BY DEF SumOf, FoldLeft, MapThenFoldSet
<1>2. Sums!Iterates(g, {}, 0, v)
  <2>1. \E x : Sums!Iterates(x, {}, 0, v)
    BY Sums!IteratesExist, MaxIs DEF Sums!TopIsMax
  <2> QED BY <2>1 DEF Sums!Iterates, SumStep
<1> HIDE DEF g
<1>3. PICK f : Sums!Trace(f, {}, 0, v) /\ f[n] = g[DOMAIN v]
  BY <1>2, Sums!IteratesTrace, MaxIs DEF Sums!TopIsMax
<1> QED BY <1>1, <1>3 DEF Sums!Trace, SumStep

\* The trace of the loop over the events of a transaction.
LEMMA TxnTrace ==
  ASSUME NEW diffs, NEW txn, NEW T, NEW n \in Nat, DOMAIN txn.notify = 1..n, Len(txn.notify) = n
  PROVE  \E f : /\ f[0] = [diffs |-> diffs, transfers |-> <<>>, gasVerified |-> FALSE]
                /\ \A k \in 1..n : f[k] = IndexEvent(f[k - 1], txn.notify[k], txn, T)
                /\ IndexTxn(diffs, txn, T) = f[n]
<1> DEFINE v == txn.notify
           base == [diffs |-> diffs, transfers |-> <<>>, gasVerified |-> FALSE]
           Folds(h) == h = [s \in SUBSET DOMAIN v |->
                  IF s = {} THEN base ELSE IndexEvent(h[s \ {Max(s)}], v[Max(s)], txn, T)]
           g == CHOOSE h : Folds(h)
<1>1. IndexTxn(diffs, txn, T) = g[DOMAIN v] BY DEF IndexTxn, FoldLeft, MapThenFoldSet
<1>2. Turns!Iterates(g, <<txn, T>>, base, v)
  <2>1. \E x : Turns!Iterates(x, <<txn, T>>, base, v)
    <3>1. DOMAIN v = 1..n OBVIOUS
    <3>2. Turns!TopIsMax BY MaxIs DEF Turns!TopIsMax
    <3> HIDE DEF v, base
    <3>3. \A env : \E x : Turns!Iterates(x, env, base, v)
      <4> TAKE env
      <4> QED BY ONLY <3>1, <3>2, n \in Nat, Turns!IteratesExist
    <3> QED BY <3>3
  <2>2. ASSUME NEW x PROVE Turns!Iterates(x, <<txn, T>>, base, v) <=> Folds(x)
    BY DEF Turns!Iterates, EventTurn
  <2> HIDE DEF Folds
  <2>3. Folds(g) BY <2>1, <2>2
  <2> QED BY <2>2, <2>3
<1> HIDE DEF g, Folds
<1>3. PICK f : Turns!Trace(f, <<txn, T>>, base, v) /\ f[n] = g[DOMAIN v]
  BY <1>2, Turns!IteratesTrace, MaxIs DEF Turns!TopIsMax
<1> QED BY <1>1, <1>3 DEF Turns!Trace, EventTurn

\* The trace of the loop over the transactions of a block.
LEMMA BlockTrace ==
  ASSUME NEW b, NEW T, NEW n \in Nat, DOMAIN b = 1..n, Len(b) = n
  PROVE  \E f : /\ f[0] = [diffs |-> <<>>, txns |-> <<>>]
                /\ \A k \in 1..n : f[k] = TxnTurn(T, f[k - 1], b[k])
                /\ IndexBlock(b, T) = f[n]
<1> DEFINE base == [diffs |-> <<>>, txns |-> <<>>]
           g == CHOOSE g : g = [s \in SUBSET DOMAIN b |->
                  IF s = {} THEN base ELSE TxnTurn(T, g[s \ {Max(s)}], b[Max(s)])]
<1>1. IndexBlock(b, T) = g[DOMAIN b] BY DEF IndexBlock, FoldLeft, MapThenFoldSet, TxnTurn
<1>2. Blocks!Iterates(g, T, base, b)
  <2>1. \E x : Blocks!Iterates(x, T, base, b) BY Blocks!IteratesExist, MaxIs DEF Blocks!TopIsMax
  <2> QED BY <2>1 DEF Blocks!Iterates
<1> HIDE DEF g
<1>3. PICK f : Blocks!Trace(f, T, base, b) /\ f[n] = g[DOMAIN b]
  BY <1>2, Blocks!IteratesTrace, MaxIs DEF Blocks!TopIsMax
<1> QED BY <1>1, <1>3 DEF Blocks!Trace

\* The trace of the loop that answers a transaction.
LEMMA OperationsTrace ==
  ASSUME NEW xs, NEW n \in Nat, DOMAIN xs = 1..n, Len(xs) = n
  PROVE  \E f : /\ f[0] = <<>> /\ (\A k \in 1..n : f[k] = AppendOperations(f[k - 1], xs[k]))
                /\ Operations(xs) = f[n]
<1> DEFINE g == CHOOSE g : g = [s \in SUBSET DOMAIN xs |->
                  IF s = {} THEN <<>> ELSE AppendOperations(g[s \ {Max(s)}], xs[Max(s)])]
<1>1. Operations(xs) = g[DOMAIN xs] BY DEF Operations, FoldLeft, MapThenFoldSet
<1>2. Answers!Iterates(g, {}, <<>>, xs)
  <2>1. \E x : Answers!Iterates(x, {}, <<>>, xs)
    BY Answers!IteratesExist, MaxIs DEF Answers!TopIsMax
  <2> QED BY <2>1 DEF Answers!Iterates, OpsTurn
<1> HIDE DEF g
<1>3. PICK f : Answers!Trace(f, {}, <<>>, xs) /\ f[n] = g[DOMAIN xs]
  BY <1>2, Answers!IteratesTrace, MaxIs DEF Answers!TopIsMax
<1> QED BY <1>1, <1>3 DEF Answers!Trace, OpsTurn

----------------------------------------------------------------------------
(* Sums.                                                                   *)

\* A number that changes by v[k] at turn k has changed by the sum of v.
LEMMA SumFollows ==
  ASSUME NEW v, NEW n \in Nat, DOMAIN v = 1..n, Len(v) = n,
         NEW h, \A k \in 0..n : h[k] \in Int,
         \A k \in 1..n : v[k] \in Int /\ h[k] = h[k - 1] + v[k]
  PROVE  SumOf(v) \in Int /\ h[n] = h[0] + SumOf(v)
<1>1. PICK f : /\ f[0] = 0 /\ \A k \in 1..n : f[k] = f[k - 1] + v[k]
               /\ SumOf(v) = f[n]
  BY SumTrace
<1> DEFINE S == {k \in 0..n : f[k] \in Int /\ h[k] = h[0] + f[k]}
<1>2. 0 \in S BY <1>1
<1>3. ASSUME NEW k \in 0..(n - 1), k \in S PROVE k + 1 \in S
  <2>1. k + 1 \in 1..n /\ k + 1 \in 0..n /\ k \in 0..n /\ (k + 1) - 1 = k OBVIOUS
  <2>2. f[k + 1] = f[k] + v[k + 1] /\ h[k + 1] = h[k] + v[k + 1] /\ v[k + 1] \in Int
    BY <1>1, <2>1
  <2>3. f[k] \in Int /\ h[k] = h[0] + f[k] /\ h[0] \in Int BY <1>3, <2>1
  <2> QED BY <2>1, <2>2, <2>3
<1> HIDE DEF S
<1>4. 0..n \subseteq S BY <1>2, <1>3, Sums!Induction
<1> QED BY <1>1, <1>4 DEF S

\* The sum of integers is one.
LEMMA SumIsInt ==
  ASSUME NEW v, NEW n \in Nat, DOMAIN v = 1..n, Len(v) = n,
         \A k \in 1..n : v[k] \in Int
  PROVE  SumOf(v) \in Int
<1>1. PICK f : /\ f[0] = 0 /\ \A k \in 1..n : f[k] = f[k - 1] + v[k]
               /\ SumOf(v) = f[n]
  BY SumTrace
<1> DEFINE S == {k \in 0..n : f[k] \in Int}
<1>2. 0 \in S BY <1>1
<1>3. ASSUME NEW k \in 0..(n - 1), k \in S PROVE k + 1 \in S
  <2>1. k + 1 \in 1..n /\ k + 1 \in 0..n /\ (k + 1) - 1 = k OBVIOUS
  <2> QED BY <1>1, <1>3, <2>1
<1> HIDE DEF S
<1>4. 0..n \subseteq S BY <1>2, <1>3, Sums!Induction
<1> QED BY <1>1, <1>4 DEF S

\* One more number is added to the sum.
LEMMA SumGrows ==
  ASSUME NEW v, NEW n \in Nat, DOMAIN v = 1..n, Len(v) = n, 
         NEW w, DOMAIN w = 1..(n + 1), Len(w) = n + 1,
         \A k \in 1..n : v[k] = w[k] /\ v[k] \in Int, w[n + 1] \in Int
  PROVE  SumOf(w) = SumOf(v) + w[n + 1]
<1>1. PICK f : /\ f[0] = 0 /\ \A k \in 1..(n + 1) : f[k] = f[k - 1] + w[k]
               /\ SumOf(w) = f[n + 1]
  BY SumTrace
<1>2. \A k \in 1..n : f[k] = f[k - 1] + v[k] BY <1>1
<1>3. \A k \in 0..n : f[k] \in Int
  <2> DEFINE S == {k \in 0..n : f[k] \in Int}
  <2>1. 0 \in S BY <1>1
  <2>2. ASSUME NEW k \in 0..(n - 1), k \in S PROVE k + 1 \in S
    <3>1. k + 1 \in 1..n /\ k + 1 \in 0..n /\ (k + 1) - 1 = k OBVIOUS
    <3> QED BY <1>2, <2>2, <3>1
  <2> HIDE DEF S
  <2>3. 0..n \subseteq S BY <2>1, <2>2, Sums!Induction
  <2> QED BY <2>3 DEF S
<1>4. f[n] = f[0] + SumOf(v) /\ SumOf(v) \in Int BY <1>2, <1>3, SumFollows
<1>5. f[n + 1] = f[n] + w[n + 1]
  <2>1. n + 1 \in 1..(n + 1) /\ (n + 1) - 1 = n OBVIOUS
  <2> QED BY <1>1, <2>1
<1> QED BY <1>1, <1>4, <1>5

\* w is the n numbers of v, then the m of u.
Joined(w, v, n, u, m) ==
  /\ DOMAIN v = 1..n /\ Len(v) = n
  /\ DOMAIN u = 1..m /\ Len(u) = m
  /\ DOMAIN w = 1..(n + m) /\ Len(w) = n + m
  /\ \A k \in 1..n : v[k] \in Int /\ w[k] = v[k]
  /\ \A k \in 1..m : u[k] \in Int /\ w[n + k] = u[k]

\* The sum of what two lists hold is that of both.
LEMMA SumJoins ==
  ASSUME NEW w, NEW v, NEW n \in Nat, NEW u, NEW m \in Nat, Joined(w, v, n, u, m)
  PROVE  /\ SumOf(v) \in Int /\ SumOf(u) \in Int
         /\ SumOf(w) = SumOf(v) + SumOf(u)
<1>0. /\ DOMAIN v = 1..n /\ Len(v) = n /\ DOMAIN u = 1..m /\ Len(u) = m
      /\ DOMAIN w = 1..(n + m) /\ Len(w) = n + m
      /\ \A k \in 1..n : v[k] \in Int /\ w[k] = v[k]
      /\ \A k \in 1..m : u[k] \in Int /\ w[n + k] = u[k]
  BY DEF Joined
<1>1. PICK f : /\ f[0] = 0 /\ \A k \in 1..(n + m) : f[k] = f[k - 1] + w[k]
               /\ SumOf(w) = f[n + m]
  <2>1. n + m \in Nat OBVIOUS
  <2> QED BY <1>0, <2>1, SumTrace
<1>2. ASSUME NEW k \in 1..(n + m) PROVE w[k] \in Int
  <2>1. CASE k \in 1..n BY <1>0, <2>1
  <2>2. CASE k \notin 1..n
    <3>1. k - n \in 1..m /\ n + (k - n) = k BY <2>2
    <3>2. PICK j \in 1..m : n + j = k BY <3>1
    <3>3. u[j] \in Int /\ w[n + j] = u[j] BY <1>0
    <3> QED BY <3>2, <3>3
  <2> QED BY <2>1, <2>2
<1>3. \A k \in 0..(n + m) : f[k] \in Int
  <2> DEFINE S == {k \in 0..(n + m) : f[k] \in Int}
  <2>1. PICK q \in Nat : q = n + m OBVIOUS
  <2>2. 0 \in S BY <1>1
  <2>3. ASSUME NEW k \in 0..(q - 1), k \in S PROVE k + 1 \in S
    <3>1. k + 1 \in 1..(n + m) /\ k + 1 \in 0..(n + m) /\ (k + 1) - 1 = k BY <2>1
    <3> QED BY <1>1, <1>2, <2>3, <3>1
  <2> HIDE DEF S
  <2>4. 0..q \subseteq S BY <2>2, <2>3, Sums!Induction
  <2> QED BY <2>1, <2>4 DEF S
<1>4. SumOf(v) \in Int /\ f[n] = f[0] + SumOf(v)
  <2>1. \A k \in 0..n : f[k] \in Int BY <1>3
  <2>2. \A k \in 1..n : v[k] \in Int /\ f[k] = f[k - 1] + v[k] BY <1>0, <1>1
  <2> QED BY <1>0, <2>1, <2>2, SumFollows
<1> DEFINE g == [k \in 0..m |-> f[n + k]]
<1>5. \A k \in 0..m : g[k] \in Int BY <1>3
<1>6. ASSUME NEW k \in 1..m PROVE u[k] \in Int /\ g[k] = g[k - 1] + u[k]
  <2>1. n + k \in 1..(n + m) /\ (n + k) - 1 = n + (k - 1) /\ k \in 0..m /\ k - 1 \in 0..m
    OBVIOUS
  <2>2. f[n + k] = f[n + (k - 1)] + u[k] BY <1>0, <1>1, <2>1
  <2> QED BY <1>0, <2>1, <2>2
<1>7. g[0] = f[n] /\ g[m] = f[n + m] OBVIOUS
<1> HIDE DEF g
<1>8. SumOf(u) \in Int /\ g[m] = g[0] + SumOf(u) BY <1>0, <1>5, <1>6, SumFollows
<1> QED BY <1>1, <1>4, <1>7, <1>8

----------------------------------------------------------------------------
(* The diffs of one transfer.                                              *)

\* Diffs: integers by account and contract.
IsDiffs(d) == d = [x \in DOMAIN d |-> d[x]] /\ \A x \in DOMAIN d : d[x] \in Int

\* What one side of a transfer adds.
Side(k, acct, contract, n) ==
  IF acct # nullAddr /\ k = <<acct, contract>> THEN n ELSE 0

\* What a transfer moves.
MovedBy(k, contract, xfer) ==
  (IF xfer.to # nullAddr /\ k = <<xfer.to, contract>> THEN xfer.amount ELSE 0)
  - (IF xfer.from # nullAddr /\ k = <<xfer.from, contract>> THEN xfer.amount ELSE 0)

\* A diff is an integer, zero for a key that has none.
LEMMA DiffIsInt ==
  ASSUME NEW d, IsDiffs(d), NEW k
  PROVE  DiffOf(d, k) \in Int
BY DEF IsDiffs, DiffOf

\* One side of a transfer changes the diff of its key and no other.
LEMMA AddDiffAdds ==
  ASSUME NEW d, IsDiffs(d), NEW acct, NEW contract, NEW n \in Int
  PROVE  /\ IsDiffs(AddDiff(d, acct, contract, n))
         /\ \A k : DiffOf(AddDiff(d, acct, contract, n), k) = DiffOf(d, k)
              + Side(k, acct, contract, n)
<1> DEFINE e == AddDiff(d, acct, contract, n)
           j == <<acct, contract>>
<1>0. \A k : DiffOf(d, k) \in Int BY DiffIsInt
<1>1. CASE acct = nullAddr
  BY <1>0, <1>1 DEF AddDiff, Side
<1>2. CASE acct # nullAddr
  <2>1. e = [x \in DOMAIN d \union {j} |->
               (IF x \in DOMAIN d THEN d[x] ELSE 0) + (IF x = j THEN n ELSE 0)]
    BY <1>2 DEF AddDiff
  <2> HIDE DEF e, j
  <2>2. IsDiffs(e) BY <2>1 DEF IsDiffs
  <2>3. \A k : DiffOf(e, k) = DiffOf(d, k) + (IF k = j THEN n ELSE 0)
    BY <2>1, <1>0 DEF DiffOf, IsDiffs
  <2>4. DOMAIN e = DOMAIN d \union {j} BY <2>1
  <2> QED BY <1>2, <2>2, <2>3, <2>4 DEF e, j, Side
<1> QED BY <1>1, <1>2

\* balanceCal changes every diff by what the transfer moves.
LEMMA CalMoves ==
  ASSUME NEW d, IsDiffs(d), NEW contract, NEW xfer, xfer.amount \in Int
  PROVE  /\ IsDiffs(BalanceCal(d, contract, xfer))
         /\ \A k : DiffOf(BalanceCal(d, contract, xfer), k)
                     = DiffOf(d, k) + MovedBy(k, contract, xfer)
<1>1. PICK a \in Int : a = xfer.amount OBVIOUS
<1>2. PICK n \in Int : n = -a OBVIOUS
<1> DEFINE m == AddDiff(d, xfer.from, contract, n)
           e == AddDiff(m, xfer.to, contract, a)
<1>3. /\ IsDiffs(m)
      /\ \A k : DiffOf(m, k) = DiffOf(d, k) + Side(k, xfer.from, contract, n)
  BY AddDiffAdds
<1> HIDE DEF m
<1>4. /\ IsDiffs(e)
      /\ \A k : DiffOf(e, k) = DiffOf(m, k) + Side(k, xfer.to, contract, a)
  BY <1>3, AddDiffAdds
<1>5. BalanceCal(d, contract, xfer) = e BY <1>1, <1>2 DEF BalanceCal, m
<1>6. \A k : DiffOf(m, k) \in Int /\ DiffOf(d, k) \in Int BY <1>3, DiffIsInt
<1> HIDE DEF e
<1> QED BY <1>1, <1>2, <1>3, <1>4, <1>5, <1>6 DEF MovedBy, Side
----------------------------------------------------------------------------
(* One event.                                                              *)

\* A transfer as it is stored for a transaction.
Recorded(x) ==
  x = [amount |-> x.amount, contract |-> x.contract, from |-> x.from, to |-> x.to,
       isGas |-> x.isGas] /\ x.amount \in Int /\ x.isGas \in BOOLEAN

\* The amount an event reports, in the smallest unit.
Amount(e) ==
  IF e.form \in {"native4", "native5"} THEN e.amount * GWei + e.value ELSE e.amount

\* Whether a transfer looks like a fee is a truth value.
LEMMA FeeIsBoolean ==
  ASSUME NEW from, NEW to, NEW amount, NEW p \in BOOLEAN
  PROVE  Transfer(from, to, amount, p).isGas \in BOOLEAN
BY DEF Transfer

\* What is read of an event, and what the event reports, are the same.
LEMMA DecodeReads ==
  ASSUME NEW e, Readable(e), NEW gas, Decode(e, gas).ok
  PROVE  /\ Decode(e, gas).from = e.from /\ Decode(e, gas).to = e.to
         /\ Decode(e, gas).amount \in Int
         /\ Decode(e, gas).amount = Amount(e)
         /\ Decode(e, gas).isGas \in BOOLEAN
<1>0. GWei \in Nat \ {0} BY TransfersAssumption
<1>1. CASE e.form = "evm"
  <2>1. Decode(e, gas) = DecodeEvm(e, gas) BY <1>1 DEF Decode
  <2>2. Amount(e) = e.amount BY <1>1 DEF Amount
  <2>3. e.contract = ONG /\ e.name = "Transfer" BY <2>1 DEF DecodeEvm, NoTransfer
  <2>4. Decode(e, gas) = Transfer(e.from, e.to, e.amount,
          e.to = govAddr /\ (e.amount % Word) \div GWei = gas)
    BY <2>1, <2>3 DEF DecodeEvm
  <2>5. Decode(e, gas).isGas \in BOOLEAN
    BY <2>4, FeeIsBoolean
  <2> QED BY <2>2, <2>4, <2>5 DEF Transfer, Readable
<1>2. CASE e.form # "evm" /\ e.contract \in {ONT, ONG}
  <2>1. Decode(e, gas) = DecodeNative(e, gas) BY <1>2 DEF Decode
  <2>2. e.form \in {"native4", "native5"} /\ e.name = "transfer"
    BY <2>1 DEF DecodeNative, NoTransfer
  <2>3. Amount(e) = e.amount * GWei + e.value BY <2>2 DEF Amount
  <2>4. e.amount * GWei \in Int /\ e.value \in Int
    <3>1. PICK a \in Int, g \in Int : a = e.amount /\ g = GWei BY <1>0 DEF Readable
    <3>2. a * g \in Int OBVIOUS
    <3>3. e.value \in Int BY <1>0 DEF Readable
    <3> QED BY <3>1, <3>2, <3>3
  <2>5. Decode(e, gas) = Transfer(e.from, e.to,
          e.amount * GWei + (IF e.form = "native5" THEN e.value ELSE 0),
          e.contract = ONG /\ e.to = govAddr /\ e.amount = gas)
    BY <2>1, <2>2 DEF DecodeNative
  <2>6. Decode(e, gas).isGas \in BOOLEAN
    BY <2>5, FeeIsBoolean
  <2>7. (IF e.form = "native5" THEN e.value ELSE 0) = e.value BY <2>2 DEF Readable
  <2> QED BY <2>3, <2>4, <2>5, <2>6, <2>7 DEF Transfer
<1>3. CASE e.form # "evm" /\ e.contract \notin {ONT, ONG}
  <2>1. Decode(e, gas) = DecodeOEP4(e) BY <1>3 DEF Decode
  <2>2. e.form = "oep4" BY <2>1 DEF DecodeOEP4, NoTransfer, Transfer
  <2>3. Amount(e) = e.amount BY <2>2 DEF Amount
  <2>4. Decode(e, gas) = Transfer(e.from, e.to, e.amount, FALSE)
    BY <2>1 DEF DecodeOEP4, NoTransfer, Transfer
  <2> QED BY <2>3, <2>4 DEF Transfer, Readable
<1> QED BY <1>1, <1>2, <1>3

\* Lists, of whatever.
IsList(xs) == \E S : xs \in Seq(S)

\* The indices of a list.
LEMMA ListDomain ==
  ASSUME NEW xs, IsList(xs)
  PROVE  Len(xs) \in Nat /\ DOMAIN xs = 1..Len(xs)
BY DEF IsList

\* One element more.
LEMMA ListAppend ==
  ASSUME NEW xs, IsList(xs), NEW x
  PROVE  /\ IsList(Append(xs, x)) /\ Len(Append(xs, x)) = Len(xs) + 1
         /\ Append(xs, x)[Len(xs) + 1] = x
         /\ \A i \in 1..Len(xs) : Append(xs, x)[i] = xs[i]
<1>1. PICK S : xs \in Seq(S) BY DEF IsList
<1> DEFINE T == S \union {x}
<1>2. xs \in Seq(T) /\ x \in T BY <1>1, SeqMonotonic
<1> QED BY <1>2, AppendProperties DEF IsList

\* Two lists.
LEMMA ListConcat ==
  ASSUME NEW xs, IsList(xs), NEW ys, IsList(ys)
  PROVE  /\ IsList(xs \o ys) /\ Len(xs \o ys) = Len(xs) + Len(ys)
         /\ \A i \in 1..Len(xs) : (xs \o ys)[i] = xs[i]
         /\ \A i \in 1..Len(ys) : (xs \o ys)[Len(xs) + i] = ys[i]
<1>1. PICK S : xs \in Seq(S) BY DEF IsList
<1>2. PICK T : ys \in Seq(T) BY DEF IsList
<1> DEFINE U == S \union T
<1>3. xs \in Seq(U) /\ ys \in Seq(U) BY <1>1, <1>2, SeqMonotonic
<1>4. /\ xs \o ys \in Seq(U) /\ Len(xs \o ys) = Len(xs) + Len(ys)
      /\ \A i \in 1..(Len(xs) + Len(ys)) :
           (xs \o ys)[i] = IF i <= Len(xs) THEN xs[i] ELSE ys[i - Len(xs)]
  <2> HIDE DEF U
  <2> QED BY <1>3, ConcatProperties
<1>5. Len(xs) \in Nat /\ Len(ys) \in Nat BY <1>1, <1>2
<1>6. \A i \in 1..Len(ys) : /\ Len(xs) + i \in 1..(Len(xs) + Len(ys))
                            /\ ~(Len(xs) + i <= Len(xs)) /\ (Len(xs) + i) - Len(xs) = i
  BY <1>5
<1> HIDE DEF U
<1> QED BY <1>4, <1>5, <1>6 DEF IsList

\* What is recorded of an event when the loop holds st.
XferOf(st, e, txn) ==
  LET xfer == Decode(e, txn.gas) IN
  [amount |-> xfer.amount, contract |-> e.contract, from |-> xfer.from,
   to |-> xfer.to, isGas |-> PaysGas(txn, xfer, st.gasVerified)]

Kept(st, e, txn, T) ==
  e.contract \in T /\ Decode(e, txn.gas).ok /\ ~Skipped(txn, e.contract, st.gasVerified)

\* What the loop holds.
IsState(st) ==
  /\ st = [diffs |-> st.diffs, transfers |-> st.transfers, gasVerified |-> st.gasVerified]
  /\ IsDiffs(st.diffs) /\ st.gasVerified \in BOOLEAN
  /\ IsList(st.transfers) /\ \A j \in 1..Len(st.transfers) : Recorded(st.transfers[j])

\* A turn of the loop.
LEMMA EventStep ==
  ASSUME NEW st, IsState(st), NEW e, Readable(e), NEW txn, NEW T
  PROVE  LET next == IndexEvent(st, e, txn, T)
             x == XferOf(st, e, txn)
         IN  /\ IsState(next)
             /\ ~Kept(st, e, txn, T) => next = st
             /\ Kept(st, e, txn, T) =>
                  /\ Recorded(x) /\ x.contract = e.contract
                  /\ x.from = e.from /\ x.to = e.to /\ x.amount = Amount(e)
                  /\ next.transfers = Append(st.transfers, x)
                  /\ next.gasVerified = (st.gasVerified \/ x.isGas)
                  /\ next.diffs = BalanceCal(st.diffs, e.contract, x)
                  /\ \A k : DiffOf(next.diffs, k)
                              = DiffOf(st.diffs, k) + MovedBy(k, e.contract, x)
<1> DEFINE next == IndexEvent(st, e, txn, T)
           x == XferOf(st, e, txn)
           xfer == Decode(e, txn.gas)
<1>1. CASE ~Kept(st, e, txn, T)
  <2>1. next = st BY <1>1 DEF Kept, IndexEvent
  <2> QED BY <1>1, <2>1
<1>2. CASE Kept(st, e, txn, T)
  <2>1. /\ next.diffs = BalanceCal(st.diffs, e.contract, xfer)
        /\ next.gasVerified = (st.gasVerified \/ x.isGas)
        /\ next.transfers = Append(st.transfers, x)
        /\ next = [diffs |-> next.diffs, transfers |-> next.transfers,
                   gasVerified |-> next.gasVerified]
    BY <1>2 DEF Kept, IndexEvent, XferOf
  <2>2. /\ xfer.from = e.from /\ xfer.to = e.to /\ xfer.isGas \in BOOLEAN
        /\ xfer.amount \in Int /\ xfer.amount = Amount(e)
    BY <1>2, DecodeReads DEF Kept
  <2>3. /\ x.from = e.from /\ x.to = e.to /\ x.amount = Amount(e)
        /\ x.contract = e.contract /\ x.amount \in Int
    BY <2>2 DEF XferOf
  <2>4. x.isGas \in BOOLEAN BY DEF XferOf, PaysGas
  <2>5. x = [amount |-> x.amount, contract |-> x.contract, from |-> x.from, to |-> x.to,
             isGas |-> x.isGas]
    BY DEF XferOf
  <2>6. Recorded(x) BY <2>3, <2>4, <2>5 DEF Recorded
  <2>7. BalanceCal(st.diffs, e.contract, xfer) = BalanceCal(st.diffs, e.contract, x)
    BY <2>2, <2>3 DEF BalanceCal
  <2> HIDE DEF x, xfer, next
  <2>8. IsDiffs(st.diffs) /\ st.gasVerified \in BOOLEAN BY DEF IsState
  <2>9. /\ IsDiffs(next.diffs)
        /\ \A k : DiffOf(next.diffs, k) = DiffOf(st.diffs, k) + MovedBy(k, e.contract, x)
    BY <2>1, <2>3, <2>7, <2>8, CalMoves
  <2>10. /\ IsList(next.transfers)
         /\ \A j \in 1..Len(next.transfers) : Recorded(next.transfers[j])
    <3>1. IsList(st.transfers) /\ \A j \in 1..Len(st.transfers) : Recorded(st.transfers[j])
      BY DEF IsState
    <3>2. Len(st.transfers) \in Nat BY <3>1, ListDomain
    <3> QED BY <2>1, <2>6, <3>1, <3>2, ListAppend
  <2>11. next.gasVerified \in BOOLEAN BY <2>1
  <2>12. IsState(next) BY <2>1, <2>9, <2>10, <2>11 DEF IsState
  <2>13. next.diffs = BalanceCal(st.diffs, e.contract, x) BY <2>1, <2>7
  <2> QED BY <1>2, <2>1, <2>3, <2>6, <2>9, <2>12, <2>13 DEF next, x
<1> QED BY <1>1, <1>2
----------------------------------------------------------------------------
(* The events of a transaction.                                            *)

IsTxn(txn) ==
  IsList(txn.notify) /\ \A j \in 1..Len(txn.notify) : Readable(txn.notify[j])

\* A run of the loop: f[k] is what it holds after k events.
IsRun(f, diffs, txn, T) ==
  /\ f[0] = [diffs |-> diffs, transfers |-> <<>>, gasVerified |-> FALSE]
  /\ \A k \in 0..Len(txn.notify) : IsState(f[k])
  /\ \A k \in 0..(Len(txn.notify) - 1) :
       f[k + 1] = IndexEvent(f[k], txn.notify[k + 1], txn, T)
  /\ IndexTxn(diffs, txn, T) = f[Len(txn.notify)]

\* The loop over the events of a transaction has a run.
LEMMA TxnRuns ==
  ASSUME NEW diffs, IsDiffs(diffs), NEW txn, IsTxn(txn), NEW T
  PROVE  \E f : IsRun(f, diffs, txn, T)
<1> DEFINE n == Len(txn.notify)
<1>1. n \in Nat /\ DOMAIN txn.notify = 1..n BY ListDomain DEF IsTxn
<1> HIDE DEF n
<1>2. n = Len(txn.notify) BY DEF n
<1>3. PICK f : /\ f[0] = [diffs |-> diffs, transfers |-> <<>>, gasVerified |-> FALSE]
               /\ \A k \in 1..n : f[k] = IndexEvent(f[k - 1], txn.notify[k], txn, T)
               /\ IndexTxn(diffs, txn, T) = f[n]
  BY <1>1, <1>2, TxnTrace
<1>4. ASSUME NEW k \in 0..(n - 1)
      PROVE  f[k + 1] = IndexEvent(f[k], txn.notify[k + 1], txn, T)
  <2>1. k + 1 \in 1..n /\ (k + 1) - 1 = k BY <1>1
  <2> QED BY <1>3, <2>1
<1> DEFINE S == {k \in 0..n : IsState(f[k])}
<1>5. 0 \in S
  <2>1. IsList(<<>>) /\ Len(<<>>) = 0
    <3>1. <<>> \in Seq({}) OBVIOUS
    <3> QED BY <3>1 DEF IsList
  <2>2. IsState(f[0]) BY <1>3, <2>1 DEF IsState
  <2> QED BY <1>1, <2>2
<1>6. ASSUME NEW k \in 0..(n - 1), k \in S PROVE k + 1 \in S
  <2>1. k + 1 \in 1..n /\ k + 1 \in 0..n BY <1>1
  <2>2. Readable(txn.notify[k + 1]) BY <1>2, <2>1 DEF IsTxn
  <2>3. IsState(f[k]) BY <1>6
  <2>4. IsState(f[k + 1]) BY <1>4, <2>2, <2>3, EventStep
  <2> QED BY <2>1, <2>4
<1> HIDE DEF S
<1>7. 0..n \subseteq S BY <1>1, <1>5, <1>6, Turns!Induction
<1>8. \A k \in 0..n : IsState(f[k]) BY <1>7 DEF S
<1> QED BY <1>2, <1>3, <1>4, <1>8 DEF IsRun

\* The transfer an event shows, and what of it is counted: nothing if no token
\* of T is concerned or the event cannot be read.
Shown(e) == [from |-> e.from, to |-> e.to, amount |-> Amount(e)]

EventMoves(k, e, gas, T) ==
  IF e.contract \in T /\ Decode(e, gas).ok THEN MovedBy(k, e.contract, Shown(e)) ELSE 0

EventsMove(k, txn, T) ==
  SumOf([j \in DOMAIN txn.notify |-> EventMoves(k, txn.notify[j], txn.gas, T)])

\* The amount an event shows is an integer.
LEMMA AmountIsInt ==
  ASSUME NEW e, Readable(e)
  PROVE  Amount(e) \in Int
<1>1. PICK a \in Int, g \in Int : a = e.amount /\ g = GWei
  BY TransfersAssumption DEF Readable
<1>2. a * g \in Int OBVIOUS
<1>3. e.value \in Int BY TransfersAssumption DEF Readable
<1> QED BY <1>1, <1>2, <1>3 DEF Amount

\* Of a transaction that failed the ledger keeps the charge for its gas: the
\* first event it emits, of ONG, which is matched as the fee if others follow.
ChargedFirst(txn) ==
  txn.failed /\ Len(txn.notify) > 0 =>
    /\ txn.notify[1].contract = ONG
    /\ \/ Len(txn.notify) = 1
       \/ /\ Decode(txn.notify[1], txn.gas).ok
          /\ Decode(txn.notify[1], txn.gas).isGas
          /\ txn.notify[1].from = txn.payer

\* The fee is matched by the first event, and never forgotten: every event
\* after it is skipped.
LEMMA FeeComesFirst ==
  ASSUME NEW diffs, NEW txn, IsTxn(txn), txn.failed, ChargedFirst(txn),
         NEW T, ONG \in T, NEW f, IsRun(f, diffs, txn, T),
         NEW i \in 1..(Len(txn.notify) - 1)
  PROVE  f[i].gasVerified
<1> DEFINE n == Len(txn.notify)
<1>1. n \in Nat /\ i \in 1..(n - 1)
  <2>1. n \in Nat BY ListDomain DEF IsTxn
  <2> QED BY <2>1
<1>2. n # 1 /\ n > 0 /\ 0 \in 0..(n - 1) /\ 1 \in 1..n /\ 0 \in 0..n
  <2> HIDE DEF n
  <2>1. PICK m \in Nat : m = n /\ i \in 1..(m - 1) BY <1>1
  <2> QED BY <2>1
<1> DEFINE S == {j \in 0..n : j # 0 => f[j].gasVerified}
<1>3. 0 \in S BY <1>2
<1>4. ASSUME NEW j \in 0..(n - 1), j \in S PROVE j + 1 \in S
  <2>1. j + 1 \in 1..n /\ j + 1 \in 0..n /\ j \in 0..n BY <1>1
  <2> DEFINE e == txn.notify[j + 1]
             x == XferOf(f[j], e, txn)
  <2>2. Readable(e) BY <2>1 DEF IsTxn
  <2>3. IsState(f[j]) /\ f[j + 1] = IndexEvent(f[j], e, txn, T)
    BY <1>2, <2>1 DEF IsRun
  <2>4. f[j].gasVerified \in BOOLEAN BY <2>3 DEF IsState
  <2> HIDE DEF e, x
  <2>5. /\ ~Kept(f[j], e, txn, T) => f[j + 1] = f[j]
        /\ Kept(f[j], e, txn, T) =>
             f[j + 1].gasVerified = (f[j].gasVerified \/ x.isGas)
    BY <2>2, <2>3, EventStep DEF x
  <2>6. CASE j = 0
    <3>1. e = txn.notify[1] BY <2>6 DEF e
    <3>2. e.contract = ONG /\ Decode(e, txn.gas).ok /\ Decode(e, txn.gas).isGas
          /\ e.from = txn.payer
      BY <1>2, <3>1 DEF ChargedFirst
    <3>3. Decode(e, txn.gas).from = e.from BY <2>2, <3>2, DecodeReads
    <3>4. f[j].gasVerified = FALSE BY <2>6 DEF IsRun
    <3>5. Kept(f[j], e, txn, T) BY <3>2, <3>4 DEF Kept, Skipped
    <3>6. x.isGas BY <3>2, <3>3, <3>4 DEF x, XferOf, PaysGas
    <3>7. f[j + 1].gasVerified BY <2>5, <3>5, <3>6
    <3> QED BY <2>1, <3>7
  <2>7. CASE j # 0
    <3>1. f[j].gasVerified BY <1>4, <2>7
    <3>2. f[j + 1].gasVerified BY <2>5, <3>1
    <3> QED BY <2>1, <3>2
  <2> QED BY <2>6, <2>7
<1> HIDE DEF S
<1>5. 0..n \subseteq S BY <1>1, <1>3, <1>4, Turns!Induction
<1>6. i \in 0..n /\ i # 0 BY <1>1
<1> QED BY <1>5, <1>6 DEF S

\* What the events of a transaction move: of one that failed, its first.
Effect(k, txn, T, j) ==
  IF txn.failed /\ j # 1 THEN 0 ELSE EventMoves(k, txn.notify[j], txn.gas, T)

Effects(k, txn, T) == SumOf([j \in DOMAIN txn.notify |-> Effect(k, txn, T, j)])

\* The diffs change by what the events of a transaction move.
LEMMA EffectsAddUp ==
  ASSUME NEW diffs, IsDiffs(diffs), NEW txn, IsTxn(txn), ChargedFirst(txn), NEW T, NEW k
  PROVE  /\ Effects(k, txn, T) \in Int
         /\ DiffOf(IndexTxn(diffs, txn, T).diffs, k)
              = DiffOf(diffs, k) + Effects(k, txn, T)
<1> DEFINE n == Len(txn.notify)
           v == [j \in DOMAIN txn.notify |-> Effect(k, txn, T, j)]
<1>0. SumOf(v) = Effects(k, txn, T) BY DEF Effects
<1>1. n \in Nat /\ DOMAIN txn.notify = 1..n BY ListDomain DEF IsTxn
<1>2. PICK f : IsRun(f, diffs, txn, T) BY TxnRuns
<1> DEFINE h == [j \in 0..n |-> DiffOf(f[j].diffs, k)]
<1>3. ASSUME NEW j \in 0..(n - 1)
      PROVE  /\ Effect(k, txn, T, j + 1) \in Int
             /\ DiffOf(f[j + 1].diffs, k) = DiffOf(f[j].diffs, k) + Effect(k, txn, T, j + 1)
  <2> DEFINE e == txn.notify[j + 1]
             x == XferOf(f[j], e, txn)
             s == Shown(e)
             dropped == txn.failed /\ j # 0
  <2>1. j + 1 \in 1..n /\ j \in 0..n /\ (j # 0 => j \in 1..(n - 1)) BY <1>1
  <2>2. Readable(e) BY <2>1 DEF IsTxn
  <2>3. IsState(f[j]) /\ f[j + 1] = IndexEvent(f[j], e, txn, T)
    BY <1>2, <2>1 DEF IsRun
  <2>4. Kept(f[j], e, txn, T) <=> ~dropped /\ e.contract \in T /\ Decode(e, txn.gas).ok
    <3>1. CASE ~txn.failed BY <3>1 DEF Kept, Skipped
    <3>2. CASE txn.failed /\ j = 0
      <4>1. e.contract = ONG
        <5>1. e = txn.notify[1] /\ n > 0 BY <1>1, <2>1, <3>2
        <5> QED BY <3>2, <5>1 DEF ChargedFirst
      <4>2. f[j].gasVerified = FALSE BY <1>2, <3>2 DEF IsRun
      <4> HIDE DEF e
      <4> QED BY <3>2, <4>1, <4>2 DEF Kept, Skipped
    <3>3. CASE dropped
      <4>1. ONG \in T => f[j].gasVerified BY <1>2, <2>1, <3>3, FeeComesFirst
      <4> HIDE DEF e
      <4> QED BY <3>3, <4>1 DEF Kept, Skipped
    <3> QED BY <3>1, <3>2, <3>3
  <2>5. Effect(k, txn, T, j + 1) = IF dropped THEN 0 ELSE EventMoves(k, e, txn.gas, T)
    <3>1. (j + 1 # 1) <=> (j # 0) OBVIOUS
    <3> QED BY <3>1 DEF Effect
  <2>6. s.from = e.from /\ s.to = e.to /\ s.amount = Amount(e) /\ s.amount \in Int
    BY <2>2, AmountIsInt DEF Shown
  <2> HIDE DEF e, dropped
  <2>7. CASE Kept(f[j], e, txn, T)
    <3>1. /\ x.from = e.from /\ x.to = e.to /\ x.amount = Amount(e)
          /\ DiffOf(f[j + 1].diffs, k) = DiffOf(f[j].diffs, k) + MovedBy(k, e.contract, x)
      BY <2>2, <2>3, <2>7, EventStep, SMTT(40)
    <3> HIDE DEF x, s
    <3>2. MovedBy(k, e.contract, x) = MovedBy(k, e.contract, s)
      BY <2>6, <3>1 DEF MovedBy
    <3>3. MovedBy(k, e.contract, s) \in Int BY <2>6 DEF MovedBy
    <3>4. Effect(k, txn, T, j + 1) = MovedBy(k, e.contract, s)
      BY <2>4, <2>5, <2>7 DEF EventMoves, s
    <3> QED BY <3>1, <3>2, <3>3, <3>4
  <2>8. CASE ~Kept(f[j], e, txn, T)
    <3>1. f[j + 1] = f[j] BY <2>2, <2>3, <2>8, EventStep
    <3>2. Effect(k, txn, T, j + 1) = 0 BY <2>4, <2>5, <2>8 DEF EventMoves
    <3>3. DiffOf(f[j].diffs, k) \in Int BY <2>3, DiffIsInt DEF IsState
    <3> QED BY <3>1, <3>2, <3>3
  <2> QED BY <2>7, <2>8
<1>4. \A j \in 0..n : h[j] \in Int
  BY <1>2, DiffIsInt DEF IsRun, IsState
<1>5. ASSUME NEW j \in 1..n PROVE v[j] \in Int /\ h[j] = h[j - 1] + v[j]
  <2>1. j - 1 \in 0..(n - 1) /\ (j - 1) + 1 = j /\ j \in 0..n /\ j - 1 \in 0..n BY <1>1
  <2> QED BY <1>1, <1>3, <2>1
<1>6. DOMAIN v = 1..n /\ Len(v) = n BY <1>1
<1>7. h[0] = DiffOf(diffs, k) /\ h[n] = DiffOf(IndexTxn(diffs, txn, T).diffs, k)
  BY <1>1, <1>2 DEF IsRun
<1> HIDE DEF v, h, n
<1>8. SumOf(v) \in Int /\ h[n] = h[0] + SumOf(v) BY <1>1, <1>4, <1>5, <1>6, SumFollows
<1> QED BY <1>0, <1>7, <1>8

\* In a transaction that has not failed, by what all of them move.
LEMMA EventsAddUp ==
  ASSUME NEW diffs, IsDiffs(diffs), NEW txn, IsTxn(txn), ~txn.failed, NEW T, NEW k
  PROVE  /\ EventsMove(k, txn, T) \in Int
         /\ DiffOf(IndexTxn(diffs, txn, T).diffs, k)
              = DiffOf(diffs, k) + EventsMove(k, txn, T)
<1>1. ChargedFirst(txn) BY DEF ChargedFirst
<1>2. Effects(k, txn, T) = EventsMove(k, txn, T)
  <2>1. \A j : Effect(k, txn, T, j) = EventMoves(k, txn.notify[j], txn.gas, T)
    BY DEF Effect
  <2> QED BY <2>1 DEF Effects, EventsMove
<1> QED BY <1>1, <1>2, EffectsAddUp

\* What it returns.
LEMMA TxnState ==
  ASSUME NEW diffs, IsDiffs(diffs), NEW txn, IsTxn(txn), NEW T
  PROVE  IsState(IndexTxn(diffs, txn, T))
<1>1. PICK f : IsRun(f, diffs, txn, T) BY TxnRuns
<1>2. Len(txn.notify) \in Nat BY ListDomain DEF IsTxn
<1>3. Len(txn.notify) \in 0..Len(txn.notify) BY <1>2
<1> QED BY <1>1, <1>3 DEF IsRun

----------------------------------------------------------------------------
(* The transactions of a block.                                            *)

IsBlock(b) == IsList(b) /\ \A i \in 1..Len(b) : IsTxn(b[i])

\* The diffs before the first transaction of a block and after each.
RunsThrough(D, b, T) ==
  /\ D[0] = <<>>
  /\ \A i \in 0..Len(b) : IsDiffs(D[i])
  /\ \A i \in 1..Len(b) :
       /\ D[i] = IndexTxn(D[i - 1], b[i], T).diffs
       /\ IndexBlock(b, T).txns[i] = IndexTxn(D[i - 1], b[i], T).transfers
  /\ IndexBlock(b, T).diffs = D[Len(b)]

\* The diffs run through a block, and one list of transfers is stored for each
\* transaction.
LEMMA BlockRuns ==
  ASSUME NEW b, IsBlock(b), NEW T
  PROVE  /\ \E D : RunsThrough(D, b, T)
         /\ IsList(IndexBlock(b, T).txns) /\ Len(IndexBlock(b, T).txns) = Len(b)
<1> DEFINE n == Len(b)
<1>1. n \in Nat /\ DOMAIN b = 1..n BY ListDomain DEF IsBlock
<1>2. PICK f : /\ f[0] = [diffs |-> <<>>, txns |-> <<>>]
               /\ \A k \in 1..n : f[k] = TxnTurn(T, f[k - 1], b[k])
               /\ IndexBlock(b, T) = f[n]
  BY <1>1, BlockTrace
<1> DEFINE D == [i \in 0..n |-> f[i].diffs]
           Done(k) == /\ IsDiffs(D[k]) /\ IsList(f[k].txns) /\ Len(f[k].txns) = k
                      /\ \A i \in 1..k :
                           f[k].txns[i] = IndexTxn(D[i - 1], b[i], T).transfers
           S == {k \in 0..n : Done(k)}
<1>3. 0 \in S
  <2>1. IsList(<<>>) /\ Len(<<>>) = 0
    <3>1. <<>> \in Seq({}) OBVIOUS
    <3> QED BY <3>1 DEF IsList
  <2>2. 0 \in 0..n /\ 1..0 = {} BY <1>1
  <2>3. D[0] = <<>> BY <1>2, <2>2
  <2>4. IsDiffs(<<>>) BY DEF IsDiffs
  <2> QED BY <1>2, <2>1, <2>2, <2>3, <2>4
<1>4. ASSUME NEW k \in 0..(n - 1), k \in S PROVE k + 1 \in S
  <2>1. k + 1 \in 1..n /\ k + 1 \in 0..n /\ k \in 0..n /\ (k + 1) - 1 = k BY <1>1
  <2> DEFINE st == IndexTxn(D[k], b[k + 1], T)
  <2>2. f[k + 1] = [diffs |-> st.diffs, txns |-> Append(f[k].txns, st.transfers)]
    <3>1. f[k + 1] = TxnTurn(T, f[k], b[k + 1]) BY <1>2, <2>1
    <3>2. f[k].diffs = D[k] BY <2>1
    <3> QED BY <3>1, <3>2 DEF TxnTurn
  <2>3. Done(k) BY <1>4
  <2>4. IsTxn(b[k + 1]) BY <2>1 DEF IsBlock
  <2>5. IsState(st) BY <2>3, <2>4, TxnState
  <2>6. IsDiffs(D[k + 1]) BY <2>1, <2>2, <2>5 DEF IsState
  <2>7. /\ IsList(f[k + 1].txns) /\ Len(f[k + 1].txns) = k + 1
        /\ f[k + 1].txns[k + 1] = st.transfers
        /\ \A i \in 1..k : f[k + 1].txns[i] = f[k].txns[i]
    BY <2>2, <2>3, ListAppend
  <2> HIDE DEF D
  <2>8. ASSUME NEW i \in 1..(k + 1)
        PROVE  f[k + 1].txns[i] = IndexTxn(D[i - 1], b[i], T).transfers
    <3>1. CASE i = k + 1 BY <3>1, <2>1, <2>7
    <3>2. CASE i \in 1..k BY <3>2, <2>3, <2>7
    <3>3. i = k + 1 \/ i \in 1..k BY <2>1
    <3> QED BY <3>1, <3>2, <3>3
  <2>9. Done(k + 1) BY <2>6, <2>7, <2>8
  <2> HIDE DEF Done
  <2> QED BY <2>1, <2>9
<1> HIDE DEF S, Done
<1>5. 0..n \subseteq S BY <1>1, <1>3, <1>4, Blocks!Induction
<1>6. \A k \in 0..n : Done(k) BY <1>5 DEF S
<1>7. Done(n) BY <1>1, <1>6
<1>8. D[0] = <<>>
  <2>1. 0 \in 0..n BY <1>1
  <2> QED BY <1>2, <2>1
<1>9. ASSUME NEW i \in 1..n PROVE D[i] = IndexTxn(D[i - 1], b[i], T).diffs
  <2>1. i \in 0..n /\ i - 1 \in 0..n BY <1>1
  <2>2. f[i] = TxnTurn(T, f[i - 1], b[i]) BY <1>2
  <2> QED BY <2>1, <2>2 DEF TxnTurn
<1>10. IndexBlock(b, T).diffs = D[n]
  <2>1. n \in 0..n BY <1>1
  <2> QED BY <1>2, <2>1
<1> HIDE DEF D
<1>11. \A i \in 0..n : IsDiffs(D[i]) BY <1>6 DEF Done
<1>12. /\ IsList(IndexBlock(b, T).txns) /\ Len(IndexBlock(b, T).txns) = n
       /\ \A i \in 1..n : IndexBlock(b, T).txns[i] = IndexTxn(D[i - 1], b[i], T).transfers
  BY <1>2, <1>7 DEF Done
<1>13. RunsThrough(D, b, T) BY <1>8, <1>9, <1>10, <1>11, <1>12 DEF RunsThrough
<1> QED BY <1>12, <1>13
----------------------------------------------------------------------------
(* What the transfers stored for a transaction, and the operations answered *)
(* for it, add up to.                                                      *)

\* What transfers, an operation, and operations move.
XMoved(k, xs) == SumOf([j \in DOMAIN xs |-> MovedBy(k, xs[j].contract, xs[j])])

OpMoved(k, op) == IF <<op.acct, op.contract>> = k THEN op.value ELSE 0

OpsMoved(k, ops) == SumOf([j \in DOMAIN ops |-> OpMoved(k, ops[j])])

\* The empty list.
LEMMA EmptyList == IsList(<<>>) /\ Len(<<>>) = 0 /\ DOMAIN <<>> = {}
<1>1. <<>> \in Seq({}) OBVIOUS
<1> QED BY <1>1 DEF IsList

\* No numbers add up to zero.
LEMMA SumOfNone ==
  ASSUME NEW v, DOMAIN v = {}, Len(v) = 0
  PROVE  SumOf(v) = 0
<1>1. 0 \in Nat /\ 1..0 = {} OBVIOUS
<1>2. \E f : /\ f[0] = 0 /\ (\A k \in 1..0 : f[k] = f[k - 1] + v[k])
             /\ SumOf(v) = f[0]
  BY <1>1, SumTrace
<1> QED BY <1>2

\* No transfers, and no operations, move anything.
LEMMA XMovedNone ==
  ASSUME NEW k
  PROVE  XMoved(k, <<>>) = 0 /\ OpsMoved(k, <<>>) = 0
<1> DEFINE v == [j \in DOMAIN <<>> |-> MovedBy(k, <<>>[j].contract, <<>>[j])]
           w == [j \in DOMAIN <<>> |-> OpMoved(k, <<>>[j])]
<1>1. XMoved(k, <<>>) = SumOf(v) /\ OpsMoved(k, <<>>) = SumOf(w)
  BY DEF XMoved, OpsMoved
<1>2. v = <<>> /\ w = <<>> OBVIOUS
<1>3. SumOf(<<>>) = 0 BY SumOfNone, EmptyList
<1> HIDE DEF v, w
<1> QED BY <1>1, <1>2, <1>3

\* One more transfer.
LEMMA XMovedAppend ==
  ASSUME NEW k, NEW xs, IsList(xs), \A j \in 1..Len(xs) : xs[j].amount \in Int,
         NEW x, x.amount \in Int
  PROVE  /\ XMoved(k, xs) \in Int /\ XMoved(k, Append(xs, x)) \in Int
         /\ XMoved(k, Append(xs, x)) = XMoved(k, xs) + MovedBy(k, x.contract, x)
<1> DEFINE n == Len(xs)
           ys == Append(xs, x)
           v == [j \in DOMAIN xs |-> MovedBy(k, xs[j].contract, xs[j])]
           w == [j \in DOMAIN ys |-> MovedBy(k, ys[j].contract, ys[j])]
<1>1. XMoved(k, xs) = SumOf(v) /\ XMoved(k, ys) = SumOf(w) BY DEF XMoved
<1>2. n \in Nat /\ DOMAIN xs = 1..n BY ListDomain
<1>3. /\ IsList(ys) /\ Len(ys) = n + 1 /\ DOMAIN ys = 1..(n + 1)
      /\ ys[n + 1] = x /\ \A j \in 1..n : ys[j] = xs[j]
  BY <1>2, ListAppend, ListDomain
<1> HIDE DEF ys
<1>4. DOMAIN v = 1..n /\ Len(v) = n /\ DOMAIN w = 1..(n + 1) /\ Len(w) = n + 1
  BY <1>2, <1>3
<1>5. w[n + 1] = MovedBy(k, x.contract, x) /\ \A j \in 1..n : v[j] = w[j]
  BY <1>2, <1>3
<1>6. w[n + 1] \in Int /\ \A j \in 1..n : v[j] \in Int
  BY <1>2, <1>5 DEF MovedBy
<1> HIDE DEF v, w, n
<1>7. SumOf(w) = SumOf(v) + w[n + 1] BY <1>2, <1>4, <1>5, <1>6, SumGrows
<1>8. SumOf(v) \in Int BY <1>2, <1>4, <1>6, SumIsInt
<1> QED BY <1>1, <1>5, <1>6, <1>7, <1>8 DEF ys

\* One more operation.
LEMMA OpsMovedAppend ==
  ASSUME NEW k, NEW ops, IsList(ops), \A j \in 1..Len(ops) : ops[j].value \in Int,
         NEW op, op.value \in Int
  PROVE  /\ OpsMoved(k, ops) \in Int /\ OpsMoved(k, Append(ops, op)) \in Int
         /\ OpsMoved(k, Append(ops, op)) = OpsMoved(k, ops) + OpMoved(k, op)
<1> DEFINE n == Len(ops)
           ys == Append(ops, op)
           v == [j \in DOMAIN ops |-> OpMoved(k, ops[j])]
           w == [j \in DOMAIN ys |-> OpMoved(k, ys[j])]
<1>1. OpsMoved(k, ops) = SumOf(v) /\ OpsMoved(k, ys) = SumOf(w) BY DEF OpsMoved
<1>2. n \in Nat /\ DOMAIN ops = 1..n BY ListDomain
<1>3. /\ IsList(ys) /\ Len(ys) = n + 1 /\ DOMAIN ys = 1..(n + 1)
      /\ ys[n + 1] = op /\ \A j \in 1..n : ys[j] = ops[j]
  BY <1>2, ListAppend, ListDomain
<1> HIDE DEF ys
<1>4. DOMAIN v = 1..n /\ Len(v) = n /\ DOMAIN w = 1..(n + 1) /\ Len(w) = n + 1
  BY <1>2, <1>3
<1>5. w[n + 1] = OpMoved(k, op) /\ \A j \in 1..n : v[j] = w[j]
  BY <1>2, <1>3
<1>6. w[n + 1] \in Int /\ \A j \in 1..n : v[j] \in Int
  BY <1>2, <1>5 DEF OpMoved
<1> HIDE DEF v, w, n
<1>7. SumOf(w) = SumOf(v) + w[n + 1] BY <1>2, <1>4, <1>5, <1>6, SumGrows
<1>8. SumOf(v) \in Int BY <1>2, <1>4, <1>6, SumIsInt
<1> QED BY <1>1, <1>5, <1>6, <1>7, <1>8 DEF ys

\* Whatever the tokens, and whether the transaction failed or not, the diffs
\* change by what the transfers stored for the transaction move.
LEMMA TransfersAddUp ==
  ASSUME NEW diffs, IsDiffs(diffs), NEW txn, IsTxn(txn), NEW T, NEW k
  PROVE  /\ XMoved(k, IndexTxn(diffs, txn, T).transfers) \in Int
         /\ DiffOf(IndexTxn(diffs, txn, T).diffs, k)
              = DiffOf(diffs, k) + XMoved(k, IndexTxn(diffs, txn, T).transfers)
<1> DEFINE n == Len(txn.notify)
<1>1. n \in Nat BY ListDomain DEF IsTxn
<1>2. PICK f : IsRun(f, diffs, txn, T) BY TxnRuns
<1> DEFINE Holds(j) == /\ XMoved(k, f[j].transfers) \in Int
                       /\ DiffOf(f[j].diffs, k) = DiffOf(diffs, k) + XMoved(k, f[j].transfers)
           S == {j \in 0..n : Holds(j)}
<1>3. 0 \in S
  <2>1. f[0].transfers = <<>> /\ f[0].diffs = diffs BY <1>2 DEF IsRun
  <2>2. DiffOf(diffs, k) \in Int BY DiffIsInt
  <2>3. XMoved(k, f[0].transfers) = 0 BY <2>1, XMovedNone
  <2> QED BY <1>1, <2>1, <2>2, <2>3
<1>4. ASSUME NEW j \in 0..(n - 1), j \in S PROVE j + 1 \in S
  <2> DEFINE e == txn.notify[j + 1]
             x == XferOf(f[j], e, txn)
  <2>1. j + 1 \in 1..n /\ j + 1 \in 0..n /\ j \in 0..n BY <1>1
  <2>2. Readable(e) BY <2>1 DEF IsTxn
  <2>3. IsState(f[j]) /\ f[j + 1] = IndexEvent(f[j], e, txn, T) BY <1>2, <2>1 DEF IsRun
  <2>4. Holds(j) BY <1>4
  <2> HIDE DEF e
  <2>5. CASE ~Kept(f[j], e, txn, T)
    <3>1. f[j + 1] = f[j] BY <2>2, <2>3, <2>5, EventStep
    <3> QED BY <2>1, <2>4, <3>1
  <2>6. CASE Kept(f[j], e, txn, T)
    <3>1. /\ Recorded(x) /\ x.contract = e.contract
          /\ f[j + 1].transfers = Append(f[j].transfers, x)
          /\ DiffOf(f[j + 1].diffs, k) = DiffOf(f[j].diffs, k) + MovedBy(k, e.contract, x)
      <4>1. PICK st : st = f[j] OBVIOUS
      <4>2. PICK nt : nt = f[j + 1] OBVIOUS
      <4>3. IsState(st) /\ nt = IndexEvent(st, e, txn, T) /\ Kept(st, e, txn, T)
        BY <2>3, <2>6, <4>1, <4>2
      <4>4. x = XferOf(st, e, txn) BY <4>1
      <4> HIDE DEF x
      <4>5. /\ Recorded(x) /\ x.contract = e.contract
            /\ nt.transfers = Append(st.transfers, x)
            /\ DiffOf(nt.diffs, k) = DiffOf(st.diffs, k) + MovedBy(k, e.contract, x)
        BY ONLY <2>2, <4>3, <4>4, EventStep
      <4> QED BY <4>1, <4>2, <4>5
    <3> HIDE DEF x
    <3>2. x.amount \in Int BY <3>1 DEF Recorded
    <3>3. IsList(f[j].transfers) /\ \A i \in 1..Len(f[j].transfers) : f[j].transfers[i].amount \in Int
      BY <2>3 DEF IsState, Recorded
    <3>4. /\ XMoved(k, f[j + 1].transfers) \in Int
          /\ XMoved(k, f[j + 1].transfers) = XMoved(k, f[j].transfers) + MovedBy(k, x.contract, x)
      BY <3>1, <3>2, <3>3, XMovedAppend
    <3>5. MovedBy(k, x.contract, x) \in Int BY <3>2 DEF MovedBy
    <3>6. DiffOf(diffs, k) \in Int BY DiffIsInt
    <3>7. MovedBy(k, e.contract, x) = MovedBy(k, x.contract, x) BY <3>1
    <3>8. DiffOf(f[j + 1].diffs, k) = DiffOf(diffs, k) + XMoved(k, f[j + 1].transfers)
      BY <2>4, <3>1, <3>4, <3>5, <3>6, <3>7
    <3> QED BY <2>1, <3>4, <3>8
  <2> QED BY <2>5, <2>6
<1> HIDE DEF S
<1>5. 0..n \subseteq S BY <1>1, <1>3, <1>4, Turns!Induction
<1>6. Holds(n)
  <2>1. n \in S BY <1>1, <1>5
  <2> QED BY <2>1 DEF S
<1>7. IndexTxn(diffs, txn, T) = f[n] BY <1>2 DEF IsRun
<1> QED BY <1>6, <1>7

\* The operations of one more transfer are appended one by one.
LEMMA AnswerAppends ==
  ASSUME NEW ops, IsList(ops), NEW x
  PROVE  LET sent == x.from # nullAddr
             debit == Operation(x, x.from, -x.amount, Len(ops), {})
             some == IF sent THEN Append(ops, debit) ELSE ops
             credit == Operation(x, x.to, x.amount, Len(some),
                                 IF sent THEN {Len(some) - 1} ELSE {})
         IN  AppendOperations(ops, x)
               = IF x.to # nullAddr THEN Append(some, credit) ELSE some
<1> DEFINE sent == x.from # nullAddr
           debit == Operation(x, x.from, -x.amount, Len(ops), {})
           some == IF sent THEN Append(ops, debit) ELSE ops
           credit == Operation(x, x.to, x.amount, Len(some),
                               IF sent THEN {Len(some) - 1} ELSE {})
           d == IF sent THEN <<debit>> ELSE <<>>
           m == Len(ops) + Len(d)
           c == IF x.to # nullAddr
                THEN <<Operation(x, x.to, x.amount, m, IF sent THEN {m - 1} ELSE {})>>
                ELSE <<>>
<1>1. AppendOperations(ops, x) = ops \o d \o c BY DEF AppendOperations
<1>2. ASSUME NEW xs, IsList(xs) PROVE xs \o <<>> = xs /\ \A y : xs \o <<y>> = Append(xs, y)
  <2>1. PICK S : xs \in Seq(S) BY <1>2 DEF IsList
  <2>2. xs \o <<>> = xs BY <2>1, ConcatEmptySeq
  <2>3. ASSUME NEW y PROVE xs \o <<y>> = Append(xs, y)
    <3>1. xs \in Seq(S \union {y}) /\ y \in S \union {y} BY <2>1, SeqMonotonic
    <3> QED BY <3>1, AppendIsConcat
  <2> QED BY <2>2, <2>3
<1>3. IsList(some) /\ Len(some) = m
  <2>1. Len(ops) \in Nat BY ListDomain
  <2>2. CASE sent
    <3>1. Len(d) = 1 BY <2>2
    <3> HIDE DEF debit, d
    <3> QED BY <2>1, <2>2, <3>1, ListAppend
  <2>3. CASE ~sent
    <3>1. Len(d) = 0 BY <2>3
    <3> QED BY <2>1, <2>3, <3>1
  <2> QED BY <2>2, <2>3
<1>4. ops \o d = some
  <2> HIDE DEF debit
  <2> QED BY <1>2
<1>5. c = IF x.to # nullAddr THEN <<credit>> ELSE <<>> BY <1>3
<1> HIDE DEF some, credit, c, d
<1>6. some \o c = IF x.to # nullAddr THEN Append(some, credit) ELSE some
  BY <1>2, <1>3, <1>5
<1>7. AppendOperations(ops, x) = IF x.to # nullAddr THEN Append(some, credit) ELSE some
  BY <1>1, <1>4, <1>6
<1> QED BY <1>7 DEF some, credit

\* An operation refers to an earlier one, the other side of the same transfer.
Refers(ops, j, op) ==
  /\ op.value \in Int /\ op.index = j - 1
  /\ \A r \in op.related :
       /\ r \in 0..(j - 2)
       /\ ops[r+1].value = -op.value
       /\ ops[r+1].contract = op.contract
       /\ ops[r+1].type = op.type

IsOps(ops) == IsList(ops) /\ \A j \in 1..Len(ops) : Refers(ops, j, ops[j])

\* An operation that refers to those before it can be appended.
LEMMA OpsGrow ==
  ASSUME NEW ops, IsOps(ops), NEW op, Refers(ops, Len(ops) + 1, op)
  PROVE  IsOps(Append(ops, op))
<1> DEFINE n == Len(ops)
           new == Append(ops, op)
<1>1. n \in Nat BY ListDomain DEF IsOps
<1>2. /\ IsList(new) /\ Len(new) = n + 1
      /\ new[n + 1] = op /\ \A i \in 1..n : new[i] = ops[i]
  BY ListAppend DEF IsOps
<1> HIDE DEF new
<1>3. ASSUME NEW j \in 1..(n + 1), NEW o, Refers(ops, j, o) PROVE Refers(new, j, o)
  <2>1. \A r \in 0..(j - 2) : r + 1 \in 1..n BY <1>1
  <2> QED BY <1>2, <1>3, <2>1 DEF Refers
<1>4. ASSUME NEW j \in 1..(n + 1) PROVE Refers(new, j, new[j])
  <2>1. CASE j = n + 1 BY <1>2, <1>3, <2>1
  <2>2. CASE j # n + 1
    <3>1. j \in 1..n BY <1>1, <2>2
    <3> QED BY <1>2, <1>3, <3>1 DEF IsOps
  <2> QED BY <2>1, <2>2
<1> QED BY <1>2, <1>4 DEF IsOps, new

\* The operations of a transfer move what it moves.
LEMMA OpsOfTransfer ==
  ASSUME NEW ops, IsOps(ops), NEW x, x.amount \in Int, NEW k
  PROVE  /\ IsOps(AppendOperations(ops, x))
         /\ OpsMoved(k, ops) \in Int
         /\ OpsMoved(k, AppendOperations(ops, x))
              = OpsMoved(k, ops) + MovedBy(k, x.contract, x)
<1> DEFINE sent == x.from # nullAddr
           debit == Operation(x, x.from, -x.amount, Len(ops), {})
           some == IF sent THEN Append(ops, debit) ELSE ops
           related == IF sent THEN {Len(some) - 1} ELSE {}
           credit == Operation(x, x.to, x.amount, Len(some), related)
           taken == IF x.from # nullAddr /\ k = <<x.from, x.contract>> THEN x.amount ELSE 0
           given == IF x.to # nullAddr /\ k = <<x.to, x.contract>> THEN x.amount ELSE 0
           all == IF x.to # nullAddr THEN Append(some, credit) ELSE some
<1>1. AppendOperations(ops, x) = all BY AnswerAppends DEF IsOps
<1>2. IsList(ops) /\ Len(ops) \in Nat BY ListDomain DEF IsOps
<1>3. \A o : IsOps(o) => IsList(o) /\ \A j \in 1..Len(o) : o[j].value \in Int
  BY DEF IsOps, Refers
<1>4. OpsMoved(k, ops) \in Int
  <2>1. 0 \in Int /\ [value |-> 0].value \in Int OBVIOUS
  <2> QED BY <1>3, <2>1, OpsMovedAppend
<1>5. /\ debit.value = -x.amount /\ debit.index = Len(ops) /\ debit.related = {}
      /\ debit.contract = x.contract /\ debit.type = OpType(x) /\ debit.acct = x.from
  BY DEF Operation
<1>6. /\ credit.value = x.amount /\ credit.index = Len(some) /\ credit.related = related
      /\ credit.contract = x.contract /\ credit.type = OpType(x) /\ credit.acct = x.to
  BY DEF Operation
<1>7. /\ IsOps(some) /\ OpsMoved(k, some) \in Int
      /\ OpsMoved(k, some) = OpsMoved(k, ops) - taken
      /\ sent => Len(some) = Len(ops) + 1 /\ some[Len(ops) + 1] = debit
  <2>1. CASE sent
    <3> HIDE DEF debit
    <3>1. Refers(ops, Len(ops) + 1, debit) BY <1>2, <1>5 DEF Refers
    <3>2. IsOps(some) BY <2>1, <3>1, OpsGrow
    <3>3. OpMoved(k, debit) = -taken BY <1>5, <2>1 DEF OpMoved
    <3>4. debit.value \in Int BY <1>5
    <3>5. OpsMoved(k, some) \in Int /\ OpsMoved(k, some) = OpsMoved(k, ops) + OpMoved(k, debit)
      BY <1>3, <2>1, <3>4, OpsMovedAppend
    <3>6. taken \in Int OBVIOUS
    <3>7. Len(some) = Len(ops) + 1 /\ some[Len(ops) + 1] = debit
      BY <1>2, <2>1, ListAppend
    <3> HIDE DEF some, taken
    <3> QED BY <1>4, <3>2, <3>3, <3>5, <3>6, <3>7
  <2>2. CASE ~sent
    <3>1. some = ops /\ taken = 0 BY <2>2
    <3> HIDE DEF some, taken
    <3> QED BY <1>4, <2>2, <3>1
  <2> QED BY <2>1, <2>2
<1>8. Len(some) \in Nat /\ IsList(some) BY <1>7, ListDomain DEF IsOps
<1>9. Refers(some, Len(some) + 1, credit)
  <2>1. CASE sent
    <3>1. related = {Len(ops)} /\ Len(ops) \in 0..(Len(some) - 1) BY <1>2, <1>7, <2>1
    <3>2. some[Len(ops) + 1] = debit BY <1>7, <2>1
    <3> HIDE DEF some, credit, related, debit
    <3> QED BY <1>2, <1>5, <1>6, <1>8, <3>1, <3>2 DEF Refers
  <2>2. CASE ~sent
    <3>1. related = {} BY <2>2
    <3> HIDE DEF some, credit, related
    <3> QED BY <1>6, <1>8, <3>1 DEF Refers
  <2> QED BY <2>1, <2>2
<1>10. OpMoved(k, credit) = IF k = <<x.to, x.contract>> THEN x.amount ELSE 0
  BY <1>6 DEF OpMoved
<1>11. /\ OpsMoved(k, Append(some, credit)) = OpsMoved(k, some) + OpMoved(k, credit)
       /\ IsOps(Append(some, credit))
  <2>1. credit.value \in Int BY <1>6
  <2> HIDE DEF some, credit
  <2> QED BY <1>3, <1>7, <1>9, <2>1, OpsMovedAppend, OpsGrow
<1>12. IsOps(all) /\ OpsMoved(k, all) = OpsMoved(k, some) + given
  <2> HIDE DEF some, credit
  <2> QED BY <1>7, <1>10, <1>11
<1>13. MovedBy(k, x.contract, x) = given - taken BY DEF MovedBy
<1>14. taken \in Int /\ given \in Int OBVIOUS
<1> HIDE DEF all, some, taken, given
<1> QED BY <1>1, <1>4, <1>7, <1>12, <1>13, <1>14

\* The operations answered for a transaction add up to what its transfers
\* move.
LEMMA AnswersAddUp ==
  ASSUME NEW xs, IsList(xs), \A j \in 1..Len(xs) : xs[j].amount \in Int, NEW k
  PROVE  IsOps(Operations(xs)) /\ OpsMoved(k, Operations(xs)) = XMoved(k, xs)
<1> DEFINE n == Len(xs)
           v == [j \in DOMAIN xs |-> MovedBy(k, xs[j].contract, xs[j])]
<1>1. n \in Nat /\ DOMAIN xs = 1..n BY ListDomain
<1>2. XMoved(k, xs) = SumOf(v) BY DEF XMoved
<1>3. PICK f : /\ f[0] = <<>> /\ (\A j \in 1..n : f[j] = AppendOperations(f[j - 1], xs[j]))
               /\ Operations(xs) = f[n]
  BY <1>1, OperationsTrace
<1> DEFINE S == {j \in 0..n : IsOps(f[j])}
<1>4. 0 \in S BY <1>1, <1>3, EmptyList DEF IsOps
<1>5. ASSUME NEW j \in 0..(n - 1), j \in S PROVE j + 1 \in S
  <2>1. j + 1 \in 1..n /\ (j + 1) - 1 = j /\ j + 1 \in 0..n BY <1>1
  <2>2. f[j + 1] = AppendOperations(f[j], xs[j + 1]) /\ xs[j + 1].amount \in Int
    BY <1>3, <2>1
  <2>3. IsOps(f[j + 1]) BY <1>5, <2>2, OpsOfTransfer
  <2> QED BY <2>1, <2>3
<1> HIDE DEF S
<1>6. 0..n \subseteq S BY <1>1, <1>4, <1>5, Answers!Induction
<1>7. \A j \in 0..n : IsOps(f[j]) BY <1>6 DEF S
<1> DEFINE h == [j \in 0..n |-> OpsMoved(k, f[j])]
<1>8. ASSUME NEW j \in 0..n PROVE h[j] \in Int
  <2>1. IsOps(f[j]) BY <1>7
  <2>2. PICK x : x.amount \in Int
    <3>1. [amount |-> 0].amount \in Int OBVIOUS
    <3> QED BY <3>1
  <2>3. OpsMoved(k, f[j]) \in Int BY <2>1, <2>2, OpsOfTransfer
  <2> QED BY <2>3
<1>9. ASSUME NEW j \in 1..n PROVE v[j] \in Int /\ h[j] = h[j - 1] + v[j]
  <2>1. j - 1 \in 0..n /\ j \in 0..n /\ xs[j].amount \in Int BY <1>1
  <2>2. v[j] = MovedBy(k, xs[j].contract, xs[j]) BY <1>1
  <2>3. v[j] \in Int BY <2>1, <2>2 DEF MovedBy
  <2>4. OpsMoved(k, f[j]) = OpsMoved(k, f[j - 1]) + MovedBy(k, xs[j].contract, xs[j])
    BY <1>3, <1>7, <2>1, OpsOfTransfer
  <2> QED BY <2>1, <2>2, <2>3, <2>4
<1>10. DOMAIN v = 1..n /\ Len(v) = n BY <1>1
<1>11. h[0] = 0 /\ h[n] = OpsMoved(k, Operations(xs)) BY <1>1, <1>3, XMovedNone
<1> HIDE DEF h, v, n
<1>12. h[n] = h[0] + SumOf(v) /\ SumOf(v) \in Int BY <1>1, <1>8, <1>9, <1>10, SumFollows
<1>13. IsOps(Operations(xs)) BY <1>1, <1>3, <1>7
<1> QED BY <1>2, <1>11, <1>12, <1>13

\* The same of a block, for any tokens.
LEMMA BlockAddsUp ==
  ASSUME NEW b, IsBlock(b), NEW T, NEW k
  PROVE  LET stored == IndexBlock(b, T) IN
         /\ DOMAIN stored.txns = 1..Len(b)
         /\ \A i \in 1..Len(b) : IsOps(Operations(stored.txns[i]))
         /\ DiffOf(stored.diffs, k)
              = SumOf([i \in DOMAIN stored.txns |-> OpsMoved(k, Operations(stored.txns[i]))])
<1> DEFINE n == Len(b)
           txns == IndexBlock(b, T).txns
           v == [i \in DOMAIN txns |-> OpsMoved(k, Operations(txns[i]))]
<1>1. n \in Nat /\ DOMAIN b = 1..n BY ListDomain DEF IsBlock
<1>2. PICK D : RunsThrough(D, b, T) BY BlockRuns
<1>3. DOMAIN txns = 1..n
  <2>1. IsList(IndexBlock(b, T).txns) /\ Len(IndexBlock(b, T).txns) = n BY BlockRuns
  <2> QED BY <2>1, ListDomain
<1> DEFINE h == [i \in 0..n |-> DiffOf(D[i], k)]
<1>4. \A i \in 0..n : h[i] \in Int BY <1>2, DiffIsInt DEF RunsThrough
<1>5. ASSUME NEW i \in 1..n
      PROVE  /\ IsOps(Operations(txns[i]))
             /\ v[i] \in Int /\ h[i] = h[i - 1] + v[i]
  <2>1. i \in 0..n /\ i - 1 \in 0..n BY <1>1
  <2>2. /\ IsDiffs(D[i - 1]) /\ D[i] = IndexTxn(D[i - 1], b[i], T).diffs
        /\ txns[i] = IndexTxn(D[i - 1], b[i], T).transfers
    BY <1>2, <2>1 DEF RunsThrough
  <2>3. IsTxn(b[i]) BY <1>1 DEF IsBlock
  <2> HIDE DEF txns
  <2>4. IsList(txns[i]) /\ \A j \in 1..Len(txns[i]) : txns[i][j].amount \in Int
    <3> DEFINE st == IndexTxn(D[i - 1], b[i], T)
    <3>1. IsState(st) BY <2>2, <2>3, TxnState
    <3> HIDE DEF st
    <3>2. IsList(st.transfers) /\ \A j \in 1..Len(st.transfers) : st.transfers[j].amount \in Int
      BY <3>1 DEF IsState, Recorded
    <3>3. txns[i] = st.transfers BY <2>2 DEF st
    <3> QED BY <3>2, <3>3
  <2>5. /\ IsOps(Operations(txns[i]))
        /\ OpsMoved(k, Operations(txns[i])) = XMoved(k, txns[i])
    BY <2>4, AnswersAddUp
  <2>6. XMoved(k, txns[i]) \in Int /\ DiffOf(D[i], k) = DiffOf(D[i - 1], k) + XMoved(k, txns[i])
    BY <2>2, <2>3, TransfersAddUp
  <2> QED BY <1>3, <2>1, <2>5, <2>6
<1>6. DOMAIN v = 1..n /\ Len(v) = n BY <1>1, <1>3
<1>7. h[0] = 0 /\ h[n] = DiffOf(IndexBlock(b, T).diffs, k)
  <2>1. 0 \in 0..n /\ n \in 0..n BY <1>1
  <2>2. D[0] = <<>> /\ D[n] = IndexBlock(b, T).diffs BY <1>2 DEF RunsThrough
  <2>3. h[0] = DiffOf(D[0], k) /\ h[n] = DiffOf(D[n], k) BY <2>1
  <2>4. DiffOf(<<>>, k) = 0 BY DEF DiffOf
  <2> HIDE DEF h
  <2> QED BY <2>2, <2>3, <2>4
<1>8. \A i \in 1..n : IsOps(Operations(txns[i])) BY <1>5
<1> HIDE DEF v, h
<1>9. SumOf(v) \in Int /\ h[n] = h[0] + SumOf(v) BY <1>1, <1>4, <1>5, <1>6, SumFollows
<1> QED BY <1>3, <1>7, <1>8, <1>9 DEF v

----------------------------------------------------------------------------
(* One transaction of a block.                                             *)

\* The operations answered for a transaction that has not failed move what its
\* events moved, wherever in a block it is.
LEMMA AnsweredIsMoved ==
  ASSUME NEW b, IsBlock(b), NEW i \in 1..Len(b), ~b[i].failed, NEW T, NEW k
  PROVE  LET ops == Operations(IndexBlock(b, T).txns[i]) IN
         /\ IsOps(ops)
         /\ OpsMoved(k, ops) = EventsMove(k, b[i], T)
<1> DEFINE xs == IndexBlock(b, T).txns[i]
<1>1. Len(b) \in Nat BY ListDomain DEF IsBlock
<1>2. PICK D : RunsThrough(D, b, T) BY BlockRuns
<1> DEFINE st == IndexTxn(D[i - 1], b[i], T)
<1>3. i - 1 \in 0..Len(b) /\ i \in 0..Len(b) BY <1>1
<1>4. IsDiffs(D[i - 1]) /\ xs = st.transfers BY <1>2, <1>3 DEF RunsThrough
<1>5. IsTxn(b[i]) BY DEF IsBlock
<1>6. DiffOf(D[i - 1], k) \in Int BY <1>4, DiffIsInt
<1>7. IsState(st) BY <1>4, <1>5, TxnState
<1>8. XMoved(k, xs) \in Int /\ DiffOf(st.diffs, k) = DiffOf(D[i - 1], k) + XMoved(k, xs)
  BY <1>4, <1>5, TransfersAddUp
<1>9. /\ EventsMove(k, b[i], T) \in Int
      /\ DiffOf(st.diffs, k) = DiffOf(D[i - 1], k) + EventsMove(k, b[i], T)
  BY <1>4, <1>5, EventsAddUp
<1> HIDE DEF st, xs
<1>10. IsList(xs) /\ \A j \in 1..Len(xs) : xs[j].amount \in Int
  BY <1>4, <1>7 DEF IsState, Recorded
<1>11. IsOps(Operations(xs)) /\ OpsMoved(k, Operations(xs)) = XMoved(k, xs)
  BY <1>10, AnswersAddUp
<1>12. XMoved(k, xs) = EventsMove(k, b[i], T) BY <1>6, <1>8, <1>9
<1> QED BY <1>11, <1>12 DEF xs
=============================================================================
