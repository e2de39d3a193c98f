---------------------------- MODULE EventProofs ----------------------------
(***************************************************************************)
(* What is indexed for a block, for every sequence of transactions and     *)
(* events: that it is what the events moved, that the operations answered  *)
(* add up to it, that gas is paid once, and what is kept of a transaction  *)
(* that failed.  Any block of EventIndexing is a block of TransferProofs   *)
(* (TypedBlock); what the theorems add to the facts of that module is what *)
(* the events mean, and who pays.                                          *)
(*                                                                         *)
(* The last part is about chains of such blocks: the store, which takes it *)
(* for given that events account for balances, is given what these loops   *)
(* compute.                                                                *)
(***************************************************************************)
EXTENDS EventIndexing, TransferProofs

(* One event.                                                              *)

\* The two ways to say what an event moves agree.
LEMMA ReportedAmount ==
  ASSUME NEW e
  PROVE  Reported(e).amount = Amount(e)
BY DEF Reported, Amount

\* An event of a tracked token is read if it counts, and only then.
LEMMA DecodeCounts ==
  ASSUME NEW e, Readable(e), NEW gas
  PROVE  (e.contract \in Tracked /\ Decode(e, gas).ok) <=> Reported(e).counts
<1>1. CASE e.form = "evm"
  BY <1>1 DEF Decode, DecodeEvm, Transfer, NoTransfer, Reported
<1>2. CASE e.form \in {"native4", "native5"}
  <2>1. CASE e.contract \in {ONT, ONG}
    BY <1>2, <2>1 DEF Decode, DecodeNative, Transfer, NoTransfer, Reported
  <2>2. CASE e.contract \notin {ONT, ONG}
    BY <1>2, <2>2 DEF Decode, DecodeOEP4, Transfer, NoTransfer, Reported
  <2> QED BY <2>1, <2>2
<1>3. CASE e.form = "oep4"
  <2>1. CASE e.contract \in {ONT, ONG}
    BY <1>3, <2>1 DEF Decode, DecodeNative, Transfer, NoTransfer, Reported
  <2>2. CASE e.contract \notin {ONT, ONG}
    BY <1>3, <2>2 DEF Decode, DecodeOEP4, Transfer, NoTransfer, Reported, Readable
  <2> QED BY <2>1, <2>2
<1>4. CASE e.form \notin {"evm", "native4", "native5", "oep4"}
  BY <1>4 DEF Decode, DecodeNative, DecodeOEP4, Transfer, NoTransfer, Reported
<1> QED BY <1>1, <1>2, <1>3, <1>4

\* What an event moves is what the loop counts of it, whatever the gas.
LEMMA EventMoved ==
  ASSUME NEW e, Readable(e), NEW gas, NEW k, k = <<k[1], k[2]>>
  PROVE  EventMoves(k, e, gas, Tracked) = Moved(k, e)
<1> DEFINE s == Shown(e)
<1>1. s.from = e.from /\ s.to = e.to /\ s.amount = Reported(e).amount /\ s.amount \in Int
  BY AmountIsInt, ReportedAmount DEF Shown
<1>2. (e.contract \in Tracked /\ Decode(e, gas).ok) <=> Reported(e).counts
  BY DecodeCounts
<1> HIDE DEF s
<1>3. CASE Reported(e).counts
  <2>1. MovedBy(k, e.contract, s) = Moved(k, e)
    <3>1. PICK a \in Int : a = Reported(e).amount BY <1>1
    <3>2. Moved(k, e) =
            IF e.contract # k[2] \/ k[1] = nullAddr THEN 0
            ELSE (IF e.to = k[1] THEN a ELSE 0) - (IF e.from = k[1] THEN a ELSE 0)
      BY <1>3, <3>1 DEF Moved
    <3>3. MovedBy(k, e.contract, s) =
            (IF e.to # nullAddr /\ k = <<e.to, e.contract>> THEN a ELSE 0)
            - (IF e.from # nullAddr /\ k = <<e.from, e.contract>> THEN a ELSE 0)
      BY <1>1, <3>1 DEF MovedBy
    <3>4. CASE e.contract # k[2] \/ k[1] = nullAddr
      <4>1. Moved(k, e) = 0 BY <3>2, <3>4
      <4>2. \A y : ~(y # nullAddr /\ k = <<y, e.contract>>) BY <3>4
      <4>3. MovedBy(k, e.contract, s) = 0 - 0 BY <3>3, <4>2
      <4> QED BY <4>1, <4>3
    <3>5. CASE e.contract = k[2] /\ k[1] # nullAddr
      <4>1. \A y : (y # nullAddr /\ k = <<y, e.contract>>) <=> y = k[1] BY <3>5
      <4>2. MovedBy(k, e.contract, s) =
              (IF e.to = k[1] THEN a ELSE 0) - (IF e.from = k[1] THEN a ELSE 0)
        BY <3>3, <4>1
      <4> QED BY <3>2, <3>5, <4>2
    <3> QED BY <3>4, <3>5
  <2> QED BY <1>2, <1>3, <2>1 DEF EventMoves, s
<1>4. CASE ~Reported(e).counts BY <1>2, <1>4 DEF EventMoves, Moved
<1> QED BY <1>3, <1>4

\* What the events of a transaction moved: of one that failed, its first, the
\* charge for the gas.
TxnMoved(k, txn) ==
  SumOf([j \in DOMAIN txn.notify |->
           IF txn.failed /\ j # 1 THEN 0 ELSE Moved(k, txn.notify[j])])

\* In a transaction the diffs change by what its events moved.
LEMMA TxnMoves ==
  ASSUME NEW diffs, IsDiffs(diffs), NEW txn, IsTxn(txn), ChargedFirst(txn), NEW k,
         k = <<k[1], k[2]>>
  PROVE  /\ TxnMoved(k, txn) \in Int
         /\ DiffOf(IndexTxn(diffs, txn, Tracked).diffs, k)
              = DiffOf(diffs, k) + TxnMoved(k, txn)
<1>1. ASSUME NEW j \in DOMAIN txn.notify
      PROVE  Effect(k, txn, Tracked, j)
               = IF txn.failed /\ j # 1 THEN 0 ELSE Moved(k, txn.notify[j])
  <2>1. Readable(txn.notify[j]) BY ListDomain DEF IsTxn
  <2>2. EventMoves(k, txn.notify[j], txn.gas, Tracked) = Moved(k, txn.notify[j])
    BY <2>1, EventMoved
  <2> QED BY <2>2 DEF Effect
<1>2. Effects(k, txn, Tracked) = TxnMoved(k, txn) BY <1>1 DEF Effects, TxnMoved
<1>3. /\ Effects(k, txn, Tracked) \in Int
      /\ DiffOf(IndexTxn(diffs, txn, Tracked).diffs, k)
           = DiffOf(diffs, k) + Effects(k, txn, Tracked)
  BY EffectsAddUp
<1> QED BY <1>2, <1>3

----------------------------------------------------------------------------
(* The blocks the ledger may hold.                                         *)

Txns == [payer : Payers, failed : BOOLEAN, gas : Gas, notify : Seq(Events)]

BlockTyped == block \in Seq(Txns)

\* The block is a sequence of transactions, whatever order they are executed
\* in and however many events each emits (Execute, Notify).
THEOREM BlockIsTyped == Spec => []BlockTyped
<1>1. Init => BlockTyped BY DEF Init, BlockTyped
<1>2. BlockTyped /\ [Next]_block => BlockTyped'
  <2> SUFFICES ASSUME block \in Seq(Txns), [Next]_block PROVE block' \in Seq(Txns)
    BY DEF BlockTyped
  <2>1. CASE UNCHANGED block BY <2>1
  <2>2. ASSUME NEW p \in Payers, NEW f \in BOOLEAN, NEW g \in Gas, Execute(p, f, g)
        PROVE  block' \in Seq(Txns)
    <3>1. <<>> \in Seq(Events) OBVIOUS
    <3>2. [payer |-> p, failed |-> f, gas |-> g, notify |-> <<>>] \in Txns
      BY <3>1 DEF Txns
    <3> QED BY <2>2, <3>2, AppendProperties DEF Execute
  <2>3. ASSUME NEW e \in Events, Notify(e) PROVE block' \in Seq(Txns)
    <3>1. Len(block) \in Nat \ {0} /\ Len(block) \in DOMAIN block
      BY <2>3, EmptySeq DEF Notify
    <3>2. block[Len(block)] \in Txns BY <3>1
    <3>3. Append(block[Len(block)].notify, e) \in Seq(Events)
      BY <3>2, AppendProperties DEF Txns
    <3>4. [block[Len(block)] EXCEPT !.notify = Append(@, e)] \in Txns
      BY <3>2, <3>3 DEF Txns
    <3>5. block' = [block EXCEPT ![Len(block)] = [block[Len(block)] EXCEPT !.notify = Append(@, e)]]
      BY <2>3 DEF Notify
    <3> QED BY <3>1, <3>4, <3>5, ExceptSeq
  <2> QED BY <2>1, <2>2, <2>3 DEF Next
<1> QED BY <1>1, <1>2, PTL DEF Spec

\* What such a block is to the loops.
LEMMA TypedBlock ==
  ASSUME BlockTyped
  PROVE  /\ IsBlock(block) /\ Len(block) \in Nat /\ DOMAIN block = 1..Len(block)
         /\ \A i \in DOMAIN block :
              block[i] \in Txns /\ block[i].failed \in BOOLEAN /\ block[i].gas \in Gas
<1> USE DEF BlockTyped
<1>1. IsList(block) BY DEF IsList
<1>2. ASSUME NEW i \in 1..Len(block) PROVE IsTxn(block[i]) /\ block[i] \in Txns
  <2>1. block[i] \in Txns OBVIOUS
  <2>2. block[i].notify \in Seq(Events) BY <2>1 DEF Txns
  <2>3. \A j \in 1..Len(block[i].notify) : Readable(block[i].notify[j])
    BY <2>2, EventAssumption DEF Readable
  <2> QED BY <2>1, <2>2, <2>3 DEF IsTxn, IsList
<1>3. \A txn \in Txns : txn.failed \in BOOLEAN /\ txn.gas \in Gas BY DEF Txns
<1> QED BY <1>1, <1>2, <1>3 DEF IsBlock

----------------------------------------------------------------------------
(* What the diffs are.                                                     *)

\* A key is an account and a contract.
LEMMA KeyIsPair ==
  ASSUME NEW k \in AllKeys
  PROVE  k = <<k[1], k[2]>>
BY DEF AllKeys

\* What the transactions of a block moved, and a block of which the failed ones
\* left what the ledger leaves of them.
BlockMoved(k, b) == SumOf([i \in DOMAIN b |-> TxnMoved(k, b[i])])

FailuresCharged(b) == \A i \in DOMAIN b : ChargedFirst(b[i])

\* The diffs run through a block, and each transaction changes them by what its
\* events moved.
LEMMA BlockMoves ==
  ASSUME NEW b, IsBlock(b), FailuresCharged(b), NEW k, k = <<k[1], k[2]>>
  PROVE  /\ BlockMoved(k, b) \in Int
         /\ DiffOf(IndexBlock(b, Tracked).diffs, k) = BlockMoved(k, b)
<1> DEFINE n == Len(b)
           v == [i \in DOMAIN b |-> TxnMoved(k, b[i])]
<1>1. n \in Nat /\ DOMAIN b = 1..n BY ListDomain DEF IsBlock
<1>2. PICK D : RunsThrough(D, b, Tracked) BY BlockRuns
<1> DEFINE h == [i \in 0..n |-> DiffOf(D[i], k)]
<1>3. \A i \in 0..n : h[i] \in Int BY <1>2, DiffIsInt DEF RunsThrough
<1>4. ASSUME NEW i \in 1..n PROVE v[i] \in Int /\ h[i] = h[i - 1] + v[i]
  <2>1. i \in 0..n /\ i - 1 \in 0..n BY <1>1
  <2>2. IsDiffs(D[i - 1]) /\ D[i] = IndexTxn(D[i - 1], b[i], Tracked).diffs
    BY <1>2, <2>1 DEF RunsThrough
  <2>3. IsTxn(b[i]) /\ ChargedFirst(b[i]) BY <1>1 DEF IsBlock, FailuresCharged
  <2>4. v[i] = TxnMoved(k, b[i]) BY <1>1
  <2> HIDE DEF v
  <2>5. /\ TxnMoved(k, b[i]) \in Int
        /\ DiffOf(IndexTxn(D[i - 1], b[i], Tracked).diffs, k)
             = DiffOf(D[i - 1], k) + TxnMoved(k, b[i])
    BY <2>2, <2>3, TxnMoves
  <2> QED BY <2>1, <2>2, <2>4, <2>5
<1>5. DOMAIN v = 1..n /\ Len(v) = n BY <1>1
<1>6. h[0] = 0 /\ h[n] = DiffOf(IndexBlock(b, Tracked).diffs, k)
  <2>1. 0 \in 0..n /\ n \in 0..n BY <1>1
  <2>2. D[0] = <<>> /\ D[n] = IndexBlock(b, Tracked).diffs BY <1>2 DEF RunsThrough
  <2>3. h[0] = DiffOf(D[0], k) /\ h[n] = DiffOf(D[n], k) BY <2>1
  <2>4. DiffOf(<<>>, k) = 0 BY DEF DiffOf
  <2> HIDE DEF h
  <2> QED BY <2>2, <2>3, <2>4
<1> HIDE DEF v, h, n
<1>7. SumOf(v) \in Int /\ h[n] = h[0] + SumOf(v) BY <1>1, <1>3, <1>4, <1>5, SumFollows
<1> QED BY <1>6, <1>7 DEF v, BlockMoved

\* Of every block no transaction of which failed, the diffs are what its events
\* moved, key by key and in full precision (decodeTransfer and balanceCal,
\* store.go 881-1162).
THEOREM DiffsAreWhatMoved == Spec => []DiffsAreMoves
<1>1. BlockTyped => DiffsAreMoves
  <2> SUFFICES ASSUME BlockTyped, \A i \in DOMAIN block : ~block[i].failed,
                      NEW k \in AllKeys
               PROVE  DiffOf(Stored.diffs, k)
                 = SumOf([i \in DOMAIN block |->
                     SumOf([j \in DOMAIN block[i].notify |-> Moved(k, block[i].notify[j])])])
    BY DEF DiffsAreMoves
  <2>1. IsBlock(block) BY TypedBlock
  <2>2. FailuresCharged(block) BY DEF FailuresCharged, ChargedFirst
  <2>3. DiffOf(Stored.diffs, k) = BlockMoved(k, block)
    BY <2>1, <2>2, KeyIsPair, BlockMoves DEF Stored
  <2>4. \A i \in DOMAIN block :
          TxnMoved(k, block[i])
            = SumOf([j \in DOMAIN block[i].notify |-> Moved(k, block[i].notify[j])])
    BY DEF TxnMoved
  <2> QED BY <2>3, <2>4 DEF BlockMoved
<1> QED BY <1>1, BlockIsTyped, PTL

\* Of every block, failed transactions and all, the operations answered add up
\* to the diffs, and related ones are the two sides of one transfer (balanceCal,
\* store.go 1124-1162; appendOperations, block_service.go 123-196).
THEOREM OperationsAddUp == Spec => []OperationsReconcile
<1>1. BlockTyped => OperationsReconcile
  <2> SUFFICES ASSUME BlockTyped PROVE OperationsReconcile OBVIOUS
  <2>1. IsBlock(block) BY TypedBlock
  <2>2. DOMAIN Stored.txns = 1..Len(block) BY <2>1, BlockAddsUp DEF Stored
  <2>3. ASSUME NEW k \in AllKeys
        PROVE  DiffOf(Stored.diffs, k)
                 = SumOf([i \in DOMAIN Stored.txns |->
                     LET ops == Operations(Stored.txns[i]) IN
                     SumOf([j \in DOMAIN ops |->
                       IF <<ops[j].acct, ops[j].contract>> = k THEN ops[j].value ELSE 0])])
    <3>1. DiffOf(Stored.diffs, k)
            = SumOf([i \in DOMAIN Stored.txns |-> OpsMoved(k, Operations(Stored.txns[i]))])
      BY <2>1, BlockAddsUp DEF Stored
    <3> QED BY <3>1, Zenon DEF OpsMoved, OpMoved
  <2>4. ASSUME NEW i \in DOMAIN Stored.txns
        PROVE  LET ops == Operations(Stored.txns[i]) IN
               \A j \in DOMAIN ops : \A r \in ops[j].related :
                 /\ 0 <= r /\ r < ops[j].index /\ ops[j].index = j - 1
                 /\ ops[r+1].value = -ops[j].value
                 /\ ops[r+1].contract = ops[j].contract
                 /\ ops[r+1].type = ops[j].type
    <3> DEFINE ops == Operations(Stored.txns[i])
    <3>1. IsOps(ops) BY <2>1, <2>2, BlockAddsUp DEF Stored
    <3> HIDE DEF ops
    <3>2. Len(ops) \in Nat /\ DOMAIN ops = 1..Len(ops) BY <3>1, ListDomain DEF IsOps
    <3>3. \A j \in DOMAIN ops : Refers(ops, j, ops[j]) BY <3>1, <3>2 DEF IsOps
    <3>4. \A j \in 1..Len(ops) : \A r \in 0..(j - 2) : 0 <= r /\ r < j - 1 BY <3>2
    <3>5. \A j \in DOMAIN ops : \A r \in ops[j].related :
                 /\ 0 <= r /\ r < ops[j].index /\ ops[j].index = j - 1
                 /\ ops[r+1].value = -ops[j].value
                 /\ ops[r+1].contract = ops[j].contract
                 /\ ops[r+1].type = ops[j].type
      BY <3>2, <3>3, <3>4 DEF Refers
    <3> QED BY <3>5 DEF ops
  <2> QED BY <2>3, <2>4, Zenon DEF OperationsReconcile
<1> QED BY <1>1, BlockIsTyped, PTL

----------------------------------------------------------------------------
(* The gas fee.                                                            *)

\* The whole units of an amount with a remainder below the unit.
LEMMA Quotient ==
  ASSUME NEW a \in Int, NEW g \in Nat \ {0}, NEW v \in 0..(g - 1)
  PROVE  (a * g + v) \div g = a
<1>1. a * g \in Int OBVIOUS
<1> DEFINE y == (a * g + v) \div g
           w == (a * g + v) % g
<1>2. y \in Int /\ w \in Int OBVIOUS
<1>3. a * g + v = g * y + w /\ 0 <= w /\ w < g BY <1>1
<1>4. PICK p \in Int, q \in Int : p = y - a /\ q = g * p /\ q = v - w BY <1>2, <1>3
<1>5. p = 0
  <2>1. ~(p > 0) BY <1>3, <1>4
  <2>2. ~(p < 0) BY <1>3, <1>4
  <2> QED BY <2>1, <2>2
<1> QED BY <1>2, <1>4, <1>5

\* An event that is read is a payer's charge for the gas just if the decoder
\* says so and the payer sent it.
LEMMA ChargeReads ==
  ASSUME NEW txn, NEW e, Readable(e), e.contract \in Tracked, Decode(e, txn.gas).ok
  PROVE  Charges(txn, e) <=>
           Decode(e, txn.gas).isGas = TRUE /\ Decode(e, txn.gas).from = txn.payer
<1> DEFINE gas == txn.gas
<1>1. Reported(e).counts = TRUE BY DecodeCounts DEF Reported
<1>2. Decode(e, gas).from = e.from BY DecodeReads
<1> DEFINE known == IF e.form = "evm" THEN Reported(e).amount % Word ELSE Reported(e).amount
<1>0. Charges(txn, e) <=>
        /\ e.contract = ONG /\ e.from = txn.payer /\ e.to = govAddr
        /\ known \div GWei = gas
  <2>1. PICK r : r = Reported(e) OBVIOUS
  <2>2. r.counts = TRUE BY <1>1, <2>1
  <2> QED BY <2>1, <2>2 DEF Charges
<1>3. CASE e.form = "evm"
  <2>1. Decode(e, gas) = DecodeEvm(e, gas) BY <1>3 DEF Decode
  <2>2. e.contract = ONG /\ e.name = "Transfer" BY <2>1 DEF DecodeEvm, NoTransfer
  <2>3. PICK p \in BOOLEAN : p = (e.to = govAddr /\ (e.amount % Word) \div GWei = gas)
    OBVIOUS
  <2>4. Decode(e, gas) = Transfer(e.from, e.to, e.amount, p)
    BY <2>1, <2>2, <2>3 DEF DecodeEvm
  <2>5. Decode(e, gas).isGas = p BY <2>4 DEF Transfer
  <2>6. Reported(e).amount = e.amount BY <1>3 DEF Reported
  <2>7. Charges(txn, e) <=> e.from = txn.payer /\ p = TRUE
    <3>1. known = e.amount % Word BY <1>3, <2>6
    <3> HIDE DEF known
    <3> QED BY <1>0, <2>2, <2>3, <3>1
  <2> QED BY <1>2, <2>5, <2>7
<1>4. CASE e.form # "evm" /\ e.contract \in {ONT, ONG}
  <2>1. Decode(e, gas) = DecodeNative(e, gas) BY <1>4 DEF Decode
  <2>2. e.form \in {"native4", "native5"} /\ e.name = "transfer"
    BY <2>1 DEF DecodeNative, NoTransfer
  <2>3. PICK p \in BOOLEAN : p = (e.contract = ONG /\ e.to = govAddr /\ e.amount = gas)
    OBVIOUS
  <2>4. PICK v : v = IF e.form = "native5" THEN e.value ELSE 0 OBVIOUS
  <2>5. Decode(e, gas) = Transfer(e.from, e.to, e.amount * GWei + v, p)
    BY <2>1, <2>2, <2>3, <2>4 DEF DecodeNative
  <2>6. Decode(e, gas).isGas = p BY <2>5 DEF Transfer
  <2>7. Reported(e).amount \div GWei = e.amount
    <3>1. GWei \in Nat \ {0} /\ e.amount \in Int /\ e.value \in 0..(GWei - 1)
      BY TransfersAssumption DEF Readable
    <3>2. Reported(e).amount = e.amount * GWei + e.value BY <2>2 DEF Reported
    <3> QED BY <3>1, <3>2, Quotient
  <2>8. Charges(txn, e) <=> e.from = txn.payer /\ p = TRUE
    <3>1. known = Reported(e).amount BY <1>4
    <3> HIDE DEF known
    <3> QED BY <1>0, <2>3, <2>7, <3>1
  <2> QED BY <1>2, <2>6, <2>8
<1>5. CASE e.form # "evm" /\ e.contract \notin {ONT, ONG}
  <2>1. Decode(e, gas) = DecodeOEP4(e) BY <1>5 DEF Decode
  <2>2. Decode(e, gas).isGas = FALSE BY <2>1 DEF DecodeOEP4, NoTransfer, Transfer
  <2>3. ~Charges(txn, e) BY <1>5 DEF Charges
  <2> QED BY <2>2, <2>3
<1> QED BY <1>3, <1>4, <1>5

\* Only events that count charge, in ONG.
LEMMA ChargesCount ==
  ASSUME NEW txn, NEW e, Charges(txn, e)
  PROVE  Reported(e).counts = TRUE /\ e.contract = ONG
BY DEF Charges, Reported

\* No transaction has two fees.
LEMMA OneFirstCharge ==
  ASSUME NEW txn, IsTxn(txn), NEW c \in FirstCharge(txn), NEW d \in FirstCharge(txn)
  PROVE  c = d
<1>1. Len(txn.notify) \in Nat /\ DOMAIN txn.notify = 1..Len(txn.notify)
  BY ListDomain DEF IsTxn
<1>2. c \in 1..Len(txn.notify) /\ d \in 1..Len(txn.notify) BY <1>1 DEF FirstCharge
<1>3. ~(c \in 1..(d - 1)) /\ ~(d \in 1..(c - 1)) BY DEF FirstCharge
<1> QED BY <1>1, <1>2, <1>3

\* The place of the next event, if it leaves a transfer, is the next one.
LEMMA PlaceGrows ==
  ASSUME NEW txn, IsTxn(txn), NEW n \in Nat
  PROVE  /\ Place(txn, n) \in Nat /\ Place(txn, 0) = 0
         /\ Place(txn, n + 1)
              = IF n + 1 \in Lasting(txn) THEN Place(txn, n) + 1 ELSE Place(txn, n)
<1> DEFINE L == Lasting(txn)
           Upto(m) == {i \in L : i <= m}
<1>1. Len(txn.notify) \in Nat /\ DOMAIN txn.notify = 1..Len(txn.notify)
  BY ListDomain DEF IsTxn
<1>2. L \subseteq 1..Len(txn.notify) BY <1>1 DEF Lasting
<1> HIDE DEF L
<1>3. IsFiniteSet(L)
  <2>1. IsFiniteSet(1..Len(txn.notify)) BY <1>1, FS_Interval
  <2> QED BY <1>2, <2>1, FS_Subset
<1>4. \A i \in L : i \in Int /\ i >= 1 BY <1>1, <1>2
<1>5. IsFiniteSet(Upto(n)) BY <1>3, FS_Subset
<1>6. Upto(0) = {} BY <1>4
<1>7. n + 1 \notin Upto(n) OBVIOUS
<1>8. Upto(n + 1) = IF n + 1 \in L THEN Upto(n) \union {n + 1} ELSE Upto(n)
  <2>1. \A i \in L : i <= n + 1 <=> (i <= n \/ i = n + 1) BY <1>4
  <2> QED BY <2>1
<1>9. \A m : Place(txn, m) = Cardinality(Upto(m)) BY DEF Place, L
<1> HIDE DEF Upto
<1>10. Cardinality(Upto(n)) \in Nat BY <1>5, FS_CardinalityType
<1>11. Cardinality(Upto(n) \union {n + 1}) = Cardinality(Upto(n)) + 1
  BY <1>5, <1>7, FS_AddElement
<1> QED BY <1>6, <1>8, <1>9, <1>10, <1>11, FS_EmptySet DEF L

\* What the loop holds after n events: it has matched the fee if it was among
\* them; its transfers are those of the lasting events, each in its place, and
\* the one of the fee is marked.
Settled(st, txn, n) ==
  /\ (\E i \in 1..n : Charges(txn, txn.notify[i])) => st.gasVerified = TRUE
  /\ st.gasVerified = TRUE => \E c \in FirstCharge(txn) : c <= n
  /\ Len(st.transfers) = Place(txn, n)
  /\ \A j \in Lasting(txn) : j <= n =>
       /\ Place(txn, j) \in 1..Len(st.transfers)
       /\ Shows(st.transfers[Place(txn, j)], txn.notify[j])
       /\ st.transfers[Place(txn, j)].isGas = TRUE <=> j \in FirstCharge(txn)
  /\ \A p \in 1..Len(st.transfers) : \E j \in Lasting(txn) : j <= n /\ p = Place(txn, j)

\* An event is kept if it lasts (checkgasVerified), and taken for the fee if it
\* is the first charge.
LEMMA KeptLasts ==
  ASSUME NEW txn, IsTxn(txn), NEW n \in Nat, n + 1 \in 1..Len(txn.notify),
         NEW st, IsState(st), Settled(st, txn, n)
  PROVE  LET e == txn.notify[n + 1] IN
         /\ Kept(st, e, txn, Tracked) <=> n + 1 \in Lasting(txn)
         /\ Kept(st, e, txn, Tracked) =>
              (XferOf(st, e, txn).isGas = TRUE <=> n + 1 \in FirstCharge(txn))
         /\ Charges(txn, e) => st.gasVerified = TRUE \/ n + 1 \in FirstCharge(txn)
<1> DEFINE e == txn.notify[n + 1]
           v == st.gasVerified
<1>1. Len(txn.notify) \in Nat /\ DOMAIN txn.notify = 1..Len(txn.notify)
  BY ListDomain DEF IsTxn
<1>2. Readable(e) BY DEF IsTxn
<1>3. v \in BOOLEAN BY DEF IsState
<1>4. FirstCharge(txn) \subseteq 1..Len(txn.notify) BY <1>1 DEF FirstCharge
<1>5. v = TRUE <=> \E c \in FirstCharge(txn) : c <= n
  <2>1. ASSUME NEW c \in FirstCharge(txn), c <= n PROVE v = TRUE
    <3>1. c \in 1..n BY <1>1, <1>4, <2>1
    <3>2. Charges(txn, txn.notify[c]) BY DEF FirstCharge
    <3> QED BY <3>1, <3>2 DEF Settled
  <2> QED BY <2>1 DEF Settled
<1>6. v = FALSE <=> \A c \in FirstCharge(txn) : n + 1 <= c
  <2>1. \A c \in FirstCharge(txn) : c \in Int BY <1>4
  <2>2. \A c \in FirstCharge(txn) : c <= n <=> ~(n + 1 <= c) BY <2>1
  <2> QED BY <1>3, <1>5, <2>2
<1>7. (n + 1 \in FirstCharge(txn)) <=> v = FALSE /\ Charges(txn, e)
  <2>1. 1..((n + 1) - 1) = 1..n OBVIOUS
  <2>2. (n + 1 \in FirstCharge(txn)) <=>
          Charges(txn, e) /\ \A i \in 1..n : ~Charges(txn, txn.notify[i])
    BY <1>1, <2>1 DEF FirstCharge
  <2>3. v = FALSE => \A i \in 1..n : ~Charges(txn, txn.notify[i]) BY DEF Settled
  <2>4. (n + 1 \in FirstCharge(txn)) => v = FALSE
    <3> SUFFICES ASSUME n + 1 \in FirstCharge(txn), v = TRUE PROVE FALSE BY <1>3
    <3>1. PICK c \in FirstCharge(txn) : c <= n BY <1>5
    <3>2. c \in 1..n BY <1>4, <3>1
    <3>3. Charges(txn, txn.notify[c]) BY DEF FirstCharge
    <3> QED BY <2>2, <3>2, <3>3
  <2> QED BY <2>2, <2>3, <2>4
<1>8. (e.contract \in Tracked /\ Decode(e, txn.gas).ok) <=> Reported(e).counts = TRUE
  <2>1. Reported(e).counts \in BOOLEAN BY DEF Reported
  <2> QED BY <1>2, <2>1, DecodeCounts
<1>9. Kept(st, e, txn, Tracked) <=> n + 1 \in Lasting(txn)
  <2>1. (n + 1 \in Lasting(txn)) <=>
          /\ Reported(e).counts = TRUE
          /\ txn.failed => e.contract = ONG /\ v = FALSE
    <3>1. Reported(e).counts \in BOOLEAN BY DEF Reported
    <3> QED BY <1>1, <1>6, <3>1 DEF Lasting
  <2>2. Kept(st, e, txn, Tracked) <=>
          /\ Reported(e).counts = TRUE
          /\ txn.failed => e.contract = ONG /\ v = FALSE
    BY <1>3, <1>8 DEF Kept, Skipped
  <2> QED BY <2>1, <2>2
<1>10. ASSUME Kept(st, e, txn, Tracked)
       PROVE  XferOf(st, e, txn).isGas = TRUE <=> n + 1 \in FirstCharge(txn)
  <2>1. e.contract \in Tracked /\ Decode(e, txn.gas).ok BY <1>10 DEF Kept
  <2>2. Charges(txn, e) <=>
          Decode(e, txn.gas).isGas = TRUE /\ Decode(e, txn.gas).from = txn.payer
    BY <1>2, <2>1, ChargeReads
  <2>3. Decode(e, txn.gas).isGas \in BOOLEAN BY <1>2, <2>1, DecodeReads
  <2>4. XferOf(st, e, txn).isGas
          = (~v /\ Decode(e, txn.gas).isGas /\ Decode(e, txn.gas).from = txn.payer)
    BY DEF XferOf, PaysGas
  <2> QED BY <1>3, <1>7, <2>2, <2>3, <2>4
<1> HIDE DEF v
<1> QED BY <1>3, <1>7, <1>9, <1>10 DEF v

\* A turn of the loop keeps to it.
LEMMA SettledStep ==
  ASSUME NEW txn, IsTxn(txn), NEW n \in Nat, n + 1 \in 1..Len(txn.notify),
         NEW st, IsState(st), Settled(st, txn, n)
  PROVE  Settled(IndexEvent(st, txn.notify[n + 1], txn, Tracked), txn, n + 1)
<1> DEFINE e == txn.notify[n + 1]
           next == IndexEvent(st, e, txn, Tracked)
           x == XferOf(st, e, txn)
           L == Lasting(txn)
           F == FirstCharge(txn)
           len == Len(st.transfers)
<1>1. Len(txn.notify) \in Nat /\ DOMAIN txn.notify = 1..Len(txn.notify)
  BY ListDomain DEF IsTxn
<1>2. Readable(e) BY DEF IsTxn
<1>3. st.gasVerified \in BOOLEAN /\ IsList(st.transfers) BY DEF IsState
<1>4. len \in Nat /\ len = Place(txn, n) BY <1>3, ListDomain DEF Settled
<1>5. Place(txn, n + 1) = IF n + 1 \in L THEN len + 1 ELSE len BY <1>4, PlaceGrows
<1>6. /\ Kept(st, e, txn, Tracked) <=> n + 1 \in L
      /\ Kept(st, e, txn, Tracked) => (x.isGas = TRUE <=> n + 1 \in F)
      /\ Charges(txn, e) => st.gasVerified = TRUE \/ n + 1 \in F
  BY KeptLasts
<1>7. L \subseteq 1..Len(txn.notify) /\ F \subseteq 1..Len(txn.notify)
  BY <1>1 DEF Lasting, FirstCharge
<1>8. \A j \in L : j <= n + 1 <=> j <= n \/ j = n + 1 BY <1>1, <1>7
<1>9. \A c \in F : c <= n => c <= n + 1 BY <1>1, <1>7
<1>10. \A i \in 1..(n + 1) : i = n + 1 \/ i \in 1..n OBVIOUS
<1>11. n + 1 \in F /\ st.gasVerified = FALSE => n + 1 \in L
  <2> SUFFICES ASSUME n + 1 \in F, st.gasVerified = FALSE PROVE n + 1 \in L OBVIOUS
  <2>1. Charges(txn, e) BY DEF FirstCharge
  <2>2. Reported(e).counts = TRUE /\ e.contract = ONG BY <2>1, ChargesCount
  <2>3. \A c \in F : n + 1 <= c
    <3> HIDE DEF F
    <3>1. \A c \in F : c = n + 1 BY OneFirstCharge DEF F
    <3> QED BY <3>1
  <2> QED BY <1>1, <2>2, <2>3 DEF Lasting
<1>12. CASE n + 1 \in L
  <2>1. /\ Recorded(x) /\ x.contract = e.contract
        /\ x.from = e.from /\ x.to = e.to /\ x.amount = Amount(e)
        /\ next.transfers = Append(st.transfers, x)
        /\ next.gasVerified = (st.gasVerified \/ x.isGas)
    BY <1>2, <1>6, <1>12, EventStep
  <2>2. Shows(x, e) BY <2>1, ReportedAmount DEF Shows
  <2>3. /\ Len(next.transfers) = len + 1 /\ next.transfers[len + 1] = x
        /\ \A j \in 1..len : next.transfers[j] = st.transfers[j]
    BY <1>3, <2>1, ListAppend
  <2>4. x.isGas \in BOOLEAN BY <2>1 DEF Recorded
  <2>5. x.isGas = TRUE <=> n + 1 \in F BY <1>6, <1>12
  <2>6. /\ \A j \in L : j <= n =>
             /\ Place(txn, j) \in 1..len
             /\ Shows(st.transfers[Place(txn, j)], txn.notify[j])
             /\ st.transfers[Place(txn, j)].isGas = TRUE <=> j \in F
        /\ \A p \in 1..len : \E j \in L : j <= n /\ p = Place(txn, j)
        /\ (\E i \in 1..n : Charges(txn, txn.notify[i])) => st.gasVerified = TRUE
        /\ st.gasVerified = TRUE => \E c \in F : c <= n
    BY DEF Settled
  <2> HIDE DEF next, x, L, F, len
  <2>7. (\E i \in 1..(n + 1) : Charges(txn, txn.notify[i])) => next.gasVerified = TRUE
    BY <1>3, <1>6, <1>10, <2>1, <2>4, <2>5, <2>6
  <2>8. next.gasVerified = TRUE => \E c \in F : c <= n + 1
    BY <1>3, <1>9, <2>1, <2>4, <2>5, <2>6
  <2>9. Len(next.transfers) = Place(txn, n + 1) BY <1>5, <1>12, <2>3
  <2>10. ASSUME NEW j \in L, j <= n + 1
         PROVE  /\ Place(txn, j) \in 1..(len + 1)
                /\ Shows(next.transfers[Place(txn, j)], txn.notify[j])
                /\ next.transfers[Place(txn, j)].isGas = TRUE <=> j \in F
    <3>1. CASE j = n + 1
      <4>1. Place(txn, j) = len + 1 BY <1>5, <1>12, <3>1
      <4> QED BY <1>4, <2>2, <2>3, <2>5, <3>1, <4>1
    <3>2. CASE j <= n
      <4>1. Place(txn, j) \in 1..len BY <2>6, <3>2
      <4>2. Place(txn, j) \in 1..(len + 1) BY <1>4, <4>1
      <4> QED BY <2>3, <2>6, <3>2, <4>1, <4>2
    <3> QED BY <1>8, <2>10, <3>1, <3>2
  <2>11. ASSUME NEW p \in 1..(len + 1)
         PROVE  \E j \in L : j <= n + 1 /\ p = Place(txn, j)
    <3>1. CASE p = len + 1 BY <1>5, <1>8, <1>12, <3>1
    <3>2. CASE p \in 1..len BY <1>8, <2>6, <3>2
    <3> QED BY <1>4, <3>1, <3>2
  <2> QED BY <2>3, <2>7, <2>8, <2>9, <2>10, <2>11 DEF Settled, L, F, next
<1>13. CASE n + 1 \notin L
  <2>1. next = st BY <1>2, <1>6, <1>13, EventStep
  <2>2. Charges(txn, e) => st.gasVerified = TRUE BY <1>3, <1>6, <1>11, <1>13
  <2>3. \A j \in L : j <= n + 1 <=> j <= n BY <1>8, <1>13
  <2> HIDE DEF next, L, F, len
  <2>4. (\E i \in 1..(n + 1) : Charges(txn, txn.notify[i])) => st.gasVerified = TRUE
    BY <1>10, <2>2 DEF Settled
  <2>5. st.gasVerified = TRUE => \E c \in F : c <= n + 1 BY <1>9 DEF Settled, F
  <2>6. Len(st.transfers) = Place(txn, n + 1) BY <1>5, <1>13 DEF len
  <2>7. \A j \in L : j <= n + 1 =>
          /\ Place(txn, j) \in 1..Len(st.transfers)
          /\ Shows(st.transfers[Place(txn, j)], txn.notify[j])
          /\ st.transfers[Place(txn, j)].isGas = TRUE <=> j \in F
    BY <2>3 DEF Settled, L, F
  <2>8. \A p \in 1..Len(st.transfers) : \E j \in L : j <= n + 1 /\ p = Place(txn, j)
    BY <2>3 DEF Settled, L
  <2> QED BY <2>1, <2>4, <2>5, <2>6, <2>7, <2>8 DEF Settled, L, F, next
<1> QED BY <1>12, <1>13

\* So does the loop over the events of a transaction.
LEMMA TxnSettled ==
  ASSUME NEW diffs, IsDiffs(diffs), NEW txn, IsTxn(txn)
  PROVE  Settled(IndexTxn(diffs, txn, Tracked), txn, Len(txn.notify))
<1> DEFINE n == Len(txn.notify)
<1>1. n \in Nat /\ DOMAIN txn.notify = 1..n BY ListDomain DEF IsTxn
<1>2. PICK f : IsRun(f, diffs, txn, Tracked) BY TxnRuns
<1> DEFINE S == {j \in 0..n : Settled(f[j], txn, j)}
<1>3. 0 \in S
  <2>1. f[0].transfers = <<>> /\ f[0].gasVerified = FALSE BY <1>2 DEF IsRun
  <2>2. 1..0 = {} /\ Len(f[0].transfers) = 0 BY <2>1
  <2>3. Place(txn, 0) = 0 BY PlaceGrows
  <2>4. \A j \in Lasting(txn) : ~(j <= 0) BY <1>1 DEF Lasting
  <2>5. Settled(f[0], txn, 0) BY <2>1, <2>2, <2>3, <2>4 DEF Settled
  <2> QED BY <1>1, <2>5
<1>4. ASSUME NEW j \in 0..(n - 1), j \in S PROVE j + 1 \in S
  <2>1. j + 1 \in 1..n /\ j + 1 \in 0..n /\ j \in 0..n /\ j \in Nat BY <1>1
  <2>2. IsState(f[j]) /\ f[j + 1] = IndexEvent(f[j], txn.notify[j + 1], txn, Tracked)
    BY <1>2, <2>1 DEF IsRun
  <2>3. Settled(f[j], txn, j) BY <1>4
  <2>4. Settled(f[j + 1], txn, j + 1) BY <2>1, <2>2, <2>3, SettledStep
  <2> QED BY <2>1, <2>4
<1> HIDE DEF S
<1>5. 0..n \subseteq S BY <1>1, <1>3, <1>4, Turns!Induction
<1>6. n \in S BY <1>1, <1>5
<1> QED BY <1>2, <1>6 DEF IsRun, S

\* And so what is stored for a transaction of the block.
LEMMA StoredSettled ==
  ASSUME BlockTyped, NEW i \in DOMAIN block
  PROVE  \E st : /\ Settled(st, block[i], Len(block[i].notify)) /\ IsState(st)
                 /\ IsTxn(block[i]) /\ Stored.txns[i] = st.transfers
<1>1. IsBlock(block) /\ i \in 1..Len(block) /\ Len(block) \in Nat BY TypedBlock
<1>2. PICK D : RunsThrough(D, block, Tracked) BY <1>1, BlockRuns
<1> DEFINE st == IndexTxn(D[i - 1], block[i], Tracked)
<1>3. i - 1 \in 0..Len(block) BY <1>1
<1>4. IsDiffs(D[i - 1]) /\ IndexBlock(block, Tracked).txns[i] = st.transfers
  BY <1>1, <1>2, <1>3 DEF RunsThrough
<1>5. IsTxn(block[i]) BY <1>1 DEF IsBlock
<1>6. Settled(st, block[i], Len(block[i].notify)) /\ IsState(st)
  BY <1>4, <1>5, TxnSettled, TxnState
<1> QED BY <1>4, <1>5, <1>6 DEF Stored

\* The fee lasts: whether or not the transaction failed, a transfer is left of
\* it.
LEMMA FirstChargeLasts ==
  ASSUME NEW txn, IsTxn(txn), NEW c \in FirstCharge(txn)
  PROVE  c \in Lasting(txn)
<1>1. Len(txn.notify) \in Nat /\ DOMAIN txn.notify = 1..Len(txn.notify)
  BY ListDomain DEF IsTxn
<1>2. c \in DOMAIN txn.notify /\ Charges(txn, txn.notify[c]) BY DEF FirstCharge
<1>3. Reported(txn.notify[c]).counts = TRUE /\ txn.notify[c].contract = ONG
  BY <1>2, ChargesCount
<1>4. \A d \in FirstCharge(txn) : c <= d
  <2>1. \A d \in FirstCharge(txn) : d = c BY OneFirstCharge
  <2> QED BY <1>1, <1>2, <2>1
<1> QED BY <1>2, <1>3, <1>4 DEF Lasting

\* What is marked as the gas of a transaction is the transfer of the first
\* event that reports the charge, and no other (checkgasVerified, store.go
\* 1165-1187).
THEOREM GasIsPaidOnce == Spec => []GasPaidOnce
<1>1. BlockTyped => GasPaidOnce
  <2> SUFFICES ASSUME BlockTyped, NEW i \in DOMAIN block
               PROVE  LET txn == block[i]
                          xfers == Stored.txns[i]
                      IN  /\ {j \in DOMAIN xfers : xfers[j].isGas}
                               = {Place(txn, c) : c \in FirstCharge(txn)}
                          /\ \A c \in FirstCharge(txn) :
                               Shows(xfers[Place(txn, c)], txn.notify[c])
    BY DEF GasPaidOnce
  <2> DEFINE txn == block[i]
             xfers == Stored.txns[i]
             n == Len(txn.notify)
  <2>1. PICK st : /\ Settled(st, txn, n) /\ IsState(st)
                  /\ IsTxn(txn) /\ xfers = st.transfers
    BY StoredSettled
  <2>2. n \in Nat /\ DOMAIN txn.notify = 1..n BY <2>1, ListDomain DEF IsTxn
  <2>3. DOMAIN xfers = 1..Len(xfers) BY <2>1, ListDomain DEF IsState
  <2>4. \A j \in DOMAIN xfers : xfers[j].isGas \in BOOLEAN
    BY <2>1, <2>3 DEF IsState, Recorded
  <2>5. \A j \in Lasting(txn) : j <= n BY <2>2 DEF Lasting
  <2> HIDE DEF txn, xfers, n
  <2>6. /\ \A j \in Lasting(txn) :
             /\ Place(txn, j) \in DOMAIN xfers
             /\ Shows(xfers[Place(txn, j)], txn.notify[j])
             /\ xfers[Place(txn, j)].isGas = TRUE <=> j \in FirstCharge(txn)
        /\ \A p \in DOMAIN xfers : \E j \in Lasting(txn) : p = Place(txn, j)
    BY <2>1, <2>3, <2>5 DEF Settled
  <2>7. \A c \in FirstCharge(txn) : c \in Lasting(txn) BY <2>1, FirstChargeLasts
  <2>8. {j \in DOMAIN xfers : xfers[j].isGas} = {Place(txn, c) : c \in FirstCharge(txn)}
    <3>1. ASSUME NEW p \in DOMAIN xfers, xfers[p].isGas
          PROVE  p \in {Place(txn, c) : c \in FirstCharge(txn)}
      <4>1. PICK j \in Lasting(txn) : p = Place(txn, j) BY <2>6
      <4>2. j \in FirstCharge(txn) BY <2>4, <2>6, <3>1, <4>1
      <4> QED BY <4>1, <4>2
    <3>2. ASSUME NEW c \in FirstCharge(txn)
          PROVE  Place(txn, c) \in {j \in DOMAIN xfers : xfers[j].isGas}
      BY <2>6, <2>7
    <3> QED BY <3>1, <3>2
  <2>9. \A c \in FirstCharge(txn) : Shows(xfers[Place(txn, c)], txn.notify[c])
    BY <2>6, <2>7
  <2> QED BY <2>8, <2>9 DEF txn, xfers
<1> QED BY <1>1, BlockIsTyped, PTL

\* Of every failed transaction exactly its transfers of ONG up to its fee are
\* stored, in their order, and the fee alone if it comes first
\* (checkgasVerified, store.go 1166-1176).
THEOREM FailureStopsAtFee == Spec => []FailureEndsAtFee
<1>1. BlockTyped => FailureEndsAtFee
  <2> SUFFICES ASSUME BlockTyped, NEW i \in DOMAIN block, block[i].failed
               PROVE  LET txn == block[i]
                          xfers == Stored.txns[i]
                      IN  /\ Len(xfers) = Cardinality(Lasting(txn))
                          /\ \A j \in Lasting(txn) :
                               Shows(xfers[Place(txn, j)], txn.notify[j])
                          /\ 1 \in FirstCharge(txn) => Len(xfers) = 1 /\ xfers[1].isGas
    BY DEF FailureEndsAtFee
  <2> DEFINE txn == block[i]
             xfers == Stored.txns[i]
             n == Len(txn.notify)
             L == Lasting(txn)
  <2>1. PICK st : /\ Settled(st, txn, n) /\ IsState(st)
                  /\ IsTxn(txn) /\ xfers = st.transfers
    BY StoredSettled
  <2>2. n \in Nat /\ DOMAIN txn.notify = 1..n BY <2>1, ListDomain DEF IsTxn
  <2>3. \A j \in L : j \in 1..n BY <2>2 DEF Lasting
  <2>4. {j \in L : j <= n} = L BY <2>3
  <2>5. Len(xfers) = Cardinality(L) BY <2>1, <2>4 DEF Settled, Place
  <2>6. ASSUME 1 \in FirstCharge(txn) PROVE L = {1} /\ Place(txn, 1) = 1
    <3>1. 1 \in L BY <2>1, <2>6, FirstChargeLasts
    <3>2. \A j \in L : j <= 1 BY <2>6 DEF Lasting
    <3>3. L = {1} BY <2>3, <3>1, <3>2
    <3>4. {j \in L : j <= 1} = {1} BY <3>3
    <3> QED BY <3>3, <3>4, FS_Singleton DEF Place
  <2>7. /\ \A j \in L : Shows(xfers[Place(txn, j)], txn.notify[j])
        /\ \A j \in L : xfers[Place(txn, j)].isGas = TRUE <=> j \in FirstCharge(txn)
    BY <2>1, <2>3 DEF Settled
  <2>8. 1 \in FirstCharge(txn) => Len(xfers) = 1 /\ xfers[1].isGas
    <3> HIDE DEF xfers, L
    <3>1. ASSUME 1 \in FirstCharge(txn) PROVE Len(xfers) = 1 /\ xfers[1].isGas = TRUE
      BY <2>5, <2>6, <2>7, <3>1, FS_Singleton
    <3> QED BY <3>1
  <2> QED BY <2>5, <2>7, <2>8
<1> QED BY <1>1, BlockIsTyped, PTL

----------------------------------------------------------------------------
(* Fewer tokens.                                                           *)

\* Of diffs, those of the tokens of T.
Only(d, T) == [k \in {k \in DOMAIN d : k[2] \in T} |-> d[k]]

\* A diff is added to those of the tokens of T if its token is one of them.
LEMMA OnlyAdds ==
  ASSUME NEW d, IsDiffs(d), NEW T, NEW acct, NEW contract, NEW n \in Int
  PROVE  Only(AddDiff(d, acct, contract, n), T)
           = IF contract \in T THEN AddDiff(Only(d, T), acct, contract, n) ELSE Only(d, T)
<1> DEFINE j == <<acct, contract>>
           e == AddDiff(d, acct, contract, n)
           o == Only(d, T)
           p == AddDiff(o, acct, contract, n)
<1>1. CASE acct = nullAddr BY <1>1 DEF AddDiff
<1>2. CASE acct # nullAddr
  <2>1. j[2] = contract OBVIOUS
  <2>2. e = [x \in DOMAIN d \union {j} |->
               (IF x \in DOMAIN d THEN d[x] ELSE 0) + (IF x = j THEN n ELSE 0)]
    BY <1>2 DEF AddDiff
  <2>3. p = [x \in DOMAIN o \union {j} |->
               (IF x \in DOMAIN o THEN o[x] ELSE 0) + (IF x = j THEN n ELSE 0)]
    BY <1>2 DEF AddDiff
  <2>4. o = [x \in {x \in DOMAIN d : x[2] \in T} |-> d[x]] BY DEF Only
  <2>5. Only(e, T) = [x \in {x \in DOMAIN e : x[2] \in T} |-> e[x]] BY DEF Only
  <2> HIDE DEF j, e, o, p
  <2>6. DOMAIN o = {x \in DOMAIN d : x[2] \in T} BY <2>4
  <2>7. DOMAIN Only(e, T) = {x \in DOMAIN d \union {j} : x[2] \in T} BY <2>2, <2>5
  <2>8. \A x \in DOMAIN d : d[x] \in Int BY DEF IsDiffs
  <2>9. CASE contract \in T
    <3>1. DOMAIN p = DOMAIN Only(e, T) BY <2>1, <2>3, <2>6, <2>7, <2>9
    <3>2. ASSUME NEW x \in DOMAIN p PROVE p[x] = Only(e, T)[x]
      <4>1. x \in DOMAIN d \union {j} /\ x[2] \in T /\ x \in DOMAIN e
        BY <2>2, <2>7, <3>1
      <4>2. x \in DOMAIN o <=> x \in DOMAIN d BY <2>6, <4>1
      <4>3. x \in DOMAIN o => o[x] = d[x] BY <2>4
      <4>4. Only(e, T)[x] = e[x] BY <2>5, <4>1
      <4>5. e[x] = (IF x \in DOMAIN d THEN d[x] ELSE 0) + (IF x = j THEN n ELSE 0)
        BY <2>2, <4>1
      <4>6. p[x] = (IF x \in DOMAIN o THEN o[x] ELSE 0) + (IF x = j THEN n ELSE 0)
        BY <2>3, <3>2
      <4> QED BY <4>2, <4>3, <4>4, <4>5, <4>6
    <3>3. p = Only(e, T) BY <2>3, <2>5, <3>1, <3>2
    <3> QED BY <2>9, <3>3 DEF e, p, o
  <2>10. CASE contract \notin T
    <3>1. DOMAIN o = DOMAIN Only(e, T) BY <2>1, <2>6, <2>7, <2>10
    <3>2. ASSUME NEW x \in DOMAIN o PROVE o[x] = Only(e, T)[x]
      <4>1. x \in DOMAIN d /\ x[2] \in T /\ x # j /\ x \in DOMAIN e
        BY <2>1, <2>2, <2>6, <2>10, <3>2
      <4>2. o[x] = d[x] /\ Only(e, T)[x] = e[x] /\ d[x] \in Int
        BY <2>4, <2>5, <2>6, <2>8, <3>2, <4>1
      <4>3. e[x] = d[x] + 0 BY <2>2, <4>1
      <4> QED BY <4>2, <4>3
    <3>3. o = Only(e, T) BY <2>4, <2>5, <3>1, <3>2
    <3> QED BY <2>10, <3>3 DEF e, o
  <2> QED BY <2>9, <2>10
<1> QED BY <1>1, <1>2

\* So are the two of a transfer.
LEMMA OnlyCals ==
  ASSUME NEW d, IsDiffs(d), NEW T, NEW contract, NEW x, x.amount \in Int
  PROVE  Only(BalanceCal(d, contract, x), T)
           = IF contract \in T THEN BalanceCal(Only(d, T), contract, x) ELSE Only(d, T)
<1>1. PICK a \in Int : a = x.amount OBVIOUS
<1>2. PICK n \in Int : n = -a OBVIOUS
<1> DEFINE m == AddDiff(d, x.from, contract, n)
<1>3. IsDiffs(m) BY AddDiffAdds
<1>4. Only(m, T) = IF contract \in T THEN AddDiff(Only(d, T), x.from, contract, n)
                   ELSE Only(d, T)
  BY OnlyAdds
<1> HIDE DEF m
<1>5. Only(AddDiff(m, x.to, contract, a), T)
        = IF contract \in T THEN AddDiff(Only(m, T), x.to, contract, a) ELSE Only(m, T)
  BY <1>3, OnlyAdds
<1>6. BalanceCal(d, contract, x) = AddDiff(m, x.to, contract, a)
  BY <1>1, <1>2 DEF BalanceCal, m
<1>7. BalanceCal(Only(d, T), contract, x)
        = AddDiff(AddDiff(Only(d, T), x.from, contract, n), x.to, contract, a)
  BY <1>1, <1>2 DEF BalanceCal
<1> QED BY <1>4, <1>5, <1>6, <1>7

\* Only ONG is taken for a fee.
LEMMA FeeInONG ==
  ASSUME NEW e, NEW gas, Decode(e, gas).ok, Decode(e, gas).isGas
  PROVE  e.contract = ONG
<1>1. CASE e.form = "evm"
  BY <1>1 DEF Decode, DecodeEvm, NoTransfer
<1>2. CASE e.form # "evm" /\ e.contract \in {ONT, ONG}
  <2>1. Decode(e, gas) = DecodeNative(e, gas) BY <1>2 DEF Decode
  <2>2. PICK p \in BOOLEAN : p = (e.contract = ONG /\ e.to = govAddr /\ e.amount = gas)
    OBVIOUS
  <2>3. PICK a : a = e.amount * GWei + (IF e.form = "native5" THEN e.value ELSE 0)
    OBVIOUS
  <2>4. Decode(e, gas) = Transfer(e.from, e.to, a, p)
    BY <2>1, <2>2, <2>3 DEF DecodeNative, NoTransfer
  <2>5. Decode(e, gas).isGas = p BY <2>4 DEF Transfer
  <2> QED BY <2>2, <2>5
<1>3. CASE e.form # "evm" /\ e.contract \notin {ONT, ONG}
  BY <1>3 DEF Decode, DecodeOEP4, Transfer, NoTransfer
<1> QED BY <1>1, <1>2, <1>3

\* What a run with the tokens of T holds, beside one with all that are tracked.
Beside(su, st, T) ==
  su.diffs = Only(st.diffs, T) /\ (ONG \in T => su.gasVerified = st.gasVerified)

\* A turn of the loop takes both runs on alike: an event of a token of T is
\* kept in one if it is in the other, for only ONG can pay gas.
LEMMA BesideStep ==
  ASSUME NEW st, IsState(st), NEW su, IsState(su), NEW T \in SUBSET Tracked,
         Beside(su, st, T), NEW e, Readable(e), NEW txn
  PROVE  Beside(IndexEvent(su, e, txn, T), IndexEvent(st, e, txn, Tracked), T)
<1> DEFINE nt == IndexEvent(st, e, txn, Tracked)
           nu == IndexEvent(su, e, txn, T)
           x == XferOf(st, e, txn)
           y == XferOf(su, e, txn)
<1>1. (~Kept(st, e, txn, Tracked) => nt = st) /\ (~Kept(su, e, txn, T) => nu = su)
  BY EventStep
<1>2. Kept(st, e, txn, Tracked) =>
        /\ x.amount \in Int /\ x.from = e.from /\ x.to = e.to /\ x.amount = Amount(e)
        /\ nt.gasVerified = (st.gasVerified \/ x.isGas)
        /\ nt.diffs = BalanceCal(st.diffs, e.contract, x)
  BY EventStep DEF Recorded
<1>3. Kept(su, e, txn, T) =>
        /\ y.amount \in Int /\ y.from = e.from /\ y.to = e.to /\ y.amount = Amount(e)
        /\ nu.gasVerified = (su.gasVerified \/ y.isGas)
        /\ nu.diffs = BalanceCal(su.diffs, e.contract, y)
  BY EventStep DEF Recorded
<1>4. (Decode(e, txn.gas).ok /\ Decode(e, txn.gas).isGas) => e.contract = ONG
  BY FeeInONG
<1>5. (x.isGas => Decode(e, txn.gas).isGas) /\ (y.isGas => Decode(e, txn.gas).isGas)
  BY DEF XferOf, PaysGas
<1>6. st.gasVerified = su.gasVerified => x.isGas = y.isGas BY DEF XferOf
<1>7. (Kept(st, e, txn, Tracked) \/ Kept(su, e, txn, T)) => Decode(e, txn.gas).ok
  BY DEF Kept
<1>8. IsDiffs(st.diffs) /\ st.gasVerified \in BOOLEAN /\ su.gasVerified \in BOOLEAN
  BY DEF IsState
<1>9. x.isGas \in BOOLEAN /\ y.isGas \in BOOLEAN BY DEF XferOf, PaysGas
<1>10. e.contract \in T => (Kept(st, e, txn, Tracked) <=> Kept(su, e, txn, T))
  BY DEF Kept, Skipped, Beside
<1>11. e.contract \notin T => ~Kept(su, e, txn, T) BY DEF Kept
<1> HIDE DEF nt, nu, x, y
<1>12. CASE ~Kept(st, e, txn, Tracked)
  BY <1>1, <1>10, <1>11, <1>12 DEF nt, nu
<1>13. CASE Kept(st, e, txn, Tracked)
  <2>1. Only(nt.diffs, T) = IF e.contract \in T
                            THEN BalanceCal(Only(st.diffs, T), e.contract, x)
                            ELSE Only(st.diffs, T)
    BY <1>2, <1>8, <1>13, OnlyCals
  <2>2. CASE e.contract \in T
    <3>1. Kept(su, e, txn, T) BY <1>10, <1>13, <2>2
    <3>2. BalanceCal(su.diffs, e.contract, y) = BalanceCal(su.diffs, e.contract, x)
      BY <1>2, <1>3, <1>13, <3>1 DEF BalanceCal
    <3>3. nu.diffs = Only(nt.diffs, T) BY <1>3, <2>1, <2>2, <3>1, <3>2 DEF Beside
    <3>4. ONG \in T => nu.gasVerified = nt.gasVerified
      BY <1>2, <1>3, <1>6, <1>13, <3>1 DEF Beside
    <3> QED BY <3>3, <3>4 DEF Beside, nu, nt
  <2>3. CASE e.contract \notin T
    <3>1. nu = su BY <1>1, <1>11, <2>3
    <3>2. ONG \in T => ~x.isGas BY <1>4, <1>5, <1>7, <1>13, <2>3
    <3>3. ONG \in T => nt.gasVerified = st.gasVerified BY <1>2, <1>8, <1>13, <3>2
    <3> QED BY <2>1, <2>3, <3>1, <3>3 DEF Beside, nu, nt
  <2> QED BY <2>2, <2>3
<1> QED BY <1>12, <1>13

\* So the diffs after a transaction,
LEMMA TxnBeside ==
  ASSUME NEW d, IsDiffs(d), NEW T \in SUBSET Tracked, IsDiffs(Only(d, T)),
         NEW txn, IsTxn(txn)
  PROVE  IndexTxn(Only(d, T), txn, T).diffs = Only(IndexTxn(d, txn, Tracked).diffs, T)
<1> DEFINE n == Len(txn.notify)
<1>1. n \in Nat BY ListDomain DEF IsTxn
<1>2. PICK f : IsRun(f, d, txn, Tracked) BY TxnRuns
<1>3. PICK g : IsRun(g, Only(d, T), txn, T) BY TxnRuns
<1> DEFINE S == {j \in 0..n : Beside(g[j], f[j], T)}
<1>4. 0 \in S
  <2>1. f[0].diffs = d /\ f[0].gasVerified = FALSE BY <1>2 DEF IsRun
  <2>2. g[0].diffs = Only(d, T) /\ g[0].gasVerified = FALSE BY <1>3 DEF IsRun
  <2>3. Beside(g[0], f[0], T)
    <3>1. g[0].gasVerified = f[0].gasVerified BY <2>1, <2>2
    <3> QED BY <2>1, <2>2, <3>1, Zenon DEF Beside
  <2> QED BY <1>1, <2>3
<1>5. ASSUME NEW j \in 0..(n - 1), j \in S PROVE j + 1 \in S
  <2>1. j + 1 \in 1..n /\ j + 1 \in 0..n /\ j \in 0..n BY <1>1
  <2>2. Readable(txn.notify[j + 1]) BY <2>1 DEF IsTxn
  <2>3. IsState(f[j]) /\ f[j + 1] = IndexEvent(f[j], txn.notify[j + 1], txn, Tracked)
    BY <1>2, <2>1 DEF IsRun
  <2>4. IsState(g[j]) /\ g[j + 1] = IndexEvent(g[j], txn.notify[j + 1], txn, T)
    BY <1>3, <2>1 DEF IsRun
  <2>5. Beside(g[j + 1], f[j + 1], T) BY <1>5, <2>2, <2>3, <2>4, BesideStep
  <2> QED BY <2>1, <2>5
<1> HIDE DEF S
<1>6. 0..n \subseteq S BY <1>1, <1>4, <1>5, Turns!Induction
<1>7. Beside(g[n], f[n], T)
  <2>1. n \in S BY <1>1, <1>6
  <2> QED BY <2>1 DEF S
<1> QED BY <1>2, <1>3, <1>7 DEF IsRun, Beside

\* and after a block, are those of the tokens of T.
LEMMA BlockBeside ==
  ASSUME NEW b, IsBlock(b), NEW T \in SUBSET Tracked
  PROVE  IndexBlock(b, T).diffs = Only(IndexBlock(b, Tracked).diffs, T)
<1> DEFINE n == Len(b)
<1>1. n \in Nat BY ListDomain DEF IsBlock
<1>2. PICK D : RunsThrough(D, b, Tracked) BY BlockRuns
<1>3. PICK E : RunsThrough(E, b, T) BY BlockRuns
<1> DEFINE S == {i \in 0..n : E[i] = Only(D[i], T)}
<1>4. 0 \in S
  <2>1. D[0] = <<>> /\ E[0] = <<>> BY <1>2, <1>3 DEF RunsThrough
  <2>2. Only(<<>>, T) = <<>>
    <3>0. <<>> = [k \in DOMAIN <<>> |-> <<>>[k]] OBVIOUS
    <3>1. PICK d : d = <<>> /\ DOMAIN d = {} /\ d = [k \in DOMAIN d |-> d[k]]
      BY <3>0, EmptyList
    <3>2. {k \in DOMAIN d : k[2] \in T} = {} BY <3>1
    <3>3. Only(d, T) = [k \in {} |-> d[k]] BY <3>2 DEF Only
    <3> QED BY <3>1, <3>3
  <2> QED BY <1>1, <2>1, <2>2
<1>5. ASSUME NEW i \in 0..(n - 1), i \in S PROVE i + 1 \in S
  <2>1. i + 1 \in 1..n /\ i + 1 \in 0..n /\ i \in 0..n /\ (i + 1) - 1 = i BY <1>1
  <2>2. IsDiffs(D[i]) /\ D[i + 1] = IndexTxn(D[i], b[i + 1], Tracked).diffs
    BY <1>2, <2>1 DEF RunsThrough
  <2>3. IsDiffs(E[i]) /\ E[i + 1] = IndexTxn(E[i], b[i + 1], T).diffs
    BY <1>3, <2>1 DEF RunsThrough
  <2>4. IsTxn(b[i + 1]) BY <2>1 DEF IsBlock
  <2>5. E[i] = Only(D[i], T) BY <1>5
  <2>6. E[i + 1] = Only(D[i + 1], T) BY <2>2, <2>3, <2>4, <2>5, TxnBeside
  <2> QED BY <2>1, <2>6
<1> HIDE DEF S
<1>6. 0..n \subseteq S BY <1>1, <1>4, <1>5, Blocks!Induction
<1>7. E[n] = Only(D[n], T)
  <2>1. n \in S BY <1>1, <1>6
  <2> QED BY <2>1 DEF S
<1> QED BY <1>2, <1>3, <1>7 DEF RunsThrough

\* Whichever of the tokens are tracked, their diffs are the same (store.go
\* 186-189 and 1166-1176): what StoreDB takes for granted of Changes.
THEOREM TokensStayApart == Spec => []TokensAreIndependent
<1>1. BlockTyped => TokensAreIndependent
  <2> SUFFICES ASSUME BlockTyped, NEW T \in SUBSET Tracked
               PROVE  IndexBlock(block, T).diffs
                 = [k \in {k \in DOMAIN Stored.diffs : k[2] \in T} |-> Stored.diffs[k]]
    BY DEF TokensAreIndependent
  <2>1. IndexBlock(block, T).diffs = Only(Stored.diffs, T)
    BY TypedBlock, BlockBeside DEF Stored
  <2> QED BY <2>1 DEF Only
<1> QED BY <1>1, BlockIsTyped, PTL

----------------------------------------------------------------------------
(* Which balances a block changes.                                         *)

\* Both ends of the transfers of a transaction are accounts of A, or no account.
Among(A, txn) ==
  \A j \in 1..Len(txn.notify) :
    /\ txn.notify[j].from \in A \union {nullAddr}
    /\ txn.notify[j].to \in A \union {nullAddr}

\* A transfer between accounts of A changes no balance but theirs.
LEMMA CalKeys ==
  ASSUME NEW d, NEW A, NEW T, DOMAIN d \subseteq A \X T, NEW contract \in T, NEW x,
         x.from \in A \union {nullAddr}, x.to \in A \union {nullAddr}
  PROVE  DOMAIN BalanceCal(d, contract, x) \subseteq A \X T
<1>1. ASSUME NEW e, DOMAIN e \subseteq A \X T, NEW a \in A \union {nullAddr}, NEW n
      PROVE  DOMAIN AddDiff(e, a, contract, n) \subseteq A \X T
  <2>1. CASE a = nullAddr BY <1>1, <2>1 DEF AddDiff
  <2>2. CASE a # nullAddr
    <3>1. <<a, contract>> \in A \X T BY <2>2
    <3>2. DOMAIN AddDiff(e, a, contract, n) = DOMAIN e \union {<<a, contract>>}
      BY <2>2 DEF AddDiff
    <3> QED BY <1>1, <3>1, <3>2
  <2> QED BY <2>1, <2>2
<1> DEFINE m == AddDiff(d, x.from, contract, -x.amount)
<1>2. DOMAIN m \subseteq A \X T BY <1>1
<1> HIDE DEF m
<1>3. DOMAIN AddDiff(m, x.to, contract, x.amount) \subseteq A \X T BY <1>1, <1>2
<1> QED BY <1>3 DEF BalanceCal, m

\* Nor does a transaction,
LEMMA TxnKeys ==
  ASSUME NEW d, IsDiffs(d), NEW A, NEW T, DOMAIN d \subseteq A \X T,
         NEW txn, IsTxn(txn), Among(A, txn)
  PROVE  DOMAIN IndexTxn(d, txn, T).diffs \subseteq A \X T
<1> DEFINE n == Len(txn.notify)
<1>1. n \in Nat BY ListDomain DEF IsTxn
<1>2. PICK f : IsRun(f, d, txn, T) BY TxnRuns
<1> DEFINE S == {j \in 0..n : DOMAIN f[j].diffs \subseteq A \X T}
<1>3. 0 \in S
  <2>1. f[0].diffs = d BY <1>2 DEF IsRun
  <2> QED BY <1>1, <2>1
<1>4. ASSUME NEW j \in 0..(n - 1), j \in S PROVE j + 1 \in S
  <2>1. j + 1 \in 1..n /\ j + 1 \in 0..n /\ j \in 0..n BY <1>1
  <2> DEFINE e == txn.notify[j + 1]
             x == XferOf(f[j], e, txn)
  <2>2. Readable(e) BY <2>1 DEF IsTxn
  <2>3. IsState(f[j]) /\ f[j + 1] = IndexEvent(f[j], e, txn, T)
    BY <1>2, <2>1 DEF IsRun
  <2>4. e.from \in A \union {nullAddr} /\ e.to \in A \union {nullAddr}
    BY <2>1 DEF Among
  <2>5. DOMAIN f[j].diffs \subseteq A \X T BY <1>4
  <2> HIDE DEF e
  <2>6. CASE Kept(f[j], e, txn, T)
    <3>1. /\ x.from = e.from /\ x.to = e.to
          /\ f[j + 1].diffs = BalanceCal(f[j].diffs, e.contract, x)
      BY <2>2, <2>3, <2>6, EventStep
    <3>2. e.contract \in T BY <2>6 DEF Kept
    <3> HIDE DEF x
    <3>3. DOMAIN f[j + 1].diffs \subseteq A \X T BY <2>4, <2>5, <3>1, <3>2, CalKeys
    <3> QED BY <2>1, <3>3
  <2>7. CASE ~Kept(f[j], e, txn, T)
    <3>1. f[j + 1] = f[j] BY <2>2, <2>3, <2>7, EventStep
    <3> QED BY <2>1, <2>5, <3>1
  <2> QED BY <2>6, <2>7
<1> HIDE DEF S
<1>5. 0..n \subseteq S BY <1>1, <1>3, <1>4, Turns!Induction
<1>6. DOMAIN f[n].diffs \subseteq A \X T
  <2>1. n \in S BY <1>1, <1>5
  <2> QED BY <2>1 DEF S
<1> QED BY <1>2, <1>6 DEF IsRun

\* or a block, and what it adds to each of them is an integer.
LEMMA BlockKeys ==
  ASSUME NEW b, IsBlock(b), NEW A, NEW T, \A i \in 1..Len(b) : Among(A, b[i])
  PROVE  IsDiffs(IndexBlock(b, T).diffs) /\ DOMAIN IndexBlock(b, T).diffs \subseteq A \X T
<1> DEFINE n == Len(b)
<1>1. n \in Nat BY ListDomain DEF IsBlock
<1>2. PICK D : RunsThrough(D, b, T) BY BlockRuns
<1> DEFINE S == {i \in 0..n : DOMAIN D[i] \subseteq A \X T}
<1>3. 0 \in S
  <2>1. DOMAIN D[0] = {} BY <1>2, EmptyList DEF RunsThrough
  <2> QED BY <1>1, <2>1
<1>4. ASSUME NEW i \in 0..(n - 1), i \in S PROVE i + 1 \in S
  <2>1. i + 1 \in 1..n /\ i + 1 \in 0..n /\ i \in 0..n /\ (i + 1) - 1 = i BY <1>1
  <2>2. IsDiffs(D[i]) /\ D[i + 1] = IndexTxn(D[i], b[i + 1], T).diffs
    BY <1>2, <2>1 DEF RunsThrough
  <2>3. IsTxn(b[i + 1]) /\ Among(A, b[i + 1]) BY <2>1 DEF IsBlock
  <2>4. DOMAIN D[i] \subseteq A \X T BY <1>4
  <2>5. DOMAIN D[i + 1] \subseteq A \X T BY <2>2, <2>3, <2>4, TxnKeys
  <2> QED BY <2>1, <2>5
<1> HIDE DEF S
<1>5. 0..n \subseteq S BY <1>1, <1>3, <1>4, Blocks!Induction
<1>6. n \in S /\ n \in 0..n BY <1>1, <1>5
<1>7. DOMAIN D[n] \subseteq A \X T BY <1>6 DEF S
<1>8. IsDiffs(D[n]) BY <1>2, <1>6 DEF RunsThrough
<1> QED BY <1>2, <1>7, <1>8 DEF RunsThrough

----------------------------------------------------------------------------
(* A chain of such blocks, and what StoreDB supposes of one.               *)

CONSTANTS
  MaxHeight, Accounts, Hashes, ZeroHash, NoBlock, BlockHash, TxnHashes, TxnsOf,
  OnChain,      \* as in StoreDB
  Chain         \* the block at each height

\* What is indexed at a height with the tokens of T.
DiffsAt(h, T) == IndexBlock(Chain[h], T).diffs

\* The chain as StoreDB has it: what it takes for given of every block is what
\* the loops of Transfers make of the block's events.
Store == INSTANCE StoreDB
  WITH Contracts <- Tracked,
       Touched   <- [h \in 0..MaxHeight |-> DOMAIN DiffsAt(h, Tracked)],
       Diff      <- [h \in 0..MaxHeight |->
                       [k \in Accounts \X Tracked |-> DiffOf(DiffsAt(h, Tracked), k)]]

\* The ledger: the blocks hold events of any form, amount and order between the
\* accounts; of a failed transaction the charge for its gas is left; and a
\* balance changes by what the events of the block moved, never below zero.
LedgerRuns ==
  /\ MaxHeight \in Nat
  /\ \A h \in 0..MaxHeight :
       /\ IsBlock(Chain[h]) /\ FailuresCharged(Chain[h])
       /\ \A i \in 1..Len(Chain[h]) : Among(Accounts, Chain[h][i])
  /\ OnChain \in [Accounts \X Tracked -> [0..MaxHeight -> Nat]]
  /\ \A k \in Accounts \X Tracked, h \in 0..MaxHeight :
       OnChain[k][h] = (IF h = 0 THEN 0 ELSE OnChain[k][h-1]) + BlockMoved(k, Chain[h])

\* On every chain of such a ledger the assumption under which the store is
\* right about every balance holds: the diffs it adds, made by decodeTransfer,
\* checkgasVerified and balanceCal (store.go 163-243 and 881-1187), account for
\* the whole change of every balance between a block and its parent.
THEOREM EventsAreFaithful ==
  ASSUME LedgerRuns
  PROVE  Store!FaithfulEvents
<1> DEFINE K == Accounts \X Tracked
           H == 0..MaxHeight
           touched == [h \in H |-> DOMAIN DiffsAt(h, Tracked)]
           diff == [h \in H |-> [k \in K |-> DiffOf(DiffsAt(h, Tracked), k)]]
<1>1. ASSUME NEW h \in H
      PROVE  IsDiffs(DiffsAt(h, Tracked)) /\ DOMAIN DiffsAt(h, Tracked) \subseteq K
  BY BlockKeys DEF LedgerRuns, DiffsAt
<1>2. touched \in [H -> SUBSET K]
  <2> HIDE DEF H, K
  <2> QED BY <1>1
<1>3. ASSUME NEW h \in H, NEW k \in K PROVE DiffOf(DiffsAt(h, Tracked), k) \in Int
  <2> HIDE DEF H, K
  <2> QED BY <1>1, DiffIsInt
<1>4. diff \in [H -> [K -> Int]]
  <2> HIDE DEF H, K
  <2> QED BY <1>3
<1>5. ASSUME NEW k \in K, NEW h \in H
      PROVE  OnChain[k][h] = (IF h = 0 THEN 0 ELSE OnChain[k][h-1])
                               + (IF k \in touched[h] THEN diff[h][k] ELSE 0)
  <2>1. OnChain[k][h] = (IF h = 0 THEN 0 ELSE OnChain[k][h-1]) + BlockMoved(k, Chain[h])
    BY DEF LedgerRuns
  <2>2. DiffOf(DiffsAt(h, Tracked), k) = BlockMoved(k, Chain[h])
    <3>1. k = <<k[1], k[2]>> OBVIOUS
    <3>2. IsBlock(Chain[h]) /\ FailuresCharged(Chain[h]) BY DEF LedgerRuns
    <3> QED BY <3>1, <3>2, BlockMoves DEF DiffsAt
  <2>3. touched[h] = DOMAIN DiffsAt(h, Tracked) /\ diff[h][k] = DiffOf(DiffsAt(h, Tracked), k)
    OBVIOUS
  <2> HIDE DEF touched, diff
  <2>4. (IF k \in touched[h] THEN diff[h][k] ELSE 0) = DiffOf(DiffsAt(h, Tracked), k)
    BY <2>3 DEF DiffOf
  <2> QED BY <2>1, <2>2, <2>4
<1>6. OnChain \in [K -> [H -> Nat]] BY DEF LedgerRuns
<1>7. Store!Keys = K /\ Store!Heights = H BY DEF Store!Keys, Store!Heights
<1>8. /\ touched \in [Store!Heights -> SUBSET Store!Keys]
      /\ diff \in [Store!Heights -> [Store!Keys -> Int]]
      /\ OnChain \in [Store!Keys -> [Store!Heights -> Nat]]
      /\ \A k \in Store!Keys, h \in Store!Heights :
           OnChain[k][h] = (IF h = 0 THEN 0 ELSE OnChain[k][h-1])
                             + (IF k \in touched[h] THEN diff[h][k] ELSE 0)
  <2> HIDE DEF K, H, touched, diff
  <2> QED BY <1>2, <1>4, <1>5, <1>6, <1>7
<1> QED BY <1>8, Zenon DEF Store!FaithfulEvents

\* What setBlock writes for a block read with the tokens of a configuration,
\* Changes and Diff of StoreDB, is what the loops make of the block's events
\* with those tokens (store.go 186-189).
THEOREM ChangesAreIndexed ==
  ASSUME LedgerRuns, NEW h \in 0..MaxHeight, NEW T \in SUBSET Tracked
  PROVE  /\ DOMAIN DiffsAt(h, T) = Store!Changes(h, T)
         /\ \A acct : Store!WriteAccounts(acct, h, T)
              = [k \in Store!Keys |->
                   IF k \in DOMAIN DiffsAt(h, T)
                   THEN [acct[k] EXCEPT ![h] =
                           Store!Magnitude(Store!PrevBalance(acct[k], h) + DiffsAt(h, T)[k])]
                   ELSE acct[k]]
<1> DEFINE d == DiffsAt(h, Tracked)
           t == DiffsAt(h, T)
           diff == [i \in 0..MaxHeight |->
                      [k \in Accounts \X Tracked |-> DiffOf(DiffsAt(i, Tracked), k)]]
<1>1. IsBlock(Chain[h]) BY DEF LedgerRuns
<1>2. t = Only(d, T) BY <1>1, BlockBeside DEF DiffsAt
<1>3. DOMAIN d \subseteq Accounts \X Tracked
  BY <1>1, BlockKeys DEF LedgerRuns, DiffsAt
<1>4. Store!Changes(h, T) = {k \in DOMAIN d : k[2] \in T} BY DEF Store!Changes
<1>5. Store!Keys = Accounts \X Tracked BY DEF Store!Keys
<1>6. \A k \in Store!Keys : diff[h][k] = DiffOf(d, k) BY <1>5
<1>7. \A acct : Store!WriteAccounts(acct, h, T)
        = [k \in Store!Keys |->
             IF k \in Store!Changes(h, T)
             THEN [acct[k] EXCEPT ![h] = Store!Magnitude(Store!PrevBalance(acct[k], h) + diff[h][k])]
             ELSE acct[k]]
  BY Zenon DEF Store!WriteAccounts
<1> HIDE DEF d, t, diff
<1>8. DOMAIN t = Store!Changes(h, T) BY <1>2, <1>4 DEF Only
<1>9. \A k \in DOMAIN t : k \in Store!Keys /\ diff[h][k] = t[k]
  BY <1>2, <1>3, <1>5, <1>6 DEF Only, DiffOf
<1> QED BY <1>7, <1>8, <1>9 DEF t
=============================================================================
