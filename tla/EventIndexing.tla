--------------------------- MODULE EventIndexing ---------------------------
(***************************************************************************)
(* The node executes transactions one by one and each emits its events;    *)
(* the block they form is indexed by the operators of Transfers.  Every    *)
(* state is a block the ledger may hold, and every property compares what  *)
(* is stored for it with what happened in it.                              *)
(***************************************************************************)
EXTENDS Transfers

CONSTANTS
  Tracked,      \* the tokens of the configuration
  Payers,       \* who pays for transactions
  Gas,          \* the amounts of gas consumed
  Events,       \* the events a transaction may emit
  MaxTxns, MaxEvents      \* bounds on the block

\* The node emits no negative amount of a native contract: decodeTransfer ends
\* the process at one (store.go 947-952 and 971-976).
ASSUME EventAssumption ==
  /\ MaxTxns \in Nat /\ MaxEvents \in Nat
  /\ \A e \in Events : /\ Readable(e)
                       /\ e.contract \in {ONG, ONT} => e.amount >= 0

VARIABLE block

Emitted == FoldLeft(LAMBDA n, txn : n + Len(txn.notify), 0, block)

Init == block = <<>>

\* The ledger executes one more transaction.
Execute(payer, failed, gas) ==
  /\ Len(block) < MaxTxns
  /\ block' = Append(block, [payer |-> payer, failed |-> failed, gas |-> gas,
                             notify |-> <<>>])

\* The transaction emits an event.
Notify(e) ==
  /\ block # <<>>
  /\ Emitted < MaxEvents
  /\ block' = [block EXCEPT ![Len(block)].notify = Append(@, e)]

Next ==
  \/ \E p \in Payers, f \in BOOLEAN, g \in Gas : Execute(p, f, g)
  \/ \E e \in Events : Notify(e)

Spec == Init /\ [][Next]_block

----------------------------------------------------------------------------
Stored == IndexBlock(block, Tracked)

\* The transfer an event reports, in the smallest unit, with no regard to how
\* the code reads it: native events count GWei and a remainder, EVM logs and
\* OEP4 events the smallest unit.
Reported(e) ==
  [ amount |-> IF e.form \in {"native4", "native5"}
               THEN e.amount * GWei + e.value ELSE e.amount,
    counts |-> /\ e.contract \in Tracked
               /\ CASE e.form \in {"native4", "native5"} ->
                         e.contract \in {ONG, ONT} /\ e.name = "transfer"
                    [] e.form = "evm" -> e.contract = ONG /\ e.name = "Transfer"
                    [] e.form = "oep4" ->
                         /\ e.contract \notin {ONG, ONT}
                         /\ e.name \in {"transfer", "Transfer"}
                         /\ e.amount >= 0
                    [] OTHER -> FALSE ]

Moved(k, e) ==
  LET r == Reported(e) IN
  IF ~r.counts \/ e.contract # k[2] \/ k[1] = nullAddr THEN 0
  ELSE (IF e.to = k[1] THEN r.amount ELSE 0) - (IF e.from = k[1] THEN r.amount ELSE 0)

AllKeys == {<<a, e.contract>> : a \in {e.from : e \in Events} \union {e.to : e \in Events},
                                e \in Events}

\* While no transaction failed, the diffs a block is indexed with are exactly
\* what its events moved, in full precision, whatever the form of the event
\* and whoever else was paid in the block (decodeTransfer, balanceCal; store.go
\* 881-1162).  This is what FaithfulEvents supposes of the diffs.
DiffsAreMoves ==
  (\A i \in DOMAIN block : ~block[i].failed) =>
    \A k \in AllKeys :
      DiffOf(Stored.diffs, k)
        = SumOf([i \in DOMAIN block |->
                   SumOf([j \in DOMAIN block[i].notify |-> Moved(k, block[i].notify[j])])])

\* The operations /block answers add up, key by key, to the diffs that made
\* the balances /account/balance answers: the two are stored apart, and a
\* client that replays the one reconciles with the other.  Related operations
\* are the two sides of one transfer: the later refers to the earlier, of the
\* opposite value, same contract and type (balanceCal, store.go 1124-1162;
\* appendOperations, block_service.go 123-196).
OperationsReconcile ==
  /\ \A k \in AllKeys :
       DiffOf(Stored.diffs, k)
         = SumOf([i \in DOMAIN Stored.txns |->
              LET ops == Operations(Stored.txns[i]) IN
              SumOf([j \in DOMAIN ops |->
                IF <<ops[j].acct, ops[j].contract>> = k THEN ops[j].value ELSE 0])])
  /\ \A i \in DOMAIN Stored.txns :
       LET ops == Operations(Stored.txns[i]) IN
       \A j \in DOMAIN ops : \A r \in ops[j].related :
         /\ 0 <= r /\ r < ops[j].index /\ ops[j].index = j - 1
         /\ ops[r+1].value = -ops[j].value
         /\ ops[r+1].contract = ops[j].contract
         /\ ops[r+1].type = ops[j].type

\* Event e reports that the payer of txn paid the governance contract, in ONG,
\* the gas consumed.  The amounts of EVM logs are known by their low word alone
\* (Uint64, store.go 1115): 2^64 more, or any multiple, reports the same.
Charges(txn, e) ==
  LET r == Reported(e) IN
  /\ r.counts /\ e.contract = ONG
  /\ e.from = txn.payer /\ e.to = govAddr
  /\ (IF e.form = "evm" THEN r.amount % Word ELSE r.amount) \div GWei = txn.gas

\* The first event that does, if any: the fee.
FirstCharge(txn) ==
  {j \in DOMAIN txn.notify : /\ Charges(txn, txn.notify[j])
                             /\ \A i \in 1..(j-1) : ~Charges(txn, txn.notify[i])}

\* The events a transaction leaves transfers of: those that count, and of a
\* failed one only those in ONG up to its fee.
Lasting(txn) ==
  {j \in DOMAIN txn.notify :
     /\ Reported(txn.notify[j]).counts
     /\ txn.failed => /\ txn.notify[j].contract = ONG
                      /\ \A c \in FirstCharge(txn) : j <= c}

\* Which of them event j is the last of, and so which transfer is its own.
Place(txn, j) == Cardinality({i \in Lasting(txn) : i <= j})

Shows(xfer, e) ==
  /\ xfer.contract = e.contract /\ xfer.from = e.from /\ xfer.to = e.to
  /\ xfer.amount = Reported(e).amount

\* A transaction pays its gas once: of the transfers stored for it the one made
\* of the first event that reports the charge is marked as the fee, and no
\* other, however many look like it, whoever sent them and whatever comes
\* before; and it shows that event.  Without a charge none is marked
\* (decodeTransfer, parseEvmOngTransferLog, checkgasVerified; store.go 881-1122
\* and 1165-1187).
GasPaidOnce ==
  \A i \in DOMAIN block :
    LET txn == block[i]
        xfers == Stored.txns[i]
    IN  /\ {j \in DOMAIN xfers : xfers[j].isGas} = {Place(txn, c) : c \in FirstCharge(txn)}
        /\ \A c \in FirstCharge(txn) : Shows(xfers[Place(txn, c)], txn.notify[c])

\* Of a failed transaction what is stored is, in the order of the events, its
\* transfers of ONG up to its fee: nothing that follows the fee and no token,
\* though ONG it moved before the fee stays (store.go 1166-1176).  If the fee
\* comes first, as the node has it, it is all that is stored.
FailureEndsAtFee ==
  \A i \in DOMAIN block :
    LET txn == block[i]
        xfers == Stored.txns[i]
    IN  txn.failed =>
          /\ Len(xfers) = Cardinality(Lasting(txn))
          /\ \A j \in Lasting(txn) : Shows(xfers[Place(txn, j)], txn.notify[j])
          /\ 1 \in FirstCharge(txn) => Len(xfers) = 1 /\ xfers[1].isGas

\* What is indexed for a token does not depend on which others are configured:
\* with fewer tokens the diffs are the same ones, less the others' (store.go
\* 186-189 and 1166-1176).  Changes in StoreDB relies on it.
TokensAreIndependent ==
  \A T \in SUBSET Tracked :
    IndexBlock(block, T).diffs
      = [k \in {k \in DOMAIN Stored.diffs : k[2] \in T} |-> Stored.diffs[k]]
=============================================================================
