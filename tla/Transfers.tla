----------------------------- MODULE Transfers -----------------------------
(***************************************************************************)
(* What IndexBlocks makes of the events of a block (services/store.go      *)
(* 178-224 and 881-1187), and what the block endpoints make of the result  *)
(* (services/block_service.go 123-237).                                    *)
(*                                                                         *)
(* A block is a sequence of executed transactions                          *)
(*   [payer, failed, gas, notify]                                          *)
(* with gas the gas consumed and notify a sequence of events               *)
(*   [form, contract, name, from, to, amount, value].                      *)
(* The forms are those the decoders tell apart: "native4" and "native5"    *)
(* (ONT/ONG state arrays without and with the remainder of the 18-decimal  *)
(* amounts), "oep4", "evm" and "other" for a state nothing can be read     *)
(* from: a wrong type, a wrong length, an address that does not parse.     *)
(***************************************************************************)
EXTENDS Integers, Sequences, FiniteSets, TLC, SequencesExt, FiniteSetsExt

CONSTANTS
  ONG, ONT,     \* the native contracts
  govAddr,      \* where gas fees go
  nullAddr,     \* minted from, burnt to
  GWei,         \* constants.GWei, scaled down
  Word          \* 2^64, scaled down: big.Int.Uint64 wraps here

ASSUME TransfersAssumption == GWei \in Nat \ {0} /\ Word \in Nat \ {0}

NoTransfer == [ok |-> FALSE]

Transfer(from, to, amount, isGas) ==
  [ok |-> TRUE, from |-> from, to |-> to, amount |-> amount, isGas |-> isGas]

----------------------------------------------------------------------------
(* Decoding.                                                               *)

\* decodeTransfer for ONT and ONG: the amount counts GWei, a fifth element
\* the rest; the fee is told by its receiver and its amount in GWei.
DecodeNative(e, gas) ==
  IF e.form \notin {"native4", "native5"} \/ e.name # "transfer"
  THEN NoTransfer
  ELSE Transfer(e.from, e.to,
         e.amount * GWei + (IF e.form = "native5" THEN e.value ELSE 0),
         e.contract = ONG /\ e.to = govAddr /\ e.amount = gas)

\* decodeTransfer for OEP4 tokens: the amount is taken as it is, and an event
\* with a negative one is dropped.  These never pay gas.
DecodeOEP4(e) ==
  IF e.form # "oep4" \/ e.name \notin {"transfer", "Transfer"} \/ e.amount < 0
  THEN NoTransfer
  ELSE Transfer(e.from, e.to, e.amount, FALSE)

\* parseEvmOngTransferLog: EVM logs of ONG alone, in the full precision.
DecodeEvm(e, gas) ==
  IF e.contract # ONG \/ e.name # "Transfer"
  THEN NoTransfer
  ELSE Transfer(e.from, e.to, e.amount,
         e.to = govAddr /\ (e.amount % Word) \div GWei = gas)

\* slip: the remainder of an 18-decimal amount is forgotten
Decode_DropsRemainder(e, gas) ==
  IF e.form = "evm" THEN DecodeEvm(e, gas)
  ELSE IF e.contract \in {ONT, ONG}
       THEN DecodeNative([e EXCEPT !.value = 0], gas)
       ELSE DecodeOEP4(e)

Decode(e, gas) ==
  IF e.form = "evm" THEN DecodeEvm(e, gas)
  ELSE IF e.contract \in {ONT, ONG}
       THEN DecodeNative(e, gas)
       ELSE DecodeOEP4(e)

----------------------------------------------------------------------------
(* The loop over the events of a transaction.  Its state is the transfers  *)
(* recorded, the diffs, and whether the gas fee has been matched.          *)

\* slip: transfers that follow the fee are kept
Skipped_OnlyTokens(txn, contract, gasVerified) == txn.failed /\ contract # ONG

\* checkgasVerified, isContinue: of a failed transaction only ONG transfers
\* up to the gas fee are kept.
Skipped(txn, contract, gasVerified) ==
  txn.failed /\ (contract # ONG \/ gasVerified)

\* slip: any transfer of the amount of the fee passes for it
PaysGas_Anyone(txn, xfer, gasVerified) == xfer.isGas

\* checkgasVerified, isGas: the first fee-like transfer by the payer.
PaysGas(txn, xfer, gasVerified) ==
  ~gasVerified /\ xfer.isGas /\ xfer.from = txn.payer

\* One side of balanceCal: a key is added or its diff changed; the null
\* address has no balance.
AddDiff(diffs, acct, contract, n) ==
  LET k == <<acct, contract>> IN
  IF acct = nullAddr THEN diffs
  ELSE [x \in DOMAIN diffs \union {k} |->
          (IF x \in DOMAIN diffs THEN diffs[x] ELSE 0) + (IF x = k THEN n ELSE 0)]

BalanceCal(diffs, contract, xfer) ==
  AddDiff(AddDiff(diffs, xfer.from, contract, -xfer.amount),
          xfer.to, contract, xfer.amount)

\* slip: the answer of checkgasVerified is stored before the skip is honoured,
\* so that a skipped event forgets the fee
IndexEvent_Forgets(st, e, txn, tracked) ==
  LET xfer == Decode(e, txn.gas) IN
  IF e.contract \notin tracked \/ ~xfer.ok
  THEN st
  ELSE IF Skipped(txn, e.contract, st.gasVerified)
  THEN [st EXCEPT !.gasVerified = FALSE]
  ELSE LET pays == PaysGas(txn, xfer, st.gasVerified) IN
       [ diffs       |-> BalanceCal(st.diffs, e.contract, xfer),
         gasVerified |-> st.gasVerified \/ pays,
         transfers   |-> Append(st.transfers,
                           [amount |-> xfer.amount, contract |-> e.contract,
                            from |-> xfer.from, to |-> xfer.to, isGas |-> pays]) ]

\* slip: the amount of a transfer is the very number that became the diff of its
\* receiver, and is not written down before the diff changes again
IndexEvent_Shared(st, e, txn, tracked) ==
  LET xfer == Decode(e, txn.gas) IN
  IF e.contract \notin tracked \/ ~xfer.ok \/ Skipped(txn, e.contract, st.gasVerified)
  THEN st
  ELSE LET pays == PaysGas(txn, xfer, st.gasVerified)
           diffs == BalanceCal(st.diffs, e.contract, xfer)
           made == [amount |-> xfer.amount, contract |-> e.contract,
                    from |-> xfer.from, to |-> xfer.to, isGas |-> pays]
       IN  [ diffs       |-> diffs,
             gasVerified |-> st.gasVerified \/ pays,
             transfers   |->
               [ j \in 1..Len(st.transfers) |->
                   LET t == st.transfers[j] IN
                   IF <<t.to, t.contract>> \in DOMAIN diffs
                   THEN [t EXCEPT !.amount = diffs[<<t.to, t.contract>>]]
                   ELSE t ] \o <<made>> ]

\* One turn of the loop for an event, st = [diffs, transfers, gasVerified].
IndexEvent(st, e, txn, tracked) ==
  LET xfer == Decode(e, txn.gas) IN
  IF e.contract \notin tracked \/ ~xfer.ok \/ Skipped(txn, e.contract, st.gasVerified)
  THEN st
  ELSE LET pays == PaysGas(txn, xfer, st.gasVerified) IN
       [ diffs       |-> BalanceCal(st.diffs, e.contract, xfer),
         gasVerified |-> st.gasVerified \/ pays,
         transfers   |-> Append(st.transfers,
                           [amount |-> xfer.amount, contract |-> e.contract,
                            from |-> xfer.from, to |-> xfer.to, isGas |-> pays]) ]

\* The events of one transaction, and of the block: the diffs run through it.
IndexTxn(diffs, txn, tracked) ==
  FoldLeft(LAMBDA st, e : IndexEvent(st, e, txn, tracked),
           [diffs |-> diffs, transfers |-> <<>>, gasVerified |-> FALSE],
           txn.notify)

\* What a block is stored as: its diffs, and the transfers of each transaction.
IndexBlock(block, tracked) ==
  FoldLeft(LAMBDA acc, txn :
             LET st == IndexTxn(acc.diffs, txn, tracked) IN
             [diffs |-> st.diffs, txns |-> Append(acc.txns, st.transfers)],
           [diffs |-> <<>>, txns |-> <<>>],
           block)

----------------------------------------------------------------------------
(* The operations answered for a stored transaction.                       *)

OpType(xfer) ==
  IF xfer.to = nullAddr THEN "burn"
  ELSE IF xfer.from = nullAddr THEN "mint"
  ELSE IF xfer.isGas THEN "gas_fee" ELSE "transfer"

Operation(xfer, acct, value, index, related) ==
  [acct |-> acct, contract |-> xfer.contract, value |-> value,
   index |-> index, type |-> OpType(xfer), related |-> related]

\* appendOperations: the sender's side, then the receiver's, which refers to it.
AppendOperations(ops, xfer) ==
  LET n == Len(ops)
      sent == xfer.from # nullAddr
      debit == IF sent THEN <<Operation(xfer, xfer.from, -xfer.amount, n, {})>>
               ELSE <<>>
      m == n + Len(debit)
      credit == IF xfer.to # nullAddr
                THEN <<Operation(xfer, xfer.to, xfer.amount, m,
                                 IF sent THEN {m - 1} ELSE {})>>
                ELSE <<>>
  IN ops \o debit \o credit

\* transformTransaction.
Operations(transfers) == FoldLeft(AppendOperations, <<>>, transfers)

----------------------------------------------------------------------------
(* For the properties.                                                     *)

DiffOf(diffs, k) == IF k \in DOMAIN diffs THEN diffs[k] ELSE 0

\* Events as the node emits them: a remainder is less than the unit it is the
\* rest of, and native4 has none.
Readable(e) ==
  /\ e.amount \in Int /\ e.value \in 0..(GWei - 1)
  /\ e.form = "native4" => e.value = 0

SumOf(values) == FoldLeft(LAMBDA a, b : a + b, 0, values)
=============================================================================
