------------------------------ MODULE Payload ------------------------------
(***************************************************************************)
(* The code of a transfer: what the Construction API writes                *)
(* (services/construction_service.go 477-544), what is read back from it   *)
(* (chain/payload.go, parsePayload), and what the node reports when it is  *)
(* executed.                                                               *)
(*                                                                         *)
(* Code is [op, contract, method, params, rest] with op the first call of  *)
(* a contract in it ("SYSCALL" for native contracts, "APPCALL" for NeoVM   *)
(* ones, "WASM"), params the tuples of arguments on the stack by then, and *)
(* rest what the script does after it: reading ends at the first call, and *)
(* nothing checks that the script does too (payload.go 44-58).  A          *)
(* transaction is [code, gasLimit, gasPrice, nonce, payer]; its hash       *)
(* covers all of it and no signature, so that the record stands for the    *)
(* hash too.                                                               *)
(***************************************************************************)
EXTENDS Transfers

CONSTANTS
  Tokens,       \* the contracts of the configuration
  Wasm,         \* those of them that are WASM contracts
  Junk          \* an argument of the wrong type or length

\* Both native contracts are tracked, whatever else is (NewStore, store.go
\* 761-797).
ASSUME TokensAssumption == {ONG, ONT} \subseteq Tokens

isNative(contract) == contract \in {ONG, ONT}

Hash(txn) == txn

----------------------------------------------------------------------------
(* Writing.  Options are [amount, contract, from, to, gasLimit, gasPrice,  *)
(* nonce, payer].                                                          *)

\* What a script that ends with its first call does after it: it reports no
\* event and needs no signature.
Nothing == [notify |-> <<>>, witnesses |-> {}]

Code(op, contract, method, params) ==
  [op |-> op, contract |-> contract, method |-> method, params |-> params,
   rest |-> Nothing]

\* Native contracts take a list of transfers, in the full precision.
InvokeCode(o) ==
  LET xfer == <<o.from, o.to, o.amount>> IN
  IF isNative(o.contract) THEN Code("SYSCALL", o.contract, "transferV2", <<xfer>>)
  ELSE Code(IF o.contract \in Wasm THEN "WASM" ELSE "APPCALL",
            o.contract, "transfer", xfer)

constructTransfer(o) ==
  [code |-> InvokeCode(o), gasLimit |-> o.gasLimit, gasPrice |-> o.gasPrice,
   nonce |-> o.nonce, payer |-> o.payer]

----------------------------------------------------------------------------
(* Reading.                                                                *)

Failed == [ok |-> FALSE]

\* The arguments of n values each, in which nothing is unreadable.
Fields(tuples, n) ==
  \A i \in DOMAIN tuples : Len(tuples[i]) = n /\ Junk \notin ToSet(tuples[i])

Multi(code) ==
  \/ code.op = "SYSCALL" /\ code.method \in {"transfer", "transferV2"}
  \/ code.op = "APPCALL" /\ code.method = "transferMulti" /\ Len(code.params) = 1

From(code) ==
  \/ code.op = "SYSCALL" /\ code.method \in {"transferFrom", "transferFromV2"}
  \/ code.op = "APPCALL" /\ code.method = "transferFrom"

\* parseTransferFields, parseTransferFromFields: who sent a transferFrom comes
\* before the three fields of a transfer.
parseTransferFields(t) == [from |-> t[1], to |-> t[2], amount |-> t[3]]

\* slip: the first field, who sent it, is taken for the account debited
parseTransferFromFields_Sender(t) == parseTransferFields(<<t[1], t[3], t[4]>>)
parseTransferFromFields(t) == parseTransferFields(Tail(t))

parseTransfers(tuples) ==
  IF Fields(tuples, 3)
  THEN [ok |-> TRUE, xfers |-> [i \in DOMAIN tuples |-> parseTransferFields(tuples[i])]]
  ELSE Failed

\* parseApp and parseSys, at the first call: WASM code runs into no opcode they
\* know.
ParsePayload(code) ==
  IF Multi(code)
  THEN parseTransfers(IF code.op = "APPCALL" THEN code.params[1] ELSE code.params)
  ELSE IF From(code)
  THEN IF Fields(<<code.params>>, 4)
       THEN [ok |-> TRUE, xfers |-> <<parseTransferFromFields(code.params)>>]
       ELSE Failed
  ELSE IF code.op = "APPCALL" /\ code.method = "transfer"
  THEN parseTransfers(<<code.params>>)
  ELSE Failed

\* The operations of a transaction that need not be executed yet.
parsePayload(code) ==
  LET p == ParsePayload(code) IN
  IF ~p.ok \/ code.contract \notin Tokens THEN Failed
  ELSE [ ok |-> TRUE,
         ops |-> Operations([i \in DOMAIN p.xfers |->
                   [amount |-> p.xfers[i].amount, contract |-> code.contract,
                    from |-> p.xfers[i].from, to |-> p.xfers[i].to,
                    isGas |-> FALSE]]) ]

----------------------------------------------------------------------------
(* Executing, by the node: the events of a transfer and of the fee.  Only  *)
(* the V2 methods of the native contracts count in the smallest unit.      *)

InGWei(code) == code.op = "SYSCALL" /\ code.method \in {"transfer", "transferFrom"}

Arguments(code) ==
  IF code.method \in {"transferFrom", "transferFromV2"} THEN <<Tail(code.params)>>
  ELSE IF code.method = "transferMulti" THEN code.params[1]
  ELSE IF code.op = "SYSCALL" THEN code.params
  ELSE <<code.params>>

Event(form, contract, t, amount, value) ==
  [form |-> form, contract |-> contract, name |-> "transfer", from |-> t[1],
   to |-> t[2], amount |-> amount, value |-> value]

EventOf(code, t) ==
  IF code.op # "SYSCALL" THEN Event("oep4", code.contract, t, t[3], 0)
  ELSE IF InGWei(code) THEN Event("native4", code.contract, t, t[3], 0)
  ELSE Event("native5", code.contract, t, t[3] \div GWei, t[3] % GWei)

\* Code the node can execute: native contracts and no others are called by
\* SYSCALL, no contract moves a negative amount, and the rest of the script
\* reports events of the kind the node emits.
Callable(code) ==
  LET args == Arguments(code)
      later == code.rest.notify
  IN
  /\ code.op = "SYSCALL" <=> isNative(code.contract)
  /\ args \in Seq(ToSet(args))
  /\ \A i \in DOMAIN args : args[i][3] \in Nat
  /\ later \in Seq(ToSet(later))
  /\ \A i \in DOMAIN later : /\ Readable(later[i])
                             /\ isNative(later[i].contract) => later[i].amount >= 0

\* The events of the first call, then those of the rest, then the fee.  A
\* transaction that fails keeps but its fee.
Executed(txn, failed, gas) ==
  LET args == Arguments(txn.code)
      moves == [i \in DOMAIN args |-> EventOf(txn.code, args[i])]
      fee == Event("native4", ONG, <<txn.payer, govAddr>>, gas, 0)
  IN  [payer |-> txn.payer, failed |-> failed, gas |-> gas,
       notify |-> IF failed THEN <<fee>> ELSE Append(moves \o txn.code.rest.notify, fee)]
=============================================================================
