---------------------------- MODULE Construction ----------------------------
(***************************************************************************)
(* The Construction API (services/construction_service.go) beside the node *)
(* and the indexer.  The server keeps nothing between calls: the client    *)
(* holds what it was answered and may use it again, in any order, and      *)
(* mixed up between transactions.  Other wallets feed the node's pool too. *)
(*                                                                         *)
(* /construction/metadata is cut into the reads it makes: the height, the  *)
(* headers of getGasPrice one by one, each look-up of a nonce.  The other  *)
(* calls read nothing that changes.  The client waits for the answer before *)
(* it goes on, save that it may submit: what else it could do meanwhile    *)
(* neither reads nor changes what the request reads.  Options and metadata *)
(* are the same protobuf message: either is accepted for the other.        *)
(***************************************************************************)
EXTENDS Payload

CONSTANTS
  Requests,         \* what a client asks /preprocess and /payloads
  Keys,             \* the accounts whose keys the clients of the API hold
  ForeignTxns,      \* what other wallets submit: transactions with signers
  Decimals,         \* of the currency of each token
  nil,              \* a missing field
  offline,
  minGasLimit, defaultGasPrice,
  MaxNonce,         \* 2^32 - 1
  Lookback,         \* 100, the blocks getGasPrice looks at
  Attempts,         \* 100, the nonces tried
  MaxUint32,        \* 2^32 - 1, of heights
  Gas,              \* gas consumed by a transaction, in GWei
  MaxOptions, MaxUnsigned, MaxSigned, MaxForeign, MaxBlocks     \* bounds

ASSUME ConstructionAssumption ==
  /\ offline \in BOOLEAN
  /\ MaxNonce \in Nat /\ MaxUint32 \in Nat /\ Lookback \in Nat
  /\ Attempts \in Nat \ {0} /\ defaultGasPrice \in Nat /\ minGasLimit \in Nat
  /\ MaxBlocks \in Nat /\ MaxBlocks <= MaxUint32 /\ Gas \in Nat

\* Amounts and numbers are given as such or not at all, a currency by its two
\* fields; an account that does not parse is nil.
ASSUME RequestAssumption ==
  /\ nil \notin Int /\ Junk \notin Int
  /\ \A r \in Requests :
       /\ r.gasLimit \in Nat \union {nil} /\ r.nonce \in Nat \union {nil}
       /\ \A i \in 1..Len(r.ops) :
            LET op == r.ops[i] IN
            /\ op.value \in Int \union {nil} /\ op.account # Junk
            /\ op.currency # nil => op.currency = [contract |-> op.currency.contract,
                                                 decimals |-> op.currency.decimals]

\* What other wallets submit can be executed, if parsePayload can read it.
ASSUME ForeignAssumption ==
  \A f \in ForeignTxns : ParsePayload(f.txn.code).ok => Callable(f.txn.code)

VARIABLES
  options,      \* options the client was answered by /preprocess
  unsigned,     \* transactions of /payloads, with the operations asked for
  signed,       \* transactions of /combine, with their signatures
  pool,         \* the node's pool: transactions and who signed them
  chain,        \* blocks of executed transactions; height h is chain[h+1]
  indexed,      \* how many of them the indexer has stored
  call          \* the /metadata request at hand, or the last answer

client == <<options, unsigned, signed>>
node == <<pool, chain, indexed>>
vars == <<options, unsigned, signed, pool, chain, indexed, call>>

\* No request at hand; the last one answered a, or was refused.
Idle(a) == [pc |-> "idle", answer |-> a]

\* What the client may send as options or as metadata.  It keeps one answer of
\* /metadata at a time, until it asks for the next.
Held == options \union IF call.pc = "idle" /\ call.answer # nil THEN {call.answer} ELSE {}

\* The hashes checkUnsignedTxHash finds: ConflictsKnown of Indexer says that
\* they are those of the blocks indexed.
Known == UNION {{Hash(chain[b][i].txn) : i \in DOMAIN chain[b]} : b \in 1..indexed}

Submitted == {Hash(p.txn) : p \in pool} \union
  UNION {{Hash(chain[b][i].txn) : i \in DOMAIN chain[b]} : b \in DOMAIN chain}

----------------------------------------------------------------------------
(* validateOps.  An operation asked for is [account, sub, value, currency, *)
(* index, related, type], a currency [contract, decimals].                 *)

validateCurrency(c) ==
  c # nil /\ c.contract \in Tokens /\ c.decimals = Decimals[c.contract]

ValidOp(op) ==
  /\ op.account # nil /\ op.value # nil /\ op.value # 0
  /\ validateCurrency(op.currency)
  /\ op.sub = IF isNative(op.currency.contract) THEN nil ELSE op.currency.contract
  /\ op.index # nil
  /\ op.type = "transfer"

\* slip: the two indices are compared the other way round
validateRelation_Before(a, b) ==
  /\ a.related # <<>> /\ b.related = <<>>
  /\ Head(a.related) = b.index
  /\ b.index - a.index = 1

\* One of the operations refers to the other, which comes just before it.
validateRelation(a, b) ==
  /\ a.related # <<>> /\ b.related = <<>>
  /\ Head(a.related) = b.index
  /\ a.index - b.index = 1

\* The transfer two operations speak of: the negative one sends.
TransferOf(ops) ==
  LET debit == IF ops[1].value < 0 THEN ops[1] ELSE ops[2]
      credit == IF ops[1].value < 0 THEN ops[2] ELSE ops[1]
  IN  [amount |-> credit.value, contract |-> credit.currency.contract,
       from |-> debit.account, to |-> credit.account]

\* slip: a mint can be asked for
validateOps_FromNull(ops) ==
  /\ Len(ops) = 2
  /\ ValidOp(ops[1]) /\ ValidOp(ops[2])
  /\ ops[1].currency.contract = ops[2].currency.contract
  /\ validateRelation(ops[1], ops[2]) \/ validateRelation(ops[2], ops[1])
  /\ ops[1].value + ops[2].value = 0

validateOps(ops) ==
  /\ Len(ops) = 2
  /\ ValidOp(ops[1]) /\ ValidOp(ops[2])
  /\ ops[1].currency.contract = ops[2].currency.contract
  /\ validateRelation(ops[1], ops[2]) \/ validateRelation(ops[2], ops[1])
  /\ ops[1].value + ops[2].value = 0
  /\ TransferOf(ops).from # nullAddr

----------------------------------------------------------------------------
(* /construction/preprocess.  A request is [ops, maxFee, multiplier,       *)
(* gasLimit, gasPrice, nonce, payer].                                      *)

\* getUint64Field: what a field missing or given becomes, and which are
\* refused.  A gas price that is given becomes the default.
GasLimitOf(v) == IF v = nil THEN 0 ELSE IF v = 0 THEN minGasLimit ELSE v
GasPriceOf(v) == IF v = nil THEN 0 ELSE defaultGasPrice
NonceOf(v) == IF v = nil THEN 0 ELSE v

ValidFields(r) ==
  /\ r.maxFee = nil /\ r.multiplier = nil
  /\ r.gasLimit # nil => GasLimitOf(r.gasLimit) >= minGasLimit
  /\ NonceOf(r.nonce) <= MaxNonce

ConstructionPreprocess(r) ==
  /\ call.pc = "idle" /\ Cardinality(options) < MaxOptions
  /\ ValidFields(r)
  /\ validateOps(r.ops)
  /\ LET xfer == TransferOf(r.ops) IN
     options' = options \union
       {[ amount |-> xfer.amount, contract |-> xfer.contract,
          from |-> xfer.from, to |-> xfer.to,
          gasLimit |-> GasLimitOf(r.gasLimit), gasPrice |-> GasPriceOf(r.gasPrice),
          nonce |-> NonceOf(r.nonce),
          payer |-> IF r.payer \in {nil, nullAddr} THEN xfer.from ELSE r.payer ]}
  /\ UNCHANGED <<unsigned, signed, node, call>>

----------------------------------------------------------------------------
(* /construction/metadata: the gas price, then the nonce.                  *)

CurrentHeight == Len(chain) - 1

\* The unsigned height goes from zero to the greatest there is.
Below(height) == IF height = 0 THEN MaxUint32 ELSE height - 1

\* slip: the newest block is left out
MetadataBegins_Below(o) ==
  /\ ~offline
  /\ call.pc = "idle"
  /\ call' = [ pc |-> "price", opts |-> o, height |-> Below(CurrentHeight),
               start |-> CurrentHeight,
               end |-> IF CurrentHeight > Lookback THEN CurrentHeight - Lookback ELSE 0,
               tries |-> 0, seen |-> Known, asked |-> o.gasPrice, missed |-> FALSE ]
  /\ UNCHANGED <<client, node>>

\* getGasPrice begins; seen, asked and missed are history: what was indexed by
\* then, the price in the options, and whether a block that is there could not
\* be read.
MetadataBegins(o) ==
  /\ ~offline
  /\ call.pc = "idle"
  /\ call' = [ pc |-> "price", opts |-> o, height |-> CurrentHeight,
               start |-> CurrentHeight,
               end |-> IF CurrentHeight > Lookback THEN CurrentHeight - Lookback ELSE 0,
               tries |-> 0, seen |-> Known, asked |-> o.gasPrice, missed |-> FALSE ]
  /\ UNCHANGED <<client, node>>

InWindow == call.pc = "price" /\ call.height >= call.end
HeaderExists == call.height <= CurrentHeight
NotEmpty == chain[call.height + 1] # <<>>

\* The average price of a block, rounded down.
AveragePrice(block) ==
  FoldLeft(LAMBDA n, t : n + t.txn.gasPrice, 0, block) \div Len(block)

\* What the options become once getGasPrice has returned a price, and whether
\* the nonce was given.
Priced(price, err) ==
  LET o == call.opts
      gasPrice == IF ~err /\ price > o.gasPrice THEN price
                  ELSE IF o.gasPrice < defaultGasPrice THEN defaultGasPrice
                  ELSE o.gasPrice
      gasLimit == IF o.gasLimit < minGasLimit THEN minGasLimit ELSE o.gasLimit
  IN  [call EXCEPT !.pc = IF o.nonce = 0 THEN "random" ELSE "given",
                   !.opts.gasPrice = gasPrice, !.opts.gasLimit = gasLimit]

\* No header at this height, or no transactions: on to the one below.
HeaderSkipped ==
  /\ InWindow
  /\ HeaderExists => ~NotEmpty
  /\ call' = [call EXCEPT !.height = Below(@)]
  /\ UNCHANGED <<client, node>>

HeaderFails ==
  /\ InWindow
  /\ HeaderExists /\ NotEmpty
  /\ call' = [call EXCEPT !.height = Below(@), !.missed = TRUE]
  /\ UNCHANGED <<client, node>>

\* slip: the loop goes on and its last price wins
PriceFound_NoBreak ==
  /\ InWindow
  /\ HeaderExists /\ NotEmpty
  /\ call' = [call EXCEPT !.height = Below(@)]
  /\ UNCHANGED <<client, node>>

PriceFound ==
  /\ InWindow
  /\ HeaderExists /\ NotEmpty
  /\ call' = Priced(AveragePrice(chain[call.height + 1]), FALSE)
  /\ UNCHANGED <<client, node>>

BlockFails ==
  /\ InWindow
  /\ HeaderExists /\ NotEmpty
  /\ call' = [Priced(0, TRUE) EXCEPT !.missed = TRUE]
  /\ UNCHANGED <<client, node>>

\* All blocks of the window are empty.
WindowEnds ==
  /\ call.pc = "price"
  /\ call.height < call.end
  /\ call' = Priced(0, FALSE)
  /\ UNCHANGED <<client, node>>

Answer(o) == call' = Idle(o) /\ UNCHANGED <<client, node>>

Refuse == call' = Idle(nil) /\ UNCHANGED <<client, node>>

\* A look-up in the store fails, or no random numbers are to be had.
MetadataFails == call.pc \in {"random", "given"} /\ Refuse

\* slip: a conflict ends the loop, not its absence
TryNonce_Conflicting(n) ==
  LET o == [call.opts EXCEPT !.nonce = n]
      last == Hash(constructTransfer(o)) \in Known \/ call.tries + 1 = Attempts
  IN
  /\ call.pc = "random"
  /\ IF ~last THEN /\ call' = [call EXCEPT !.tries = @ + 1]
                   /\ UNCHANGED <<client, node>>
     ELSE IF n = 0 THEN Refuse ELSE Answer(o)

\* A turn of the loop with a random nonce: the first that conflicts with no
\* indexed transaction, or the last one tried, is answered; but not zero.
TryNonce(n) ==
  LET o == [call.opts EXCEPT !.nonce = n]
      last == Hash(constructTransfer(o)) \notin Known \/ call.tries + 1 = Attempts
  IN
  /\ call.pc = "random"
  /\ IF ~last THEN /\ call' = [call EXCEPT !.tries = @ + 1]
                   /\ UNCHANGED <<client, node>>
     ELSE IF n = 0 THEN Refuse ELSE Answer(o)

GivenNonce ==
  /\ call.pc = "given"
  /\ IF Hash(constructTransfer(call.opts)) \in Known THEN Refuse ELSE Answer(call.opts)

----------------------------------------------------------------------------
(* /construction/payloads, combine and submit.                             *)

\* slip: the receiver is not compared
Fits_AnyReceiver(o, xfer) ==
  o.amount = xfer.amount /\ o.contract = xfer.contract /\ o.from = xfer.from

\* The metadata is that of the transfer asked for.
Fits(o, xfer) ==
  /\ o.amount = xfer.amount /\ o.contract = xfer.contract
  /\ o.from = xfer.from /\ o.to = xfer.to

\* The accounts of the signing payloads.
Signers(txn, xfer) == {xfer.from, txn.payer}

ConstructionPayloads(o, ops) ==
  LET xfer == TransferOf(ops)
      txn == constructTransfer(o)
  IN
  /\ call.pc = "idle" /\ Cardinality(unsigned) < MaxUnsigned
  /\ validateOps(ops)
  /\ Fits(o, xfer)
  /\ unsigned' = unsigned \union {[txn |-> txn, ops |-> ops, signers |-> Signers(txn, xfer)]}
  /\ UNCHANGED <<options, signed, node, call>>

\* A signature by key over what was signed, a transaction or anything else,
\* and the payload it is said to be over.
Signables == {Hash(u.txn) : u \in unsigned} \union {Junk}
Signatures(keys) ==
  {{[key |-> k, over |-> s[k][1], payload |-> s[k][2]] : k \in keys} :
     s \in [keys -> Signables \X Signables]}

\* slip: only the signature is verified, against the payload that comes with it
Verified_AnyPayload(sig, hash) == sig.over = sig.payload

Verified(sig, hash) == sig.payload = hash /\ sig.over = sig.payload

\* Only transactions with no signature yet; who signs is not looked at.  That a
\* key, a signature or a payload is missing or of the wrong curve, type or length
\* (construction_service.go 70-103) is left out: it only refuses more, or, for a
\* signature of another type without a payload (94), panics, which drops the
\* connection and changes nothing.
ConstructionCombine(u, sigs) ==
  /\ call.pc = "idle" /\ Cardinality(signed) < MaxSigned
  /\ u.sigs = {}
  /\ sigs # {}
  /\ \A sig \in sigs : Verified(sig, Hash(u.txn))
  /\ signed' = signed \union
       {[txn |-> u.txn, sigs |-> {[key |-> sig.key, over |-> sig.over] : sig \in sigs}]}
  /\ UNCHANGED <<options, unsigned, node, call>>

SignedBy(s) == {sig.key : sig \in s.sigs}

\* The pool, which may refuse a transaction for its own reasons, takes none
\* twice and none its payer has not signed.
AppendTxToPool(txn, keys) ==
  /\ txn.payer \in keys
  /\ Hash(txn) \notin Submitted
  /\ pool' = pool \union {[txn |-> txn, keys |-> keys]}
  /\ UNCHANGED <<client, chain, indexed, call>>

ConstructionSubmit(s) == ~offline /\ AppendTxToPool(s.txn, SignedBy(s))

\* /construction/parse, for a transaction created by the API itself.
ConstructionParse(txn) ==
  LET p == parsePayload(txn.code) IN
  IF p.ok /\ Len(p.ops) = 2 /\ p.ops[1].value < 0 THEN p ELSE Failed

\* /mempool/transaction, of a transaction in the pool.
MempoolTransaction(txn) == IF offline THEN Failed ELSE parsePayload(txn.code)

----------------------------------------------------------------------------
(* The node and the indexer.                                               *)

ForeignSubmit(f) ==
  /\ Cardinality({g \in ForeignTxns : Hash(g.txn) \in Submitted}) < MaxForeign
  /\ AppendTxToPool(f.txn, f.keys)

\* Whose signatures the contracts ask for.
Witnesses(code) ==
  code.rest.witnesses \union
    IF From(code) THEN {code.params[1]}
    ELSE {Arguments(code)[i][1] : i \in DOMAIN Arguments(code)}

\* A block, empty or with a transaction of the pool, which fails if a
\* signature is missing.
NewBlock(txns) ==
  /\ Len(chain) < MaxBlocks
  /\ chain' = Append(chain, SetToSeq(
       {[txn |-> p.txn, failed |-> ~(Witnesses(p.txn.code) \subseteq p.keys)] : p \in txns}))
  /\ pool' = pool \ txns
  /\ UNCHANGED <<client, indexed, call>>

IndexNext ==
  /\ indexed < Len(chain)
  /\ indexed' = indexed + 1
  /\ UNCHANGED <<client, pool, chain, call>>
----------------------------------------------------------------------------
\* The genesis block has transactions, at no price: getGasPrice relies on it.
Genesis ==
  << [ txn |-> [ code |-> Code("GENESIS", ONT, "init", <<>>), gasLimit |-> 0,
                 gasPrice |-> 0, nonce |-> 0, payer |-> nullAddr ],
       failed |-> FALSE ] >>

Init ==
  /\ options = {} /\ unsigned = {} /\ signed = {} /\ pool = {}
  /\ chain = <<Genesis>>
  /\ indexed = 1
  /\ call = Idle(nil)

Metadata ==
  \/ HeaderSkipped \/ HeaderFails \/ PriceFound \/ BlockFails \/ WindowEnds
  \/ \E n \in 0..MaxNonce : TryNonce(n)
  \/ GivenNonce \/ MetadataFails

Next ==
  \/ \E r \in Requests : ConstructionPreprocess(r)
  \/ \E o \in Held : MetadataBegins(o)
  \/ Metadata
  \/ \E o \in Held, r \in Requests : ConstructionPayloads(o, r.ops)
  \/ \E u \in {[txn |-> u.txn, sigs |-> {}] : u \in unsigned} \union signed,
        sigs \in UNION {Signatures(keys) : keys \in SUBSET Keys} :
       ConstructionCombine(u, sigs)
  \/ \E s \in signed : ConstructionSubmit(s)
  \/ \E f \in ForeignTxns : ForeignSubmit(f)
  \/ \E txns \in {{}} \union {{p} : p \in pool} : NewBlock(txns)
  \/ IndexNext

Spec == Init /\ [][Next]_vars

\* The goroutine of a request is scheduled; a header that is asked for again
\* and again is read some day.
Fairness == WF_vars(Metadata) /\ SF_vars(PriceFound)

FairSpec == Spec /\ Fairness

----------------------------------------------------------------------------
(* Properties.                                                             *)

\* Options speak of a transfer of a known token from somebody, and a request
\* at hand of heights the chain has had.
TypeOK ==
  /\ \A o \in Held :
       /\ o.contract \in Tokens /\ o.from # nullAddr /\ o.amount > 0
       /\ o.gasLimit = 0 \/ o.gasLimit >= minGasLimit
       /\ o.nonce \in 0..MaxNonce
  /\ indexed \in 0..Len(chain)
  /\ call.pc # "idle" =>
       /\ call.opts.contract \in Tokens
       /\ call.height \in 0..MaxUint32
       /\ call.end \in 0..call.start /\ call.start <= CurrentHeight
       /\ call.tries \in 0..(Attempts - 1)
       /\ call.seen \subseteq Known

\* The transaction handed out to be signed does what the operations of that
\* call say and no more, whatever other metadata the client may have mixed
\* in: once executed, the indexer reads exactly that transfer, in the smallest
\* unit, and the fee (ConstructionPayloads and constructTransfer,
\* construction_service.go 346-400 and 477-544).
SignedIsAsked ==
  \A u \in unsigned :
    LET notify == Executed(u.txn, FALSE, Gas).notify
        asked == TransferOf(u.ops)
        moved == Decode(notify[1], Gas)
    IN  /\ Len(notify) = 2
        /\ notify[1].contract = asked.contract
        /\ moved.ok
        /\ moved.from = asked.from /\ moved.to = asked.to
        /\ moved.amount = asked.amount

\* An operation of an answer, as a client would ask for it.
AsAsked(op) ==
  [ account |-> op.acct, sub |-> IF isNative(op.contract) THEN nil ELSE op.contract,
    value |-> op.value,
    currency |-> [contract |-> op.contract, decimals |-> Decimals[op.contract]],
    index |-> op.index, related |-> SetToSeq(op.related), type |-> op.type ]

Content(op) == <<op.account, op.sub, op.value, op.currency, op.type>>

\* /construction/parse reads back, of every transaction handed out to be
\* signed, the two operations that were asked for, and they would be accepted
\* again; except of transfers to the null address and of WASM tokens, which it
\* cannot read though preprocess and payloads accept them (parsePayload,
\* appendOperations, validateOps; construction_service.go 269-292).
ParsedIsAsked ==
  \A u \in unsigned :
    LET asked == TransferOf(u.ops)
        p == ConstructionParse(u.txn)
        ops == [i \in DOMAIN p.ops |-> AsAsked(p.ops[i])]
        unread == asked.contract \in Wasm /\ ~isNative(asked.contract)
    IN  IF asked.to = nullAddr \/ unread THEN ~p.ok
        ELSE /\ p.ok
             /\ validateOps(ops)
             /\ {Content(ops[i]) : i \in 1..2} = {Content(u.ops[i]) : i \in 1..2}

\* No signature is moved from one transaction to another: those combined with
\* a transaction are over its own hash.  Signed by every account that /payloads
\* asked, it has all the signatures the pool and the contract look for, however
\* signatures were collected in the meantime (construction_service.go 69-127
\* and 374-395).
SignaturesFit ==
  \A s \in signed :
    /\ \A sig \in s.sigs : sig.over = Hash(s.txn)
    /\ \A u \in unsigned : s.txn = u.txn /\ u.signers \subseteq SignedBy(s) =>
         /\ s.txn.payer \in SignedBy(s)
         /\ Witnesses(s.txn.code) \subseteq SignedBy(s)

\* The operations a block is answered with, as changes of balances.
Delta(ops, k) ==
  FoldLeft(LAMBDA n, op : IF <<op.acct, op.contract>> = k THEN n + op.value ELSE n, 0, ops)

\* What /block answers of transaction i of block b.
BlockOps(b, i) ==
  LET events == [j \in DOMAIN chain[b] |->
                   Executed(chain[b][j].txn, chain[b][j].failed, Gas)]
  IN  Operations(IndexBlock(events, Tokens).txns[i])

FeeOps(payer) == Operations(<<[amount |-> Gas * GWei, contract |-> ONG, from |-> payer,
                               to |-> govAddr, isGas |-> TRUE]>>)

\* What t does after its first call, as if it were a transaction of its own for
\* which nothing is paid, and what /block would answer of that.
AfterFirstCall(t) ==
  [payer |-> t.payer, failed |-> FALSE, gas |-> Gas, notify |-> t.code.rest.notify]

RestOps(t) == Operations(IndexBlock(<<AfterFirstCall(t)>>, Tokens).txns[1])

\* Of executed transaction t, /block answers the operations that
\* /mempool/transaction told, the fee, and what the rest of the script did.
ToldAlike(b, i) ==
  LET t == chain[b][i].txn
      told == MempoolTransaction(t)
      ops == BlockOps(b, i)
      fee == FeeOps(t.payer)
      rest == RestOps(t)
      keys == {<<op.acct, op.contract>> : op \in ToSet(told.ops \o ops \o fee \o rest)}
  IN  told.ok => \A k \in keys :
        Delta(ops, k) = Delta(told.ops, k) + Delta(rest, k) + Delta(fee, k)

Succeeded == {x \in (2..Len(chain)) \X (1..1) :
                x[2] \in DOMAIN chain[x[1]] /\ ~chain[x[1]][x[2]].failed}

\* What is told of a transaction in the pool is exactly what its first call
\* moves: once the transaction is executed, /block answers it, the fee, and
\* besides them only what the rest of the script moved, for every method
\* parsePayload knows but the native ones whose amounts count GWei.  So a
\* transaction of one call, such as the API writes, is told in full, and one of
\* another wallet with more calls by its first alone (chain/payload.go 44-238,
\* store.go 881-1122).
MempoolTellsBlock ==
  \A x \in Succeeded : ~InGWei(chain[x[1]][x[2]].txn.code) => ToldAlike(x[1], x[2])

\* The README parses, as its sample of both /construction/parse and
\* /mempool/transaction, a transaction of the native method "transfer" with the
\* amount 1 and answers 1000000000 (README.md 906-975 and 1109-1170), as /block
\* does.
AmountsInSmallestUnit == \A x \in Succeeded : ToldAlike(x[1], x[2])

\* A nonce /metadata answers conflicts with no transaction that was indexed
\* when the request came in, unless it is the last of Attempts that all did
\* (construction_service.go 214-255).
NonceFree ==
  [][ call.pc # "idle" /\ call'.pc = "idle" /\ call'.answer # nil =>
        \/ Hash(constructTransfer(call'.answer)) \notin call.seen
        \/ call.pc = "random" /\ call.tries + 1 = Attempts ]_vars

\* The heights of the blocks getGasPrice may look at and that have transactions.
NonEmpty == {h \in call.end..call.start : chain[h + 1] # <<>>}

\* The price answered is the average of the newest block with transactions in
\* the window that ended when the request came in, however the chain has grown
\* since, unless that block could not be read or the options had a higher one
\* (construction_service.go 203-210 and 766-789).
PriceIsOfNewest ==
  call.pc \in {"random", "given"} /\ ~call.missed =>
    LET average == IF NonEmpty = {} THEN 0 ELSE AveragePrice(chain[Max(NonEmpty) + 1])
        floor == IF call.asked < defaultGasPrice THEN defaultGasPrice ELSE call.asked
    IN  call.opts.gasPrice = IF average > call.asked THEN average ELSE floor

\* /metadata answers: on a chain as long as the window or shorter the loop over
\* an unsigned height ends only at a block with transactions, of which genesis
\* is one, and goes all the way round when that cannot be read
\* (construction_service.go 773-787).
MetadataEnds == call.pc # "idle" ~> call.pc = "idle"
=============================================================================
