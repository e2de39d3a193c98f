# A verification project for ontology-rosetta

ontology-rosetta runs an Ontology node and a Rosetta HTTP server in one
process. A goroutine follows the node's ledger and indexes every block into a
badger database of its own; the Data API answers balances and blocks from that
database while it grows; the Construction API builds transactions. This
directory holds TLA+ modules that model the program, TLC configurations that
check them on small instances, and TLAPS proofs, for every instance, of all the
safety properties those runs check.

Paths are relative to the repository. Every module says in comments which code
it stands for, and `PROJECT.json` maps each definition to its lines.

## 1. The system

| component | code | state | operations |
|---|---|---|---|
| block indexer | `services/store.go` 59-268, 616-703, 761-835 | badger: balance entries by account, contract and height; blocks; hash ↔ height; hashes of unsigned transactions; `"height"`. In memory: `heightIndexed`, `heightSynced`, `tokens` | `NewStore`, `IndexBlocks`, `setBlock`, `setHeight`, `getHeight`, `Close` |
| event decoding | `services/store.go` 178-224, 881-1187 | the diffs, the transfers and `gasVerified` of the block at hand | `decodeTransfer`, `parseEvmOngTransferLog`, `checkgasVerified`, `balanceCal` |
| store read side | `services/store.go` 382-623, 705-759 | none of its own | `getBlockID`, `getBlockInfo(Raw)`, `getBalance`, `syncStatus`, `getCurrencyInfo`, `checkUnsignedTxHash` |
| Data API | `services/{network,block,account}_service.go` | the request at hand | `/network/status`, `/block`, `/block/transaction`, `/account/balance` |
| mempool API | `services/mempool_service.go` | none: the node's pool | `/mempool`, `/mempool/transaction` |
| Construction API | `services/construction_service.go`, `chain/payload.go` | none: the client carries the transaction from call to call | preprocess, metadata, payloads, combine, parse, hash, submit, derive |
| store validation | `services/store.go` 270-380, `chain/chain.go` | none | `Validate` |
| process, signals | `process/process.go` | `exiting`, `registry` | `Exit`, `SetExitHandler`, the signal goroutine |
| life cycle | `main.go`, `log/log.go` 208-216 | the goroutines, `done`, the context | `runOnline`, `runOffline`, `runValidateStore`, `initServer`, `log.Fatalf` |
| height encoding, balance keys | `lexinum/lexinum.go`, `services/store.go` 225-243, 837-858, 1188-1211 | none | `EncodeHeight`, `DecodeHeight`, `addr2slice`, `decompressAddr` |
| the rest | `errors.go`, `services.go`, `model/`, `log/`, `cmd/`, `version/` | none | tables, wiring, generated code, formatting, small tools |

How they interact:

* the indexer *calls* the node's ledger (height, block, events) and *writes*
  badger in one transaction per block; it then *publishes* the height under a
  lock;
* the endpoints *read* the published height and badger, each read on its own;
* `main.go` *registers* exit handlers as it starts things; whoever takes the
  process down (a signal, or any goroutine's `log.Fatalf`) *runs* a copy of
  them in reverse order; the handlers cancel the indexer's context, *wait* on
  the channel `done` for it to return, close the store, then the ledger;
* the next process starts from what badger holds, possibly with other tokens;
* the Construction API *reads* the node's heights, headers and blocks and the
  transaction hashes the indexer stored, and *submits* to the node's pool;
  between its calls the client *carries* the transaction, encoded.

What is hard here: a commit and its publication are two steps, with readers in
between; genesis is re-indexed as long as it is the only block; a process may
be killed, or lose power with part of badger's writes; a restart may change the
tokens; reads and commits fail and are retried; exits begin in any goroutine,
while the process still starts, and twice; fees must be told from transfers; a
transaction under construction passes through six calls of a client who may
repeat and mix them, while prices and nonces are read from a chain that grows.
`PROJECT.json` lists these hazards one by one, at their lines, with the
properties aimed at each.

What makes each component correct, in a sentence:

* indexer: whatever happened, the store holds the blocks `0..height`, all
  look-ups agree on them, and the balance at each is the ledger's;
* event decoding: a block's diffs are exactly what its events moved, and the
  operations answered for it add up to the same diffs;
* reads: an answer put together from several reads is about one block of the
  chain, the one asked for;
* process and life cycle: nothing is closed while it is used, and an exit ends;
* construction: what is handed out to be signed is what was asked for, is read
  back as such, and does just that when executed; a nonce is free, a price new;
* encoding: heights and their encodings are in the same order.

## 2. The modules

```
ChainView        abstract: a history of balances that only grows     (ImplementsView)
StoreDB          the content of the database; the pure part of reads and setBlock
  └ Indexer      the goroutine, the ledger, the process around it, crashes
      ├ Api      a request, step by step, beside the indexer
      └ Validation   what --validate-store finds when the indexer has returned
Lexinum          EncodeHeight, DecodeHeight, the order of keys (pure)
  ├ HeightOrder  heights encoded one after the other
  └ BalanceKeys  keys of balances: the two seeks and the scan
Transfers        events -> transfers, diffs, operations (pure)
  └ EventIndexing  every block a node may execute, and what is stored for it
Shutdown         handlers, signals, main, server: the start and the end of a process
Transfers
  └ Payload      the code of a transfer: written, read back, executed (pure)
      └ Construction   the Construction API, its client, the node and the indexer
Folding          induction, and what a fold does turn by turn (theorems)
  ├ TransferProofs     the loops of Transfers
  │   ├ EventProofs        theorems about EventIndexing, and what StoreDB assumes
  │   └ ConstructionProofs theorems about Construction
  └ LexinumProofs      theorems about Lexinum, HeightOrder, BalanceKeys
IndexerProofs    theorems about StoreDB, Indexer, ChainView, Validation
  └ ApiProofs          theorems about Api
ShutdownProofs   theorems about Shutdown
MCChain, MCIndexer, MCApi, MCEventIndexing, MCKeys, MCValidation,
MCConstruction   instances for TLC
```

In several modules an operator named `Operation_Slip` stands before the operator
`Operation`: the same code with a plausible mistake. `PROJECT.json` pairs every
checked property with one of them under which TLC finds the property violated,
so that no property holds for want of a way to break it.

### StoreDB and Indexer

`db` is the content of badger as one record with a field per key prefix
(`store.go` 59-71), `disk` the part of it that would survive a power loss.
Amounts are integers, heights are numbers (their encoding is a component of its
own), a stored block is abstracted to the set of contracts whose events it was
indexed with. `BalanceAt` is the reverse seek of `getBalance`, `PrevBalance`
that of `setBlock` with its step over an entry of its own, `Magnitude` the sign
that `big.Int.Bytes` drops, `WriteBlock` the batch of one badger transaction.

What a block does to balances is given by the constants `Touched` and `Diff`,
and the assumption `FaithfulEvents` says that on the given chain the events
account for the ledger's balances `OnChain`. That the code computes such diffs
is the subject of EventIndexing; `MCChain` derives `Touched` and `Diff` from
events by the operators of `Transfers`. So does `EventProofs` for every chain,
where `FaithfulEvents` is a theorem (`EventsAreFaithful`).

A failure to read events is two faults: `"events"`, at which the indexer's
`log.Fatalf` begins an exit, and `"lateEvents"`, at which an exit has begun
elsewhere, `Exit` returns and the goroutine goes on.

The goroutine's place `pc` is `sleep` (head of the outer loop), `loop` (head of
the inner one), `events` (block read), `commit` (events read), `publish`
(transaction committed, `setHeight` not yet called). The actions follow the
code: `Poll`, `Stop`, `PassEnds`, `FetchBlock(Fails)`, `FetchEvents(...)`,
`Commit(Fails)`, `Publish`. Around them: `Start` (NewStore), `BeginExit`,
`Cancel`, `CloseAndExit` (the exit handlers), `ValidateAndExit`, `Kill`,
`PowerLoss`, `Flush`. A fatal error while validating is a `Kill`: with no
handler but the ledger's, the process ends where it stands.

### ChainView

What the store promises with no word of how: it holds a prefix of the chain's
history of balances, what it has told readers of lies within it, and only when
it goes down may it lose the newest blocks. `View` in Indexer maps `db` to the
history (the balances read at each height) and `idx` to what is told.

### Transfers and EventIndexing

The state of a block is the sequence of its executed transactions with their
events; `Execute` and `Notify` build every such sequence up to the bounds. The
forms of an event are those the decoders tell apart (native with and without
the fifth element, OEP4, EVM log, unreadable). The properties compare
`IndexBlock`, the code's loop, with `Reported` and `Moved`, which say what an
event means without looking at the code's flags.

### Api

One reader beside the indexer of module Indexer. A request is cut into the
reads the code makes: `getHeight`, the bound of `getBlockInfo` (a second
`getHeight`), each badger transaction, `syncStatus`. One reader stands for all:
requests only read. `seen` remembers the last current height a reader was told,
across restarts of the server. Peers, timestamps and currency checks are left
out. A panic drops one connection (net/http recovers it).

### Shutdown

Here the indexer is seen from outside and the handlers in full. `registry`
holds them by name; `Leave` is the part under the lock common to `Exit` and the
signal goroutine, which copies them; `todo[r]` is what goroutine `r` has left
to run. `main` walks through the steps of `runOnline` or `runOffline`; those
that call `log.Fatalf` may fail. `first` is a history variable: the handlers
registered when the exit began, which the properties refer to.

### Lexinum, HeightOrder and BalanceKeys

StoreDB speaks of heights as numbers and of keys as pairs. These modules say
why it may. Lexinum is the encoding byte by byte, in 32 bits, with the greatest
byte and the number of leading bytes of the short format as parameters, from
which all its other numbers follow. HeightOrder walks through the heights with
the bytes of the code. BalanceKeys writes entries for several accounts and
contracts, and searches the sorted keys as `getBalance`, `setBlock` and
`Validate` do; what they find is compared with the greatest height among those
written.

### Validation

`Validate` (`store.go` 270-380) changes nothing and runs alone, so it is an
operator, `Verdict`, on the state in which `IndexBlocks` has returned to
`runValidateStore`. It looks at `NewestStored`, the newest entry of a key at
whatever height, not at the balance at the height indexed; that these are the
same is part of what is to be shown. `OnChain[k][latest]` is what the call of
`balanceOf` answers (`chain/chain.go`).

### Payload and Construction

Code is a record of the first call of a contract in it, with the method and the
arguments on the stack by then, and of what the script does after it (`rest`:
the events it reports, the signatures it needs). Reading ends at that call
(`chain/payload.go` 46-58), and nothing checks that the script does; execution
goes on. What the API writes has no rest. `InvokeCode` and `constructTransfer`
write it, `ParsePayload` and `parsePayload` read it, and `Executed` gives the
events the node reports, those of the call, of the rest and of the fee, which
`IndexBlock` of Transfers indexes: the units of the four native methods meet
here. A record
of a transaction stands for its hash as well, which covers all of it but the
signatures.

Construction keeps, in the client's hands, the options of `/preprocess`, the
last answer of `/metadata`, the transactions of `/payloads` and of `/combine`:
the server itself keeps nothing. Options and metadata are one protobuf message,
so that either is accepted for the other. `/metadata` is cut into the reads it
makes (`MetadataBegins`, one of `HeaderSkipped`, `HeaderFails`, `PriceFound`,
`BlockFails`, `WindowEnds` per header, then `TryNonce` per random nonce or
`GivenNonce`), with `NewBlock`, `IndexNext` and submissions in between; the
client waits for its answer, for what it could do meanwhile touches nothing the
request reads. The other calls are one action each. `ConstructionParse` and
`MempoolTransaction` change nothing and are operators. External are the pool
(`AppendTxToPool` wants the payer's signature, and no transaction twice), blocks
of at most one transaction, and other wallets, who submit every method that
`ParsePayload` knows, one of them in a script that calls another contract
afterwards. A transaction fails only for want of a signature:
balances play no part in what these properties say. Decoding of hex, protobuf
and keys is left out, and so is the symbol of a currency. `/combine` compares
payloads and signatures as the code does, but not whether a key, a signature or
a payload is there and of the right curve, type and length (70-103); one case
of these dereferences a missing payload (94) and drops the connection.

## 3. The runs

| run | module, cfg | question | distinct states |
|---|---|---|---|
| `indexer` | MCValidation, Indexer.cfg | safety under all faults; a sound store is found valid | 38 thousand |
| `indexer_live` | MCValidation, IndexerLive.cfg | progress; a validation ends; refinement of ChainView | 1.8 thousand |
| `indexer_exit_returns` | MCIndexer, IndexerExitReturns.cfg | **violated**: Exit blocks | |
| `event_indexing` | MCEventIndexing, EventIndexing.cfg | diffs, fees, operations | 64 thousand |
| `api` | MCApi, Api.cfg | answers beside the indexer | 1.2 million |
| `api_panic` | MCApi, ApiPanic.cfg | **violated**: the status does not panic | |
| `shutdown` | Shutdown, Shutdown.cfg | order and end of an exit | 650 |
| `shutdown_fatal` | Shutdown, ShutdownFatal.cfg | **violated**: the indexer's own exit ends | |
| `shutdown_signal` | Shutdown, ShutdownSignal.cfg | **violated**: an exit during start-up ends | |
| `keys` | MCKeys, Keys.cfg | order of encoded heights; seeks and scan on encoded keys | 36 thousand |
| `construction` | MCConstruction, Construction.cfg | what is signed, parsed, told; prices and nonces | 271 thousand |
| `construction_amounts` | MCConstruction, ConstructionAmounts.cfg | **violated**: amounts are in the smallest unit | |

What they show:

* `BalancesMatch`: no sequence of retries, failed commits, re-indexed genesis
  blocks, kills, power losses and changes of configuration makes the store
  answer a balance that is not the ledger's, for tokens tracked from genesis.
* `IndexContiguous`, `ConflictsKnown`: the batch is whole; look-ups agree.
* `PublishedReadable`, `HeightNeverRegresses`: publication lags the commit and
  never runs ahead of it or back.
* `AnswersStable`: an answer once given is given for ever, even about tokens
  whose balance is not the ledger's; only genesis, while re-indexed, may gain
  balances.
* `ImplementsView`: all of that as one abstract machine.
* `CatchesUp`, `CancelEndsProcess`: see the fairness below.
* `DiffsAreMoves`, `OperationsReconcile`: a block's diffs are what its events
  moved, and the operations answered for it add up to them.
* `GasPaidOnce`: the transfer made of the first event that reports the charge
  (`FirstCharge`) is marked as the fee, shows that event, and is the only one so
  marked; with no such event none is. An EVM log reports the charge when the low
  word of its amount does: that is how the code reads it (`store.go` 1115), and
  an amount that is greater by 2^64 passes for the fee.
* `FailureEndsAtFee`: of a failed transaction exactly the transfers of ONG up to
  its fee are stored, in the order of their events, and the fee alone if it
  comes first. More than the fee may be stored: see below.
* `TokensAreIndependent`: it entitles StoreDB to treat tokens one by one.
* `BalancesAreOfTheBlock`, `AnswerIsAsked`, `StatusInOrder`,
  `ReadsAreMonotonic`: answers made of several reads are consistent because
  blocks, once committed, never change and the height is published last.
* `StoreOutlivesIndexer`, `LedgerClosedLast`, `RequestsFindStoreOpen`,
  `ExitEnds`: the shutdown.
* `OrderKept`, `RoundTrip`: the encoding is monotonic and can be undone, within
  a format, from the short to the long one, and where digits are added.
* `SeekIsNewest`, `ScanFindsNewest`: a seek never strays into
  another account's entries, whatever the lengths of the parts of the keys.
* `SignedIsAsked`, `ParsedIsAsked`: whatever options and operations a client
  combines, and in whatever order the operations come, the transaction to be
  signed moves just the amount asked for, and is read back as the operations
  asked for. The latter fails for the null address and for WASM tokens, which
  preprocess and payloads accept all the same: the property says so.
* `SignaturesFit`: signatures are over the transaction they are combined with,
  and those /payloads asks for are all it needs.
* `MempoolTellsBlock`: what is told of a transaction in the pool is exactly what
  its first call moves. Once it is executed, `/block` answers that, the fee, and
  what the rest of the script moved (`RestOps`), and nothing else. A transaction
  of one call, such as the API writes, is so told in full but for its fee; of a
  script of several calls only the first is told, and the property does not
  claim more. It leaves out the native methods that count in GWei: those are the
  fifth finding below.
* `PriceIsOfNewest`, `NonceFree`, `MetadataEnds`: the reads of `/metadata`, on a
  chain that grows meanwhile. The hundredth nonce is answered though it
  conflicts; the property leaves out that one.
* `SoundStoreIsValid`: `--validate-store` raises no false alarm. `VInv` is why:
  nothing is stored above the height indexed, and that is the ledger's.
* `ValidationEnds`: it ends, unless the ledger has its genesis block only or is
  behind the store; then the code polls for ever (`store.go` 110-117).

### Where the code and its comments disagree

1. `indexer_exit_returns`. `Exit` "blocks until the process terminates if it
   has already been called elsewhere" (`process/process.go` 21-22), but it
   returns (25-28). An indexer whose events cannot be read during a shutdown
   goes on past `log.Fatalf` (`store.go` 171) and stores the block without its
   transfers, for good.
2. `api_panic`. On a new store `heightSynced` is set and `heightIndexed` is
   nil until the first `setHeight`. Once block 0 is committed, and before
   that call, `/network/status` finds its blocks and `syncStatus` (710)
   dereferences nil.
3. `shutdown_fatal`. The indexer's `log.Fatalf` runs the handler that waits
   for the indexer (`main.go` 232). The process hangs, and a later SIGTERM
   hangs as well.
4. `shutdown_signal`. The waiting handler is set (230) before the cancelling
   one (242); a signal in between waits for ever.

5. `construction_amounts`. The README's samples of `/construction/parse` (965)
   and `/mempool/transaction` (1154) answer 1000000000 for a transaction that
   transfers 1 ONT by the native method `transfer`; `parseSys`
   (`chain/payload.go` 143) takes the amount as it stands and answers 1. The
   indexer multiplies the same amount, so `/block` differs from both.

Four more were met while modelling and have no run of their own. A `gas_price`
given to `/preprocess` is replaced by the default, whatever it is
(`construction_service.go` 850, `README.md` 778: only if unspecified). A random
nonce avoids the transactions indexed (226), not those in the pool or in blocks
still to be indexed (`README.md` 781: any "already seen by the node"). The
comment at 278 takes it that a transaction created by the API parses into two
operations, which one to the null address does not. And `appendOperations` gives
every operation the status of success, "assuming that only the gas fee transfers
would have been indexed for transactions that failed" (`block_service.go`
126-128), while `decodeTransfer` stores every transfer of ONG that precedes the
fee of such a transaction (`store.go` 1166-1176). Whether a node reports any is
not for this code to say; `FailureEndsAtFee` and its theorem say what is stored
if it does.

### Bounds

* Chain of three blocks (`MCHeight = 2`): genesis, which is special, a block
  after it, and one more, so that a balance has an entry, a gap and an older
  entry to seek back to. The chain mints, pays a fee in a failed transaction,
  moves ONG with a remainder, ONT and an OEP4 token.
* Two token configurations, without and with the OEP4 token, so that restarts
  add and remove it, before and after its first transfer.
* Process restarts are unbounded: nothing counts them.
* Blocks of up to two transactions and three events, over fifteen events:
  the fee, look-alikes of three kinds and one whose amount agrees with the fee
  in its low word alone, every form, mint, burn, a transfer to oneself, a
  negative amount, an untracked contract. A fee, one thing before it and one
  after it fit in.
* `GWei = 10` and `Word = 1000` stand for 10^9 and 2^64 and keep their order
  against the amounts used.
* Api: five block identifiers (current, by index, by hash, both in agreement
  and in conflict), a native and an OEP4 balance read one after the other.
* Keys: the bytes of the code. HeightOrder walks through 1200 heights around
  each place where the form of the encoding changes, up to 2147483600, where
  TLC's integers end. BalanceKeys has addresses of two bytes that resemble
  native ones; six pairs of account and contract; three entries, so that two of
  one key and one of a neighbour, or one of each of three neighbours, are
  there; seven heights on both sides of every change of format, the last one
  with the most digits. The two systems share a run and no variable.
* Construction: one option, one unsigned and one signed transaction in the
  client's hands, besides the last metadata: each comes from one of four
  requests, so that metadata and operations of different ones meet, and eight
  more requests are refused. Nonces are 0, which the code refuses, and 1, with
  two attempts (for 100), so that both may conflict and the last be answered; a
  window of one block (for 100) on a chain of three, so that the window begins
  both at genesis, where the countdown wraps, and above it; heights up to 4 for
  2^32 - 1. One transaction of another wallet, of four kinds, one of them with
  a second call.
* Validation: the chain, the modes and the faults of Indexer, in the same runs.
* Shutdown has no bound: its state is finite.

### Fairness

* The goroutine is scheduled: weak fairness of its local steps.
* A node and a store that are asked for the same block again and again answer
  some day: strong fairness of `FetchBlock`, `FetchEvents` and `Commit` for
  each height. The code retries for ever with a sleep in between, and gives up
  on nothing but an unreadable event. Fairness for "some block" would not do:
  genesis may be re-indexed over and over while block 1 fails. A failure that
  is permanent, such as a block too large for a badger transaction, is excluded
  by this; it is listed among the hazards.
* `CloseAndExit`, `ValidateAndExit`: the goroutine of the exit, or the main one
  after the validation, is scheduled.
* In Shutdown every goroutine is scheduled, and requests end.
* In Construction the goroutine of a request is scheduled (`Metadata`), and a
  header asked for again and again is read some day (strong fairness of
  `PriceFound`). Without the latter `/metadata` need not end: on a chain within
  the window, as long as genesis cannot be read, the countdown goes through all
  heights of 32 bits and begins again.
* Never assumed: that blocks arrive, processes start, signals come, anything
  fails, an exit begins.

`CHECK_DEADLOCK FALSE` is set where the system may stop: a block at its bounds
(EventIndexing), a process that is gone or hangs (Shutdown), heights and
entries at their bounds (Keys), a client and a chain at theirs (Construction).

## 4. The proofs

Eight modules prove, for every value of the constants that their assumptions
allow:

| module | theorem | property |
|---|---|---|
| IndexerProofs | `Inductive` | `IInv` |
|  | `TypeCorrect` | `TypeOK` |
|  | `BalancesCorrect` | `BalancesMatch` |
|  | `IndexCorrect` | `IndexContiguous` |
|  | `ConflictsCorrect` | `ConflictsKnown` |
|  | `PublishedCorrect` | `PublishedReadable` |
|  | `NeverRegresses` | `HeightNeverRegresses` |
|  | `AnswersNeverChange` | `AnswersStable` |
|  | `AllEventsOrNone` |  |
|  | `EventsAlwaysRead` | `NoBlockWithoutEvents` |
|  | `Implements` | `ImplementsView` |
|  | `InductiveV` | `VInv` |
|  | `SoundIsValid` | `SoundStoreIsValid` |
| ApiProofs | `BalancesOfOneBlock` | `BalancesAreOfTheBlock` |
|  | `AnswersAreAsked` | `AnswerIsAsked` |
|  | `StatusIsInOrder` | `StatusInOrder` |
|  | `ReadsMonotonic` | `ReadsAreMonotonic` |
|  | `PanicsInOneWindow` |  |
|  | `CurrentIsFound` |  |
| EventProofs | `BlockIsTyped` |  |
|  | `DiffsAreWhatMoved` | `DiffsAreMoves` |
|  | `OperationsAddUp` | `OperationsReconcile` |
|  | `GasIsPaidOnce` | `GasPaidOnce` |
|  | `FailureStopsAtFee` | `FailureEndsAtFee` |
|  | `TokensStayApart` | `TokensAreIndependent` |
|  | `EventsAreFaithful` | `FaithfulEvents`, of a chain of events |
|  | `ChangesAreIndexed` |  |
| ShutdownProofs | `ShutdownTypes` | `TypeOK` |
|  | `StoreOutlives` | `StoreOutlivesIndexer` |
|  | `LedgerLast` | `LedgerClosedLast` |
|  | `RequestsFindStore` | `RequestsFindStoreOpen` |
|  | `HangsForGood` |  |
| ConstructionProofs | `InductiveConstruction` | `ConstructionInv` |
|  | `ConstructionTypes` | `TypeOK` |
|  | `SignsWhatIsAsked` | `SignedIsAsked` |
|  | `ParsesWhatIsAsked` | `ParsedIsAsked` |
|  | `FittingSignatures` | `SignaturesFit` |
|  | `MempoolToldBlock` | `MempoolTellsBlock` |
|  | `NewestPrice` | `PriceIsOfNewest` |
|  | `FreeNonce` | `NonceFree` |
| LexinumProofs | `EncodedInOrder` |  |
|  | `DecodedIs` |  |
|  | `HeightsInOrder` | `OrderKept` |
|  | `HeightsSurvive` | `RoundTrip` |
|  | `KeysTyped` | `TypeOK` |
|  | `SeeksAreNewest` | `SeekIsNewest` |
|  | `ScanIsComplete` | `ScanFindsNewest` |

`Folding` and `TransferProofs` hold the facts about loops that the others rest
on.

What they assume, each of it named in the module that declares the constants
and evaluated by TLC in its run:

* `ChainAssumption`, `FaithfulEvents`: every chain whose events account for its
  balances, of any length, with any accounts, contracts and transactions.
  `FaithfulEvents` is proved in turn of the chains that `LedgerRuns` describes;
* `IndexerAssumption`, `ApiAssumption`, `ValidationAssumption`,
  `ShutdownAssumption`: every set of token configurations, modes, faults and
  requests;
* `TransfersAssumption`, `EventAssumption`: amounts are integers, those of the
  native contracts natural, for the code ends the process at a negative one
  (`store.go` 947-952 and 971-976), a case left out of the model; the remainder
  of an amount in GWei is less than one GWei, and an event without the fifth
  element has none;
* `TokensAssumption`: ONG and ONT are tracked, whatever else is configured
  (`NewStore`, `store.go` 761-797);
* `ConstructionAssumption`, `RequestAssumption`: the numbers in a request are
  integers or missing, its gas limit and nonce not negative (they are unsigned
  in the code); a currency is told by its two fields; gas is not negative;
* `ForeignAssumption`: what other wallets submit, and `ParsePayload` reads, is
  code the node can execute: only native contracts are called natively,
  nobody moves a negative amount, and what follows the first call, if anything
  does, reports events of the forms of `EventAssumption`, any number of them.
  Code it does not read may do anything;
* `LexinumAssumption`, `PowersAssumption`: a byte has more than four values, and
  a power of the base that fits a word is above every lead. With the bytes of
  the code that is 253^4, which fits 32 bits. Without it `pow` would wrap and
  the loop that counts digits might not end;
* `KeysAssumption`: addresses have one length of at least two bytes, there are
  finitely many, heights fit a word; `RangesAssumption`: so do those walked
  through.

`Implements` assumes besides that all tokens are configured throughout and that
no events are unreadable once an exit has begun, as its run does; the latter is
what `EventsAlwaysRead` assumes too. `EventsAreFaithful` and
`ChangesAreIndexed` assume `LedgerRuns`: the ledger's balances, never negative,
change by what the events of a block moved, and a failed transaction leaves
first of all the charge for its gas and nothing else. What a node does of this is outside the
repository.

Four findings are bounded by theorems. `NoBlockWithoutEvents` fails in the run
`indexer_exit_returns`; a block is stored without its events by no other way
than the one shown there (`AllEventsOrNone`, `EventsAlwaysRead`).
`StatusNeverPanics` fails; but in one window only, between the commit of genesis
and its publication (`PanicsInOneWindow`). `FatalTerminates` and
`SignalTerminates` fail; the two kinds of exit that show it never end, so that
`ExitEnds` excepts no exit that could (`HangsForGood`).

### Induction over data

The provers know no induction, and the library's induction theorems take a
predicate, which they cannot instantiate. `Folding` derives what is needed in
another form. That the natural numbers are well-founded is a fact of the
library about a relation and sets, without predicates; `LeastOf` takes from it
that a non-empty set of numbers has a least element, and `Induction` that a set
with zero and all successors holds every number up to `n`. A predicate is then
the set of those it holds of.

`FoldLeft` unfolds into a function chosen to satisfy a recursion over sets of
indices. `IteratesExist` builds one by that induction, and hence a fold has a
*trace*: what the loop holds before its first turn and after each. The step is
a constant of `Folding`, so that each loop of the code is an `INSTANCE` of it,
and a loop invariant is shown of the trace. The digits of a height, defined by
recursion on the quotient, are treated likewise (`DigitsDef`, `Upwards`).

### The indexer

The argument. `BalancesMatch` is not inductive: nothing in it says at which
height the next block is written, and a block written twice or out of turn
would break it. `IInv` adds:

* `InStep`: between passes the published height is the committed one; within a
  pass the goroutine works on the block after it, or on genesis while that is
  the only one; after a commit the store is exactly that block ahead;
* `OnlyTouched`: balance entries exist only where a block moved the balance,
  so that the newest entry below a height is the balance at that height;
* the same facts about `disk`, and `DiskBehind`, without which a power loss
  would have nothing to fall back to.

The heart is `WriteBlockMatches`: writing the block that is
next in turn, with whatever tokens, keeps all earlier answers and gives the
ledger's at the new height. It rests on `PrevIsBefore` (the entry `setBlock`
adds to is the balance one block before, also when the block is written again),
`EntrySetsBalance`, `NoEntryNoChange` and, below them, `NewestIsGreatest` (a
non-empty bounded set of heights has a maximum, by a pigeonhole argument on
cardinalities). `FaithfulEvents` then turns the
balance before plus the diff into the ledger's. The sign that `Magnitude` drops
does no harm there because the ledger's balances are natural numbers. `StepIInv`
takes the actions of `Next` one by one; the safety theorems follow from
`Inductive` and, for the action properties, from one step under `IInv`.

Its last part, on `--validate-store`, adds two facts to `IInv`: no entry lies above the height
indexed (`WriteNothingAbove`: a block is written at that height or the next),
and a process that has stopped indexing to validate is level with a ledger that
no longer grows. The newest entry of a key is then its balance at that height,
which `Matches` says is the ledger's.

Which events a block is stored with is `Parsed`: at a commit those of the
tokens configured, or none in a process that is exiting, whose `log.Fatalf` has
returned. With the tokens of a process among the configurations, and so those of
every block stored (`Configured`), this gives `EventsAlwaysRead`.

The part on ChainView goes on from there: with one configuration every block held was
indexed with all the tokens (`AllRead`). What the store answers is then the chain's history
up to its height (`HistoryIsTrue`); a commit of the next block is `Record`, one
of genesis again is a stutter, `Publish` and `Start` are `Tell`, and the ends
of a process are `GoDown`, where `DiskBehind` says that what is left after a
power loss is a prefix.

### The answers

`ApiProofs` goes on from `IInv`. `WhileUp` is what a request relies on: while
the process lives the store changes by a commit alone, and neither its height
nor the published one goes back. `LookupIsRight` is what a read transaction
finds. `ApiInv` then says, place by place, that the block found is in the store
and the one asked for (`FoundIt`), that a request for the current block asks
for one published and not before the last answered (`Current`), and that each
balance read so far is the ledger's at that block (`ReadSoFar`). The last needs
care with genesis alone, which may be written again between two reads: with the
tokens it had when the block was looked up, it is written as it was.

For what is not answered two facts more are kept: a block about to be published
is the next one or genesis (`NextOne`), and the current block is asked for by its
height alone (`ByHeightAlone`). A status request past its lookup has found a
block, so that the store is not empty; `heightIndexed` being nil then leaves the
place between commit and publication, and height 0, as the only ones.

### Events

`TransferProofs` follows the loops. `EventStep` says what one turn, a whole
`decodeTransfer` with its storing and summing, does to the state of the loop;
`TxnRuns` and `BlockRuns` carry an invariant through the events of a
transaction and the transactions of a block: every diff is an integer, the
transfers are a list. `EventsAddUp` and
`BlockAddsUp` then give the diff of each account and token as a sum over the
transfers stored, and `AnswersAddUp` that the operations answered have the same
sum: each transfer becomes a debit and a credit, and what belongs to the null
address is left out of both.

`EventProofs` adds the meaning of events. That the block is typed
(`BlockIsTyped`) is the invariant; everything else is a fact about all blocks.
`DecodeCounts` compares what is decoded with what `Moved` says, and summing up
gives `DiffsAreWhatMoved`. `GasIsPaidOnce` and `FailureStopsAtFee` compare the
loop with `FirstCharge` and `Lasting`, which look at the events alone. The
invariant, `Settled`, holds after `n` events: `gasVerified` is set just when one
of them was the first charge, the transfers are as many as the events among them
that last, each shows its event at its `Place`, and the one marked as a fee is
that of the first charge. `SettledStep` takes it over an event, whether kept or
not (`KeptLasts`); `ChargeReads` is the arithmetic of the low word.
For `TokensStayApart` the loop runs twice, with more and
with fewer tokens, and `BesideStep` relates the two turn by turn: an event of
another token leaves the diffs looked at alone, and `gasVerified`, which only an
event of ONG sets, agrees in both when ONG is among the fewer tokens and decides
nothing for them when it is not.

The last part joins this to the store. A chain of such blocks is put in the
place of the constants of StoreDB (`Store`). `TxnMoves` extends
`DiffsAreWhatMoved` to failed transactions, of which the fee is decoded and all
else left out: if the first event of each is the charge for its gas
(`FailuresCharged`), which is all the ledger keeps of it, the diffs of a block
are what it moved (`BlockMoves`), and they touch the accounts of its events and
tracked tokens alone (`BlockKeys`). This is `EventsAreFaithful`, the assumption under which the
indexer was proved right. A store configured with fewer tokens writes the part
of these diffs that `Changes` takes, for by `TokensStayApart` it is what the
loops make of the events with those tokens (`ChangesAreIndexed`).

### The shutdown

`ShutdownProofs`: the registry is a function of how far `main` and the server
have come (`Progress`), and a goroutine that runs the handlers has one of a few
lists left to run. The value the indexer sends on `done` is in the channel, in
the hands of one goroutine that is about to close the store, or spent
(`Token`); hence a single Close, after the indexer has returned. `Beginning`
and `Order` relate the handlers registered when the exit began to what has been
run, `Drains` says that whoever has the server's handler behind it leaves a
server that takes no more requests and has answered those it had, or has given
up on them.

The types (`ShutdownTypes`) are less plain than they look: that the store has
been closed at most twice needs `CountInv`. Beside the signal's goroutine
one goroutine at most is in `Exit`, for the flag is looked at under the lock
(`Alone`), each has closed the store at most once (`ClosedBy`), and runs the
lists of its own mode (`OfMode`).

That some exits hang is safety as well: `StuckInv` says why. When the indexer
itself is in `Exit` nobody comes past the receive from `done`, which it alone
could answer (`Fatal`). When a signal came between the two handlers only its
goroutine runs any, `main` is past all that can fail, and nobody cancels the
indexer (`Between`). `HangsForGood` says of both `[]~ended`, and that is proved
without fairness: the liveness that fails does so under any.

### Construction

`ConstructionProofs`: the transactions in the client's hands are the transfers
of their operations (`AllWritten`) and the signatures are over the transaction
they came with (`SignedOwn`); `Scanning` says that all the blocks of the window
above the height getGasPrice is at are empty, or that it could not read one and
remembers that; `Settled` what the price then is. A nonce once looked up stays
free of what was indexed when the request came in (`call.seen`). That the indexer
reads the transfer asked for out of the transaction signed is `InvokeCode`
followed by `Executed`, whose units cancel for each method.

That it is read back is `ParsesWhatIsAsked`. `AllAsked` keeps that every
transaction in the client's hands came with operations that `validateOps` let
through, hence a debit and a credit of one amount (`ValidPair`);
`WrittenRead` is `ParsePayload` after `InvokeCode`, and `AnswerIsValid` puts
the operations of the answer through `validateOps` again.

`MempoolToldBlock` is the meeting of both halves of the program: `Parsed` and
`ToldOps` say what the pool's transaction is told to do, `ExecutedMoves` what
the node's events for it move, those of the first call, of the rest of the
script and of the fee (`SumJoins`), and the lemmas of `TransferProofs` what the
indexer makes of those events and `/block` answers of that (`LoneAnswer`). `PoolInv` keeps
that whatever is executed was handed out or is another wallet's.

### The encoding

`LexinumProofs` is in six parts.

* Strings. `bytes.Compare` is decided at the first place where two strings
  differ or the shorter one ends (`LessAt`); from this it is a total order, and
  what lies between two strings with a prefix has the prefix
  (`BetweenPrefixed`).
* Digits. Up to the power assumed no multiplication wraps, and a number has at
  most `k` digits just when it is below the `k`-th power (`DigitsLen`), so that
  the loop counts the digits (`SizeIs`).
* The short format is three digits with a quotient deciding before its
  remainder (`QuotientFirst`).
* The long format. The count of digits does not fall as the height grows
  (`SizeGrows`); with equal counts the digits decide (`DigitsLess`), and with
  equal digits the remainder, which stands behind a mark lower than any digit.
  Reading the digits back undoes them (`DigitsValue`), and no digit is the mark.
  Hence `EncodedInOrder` and `DecodedIs` for all heights of a word.
* Keys. A shortened address begins with a tag that tells its length, so that
  the parts of a key are found again (`PartsOfKey`, `IdentIs`) and no key has
  the prefix of another pair (`OwnPrefix`); keys of one pair sort as their
  heights (`KeysInOrder`).
* Searches. The entries written are a finite set of strings, which has its ends
  (`Ends`). The greatest key at or below the one sought has the prefix only if
  it is of the same pair, and if there is an entry of that pair below, the
  greatest lies between two keys with the prefix (`NewestFound`). The scan
  keeps the last key before the account or contract changes, which is the newest
  (`ScanIs`).

### Only model-checked

Liveness: `CatchesUp`, `CancelEndsProcess`, `ValidationEnds`, `ExitEnds`,
`MetadataEnds`. Fairness and ENABLED are beyond the provers. Every other
property of a passing run is a theorem.

## 5. What is not modelled, and the plan

Not modelled: the node itself (its ledger is an external that grows and may
roll back with a power loss), badger's inside, HTTP and JSON, logging,
configuration files, the generated protobuf code, the command line tools, the
peers of `/network/status`, `/network/list`, `/network/options`,
`/construction/derive` and `/construction/hash` (functions of their argument),
the public keys of signatures and the decoding of what the client sends. The
interrupt that ends a process while it validates is a `Kill` of Indexer, and
`BeginExit` is of a serving process only; a call of `balanceOf` that fails while
a store is validated (`store.go` 344-349) is no case of `Verdict`, which speaks
of a scan that is completed. In Indexer, that the balance of a token added after its first transfers is stored
without its sign (`store.go` 666) is modelled, but no property says more than
that it is a natural number.

Three hazards have no property. Badger's limit is not modelled. That a block
with a transfer of a token no longer configured is refused, and that a signal
during start-up closes the ledger before the indexer that reads it is started,
are modelled as the code has them (`TransformFails`; the exits `LedgerClosedLast`
does not speak of), and nothing in the repository promises otherwise.

The order of the work:

1. StoreDB, Indexer, ChainView; their proofs. *(done)*
2. Transfers, EventIndexing. *(done)*
3. Api. *(done)*
4. Shutdown. *(done)*
5. Lexinum, HeightOrder, BalanceKeys. *(done)*
6. Validation; its proofs. *(done)*
7. Payload, Construction. *(done)*
8. The proofs of Shutdown, Construction, Api, of the refinement of ChainView and
   of the short format. *(done)*
9. Induction over data; the proofs of the events, of the pool and the parsing,
   of the types of Shutdown, of the long format, the keys and the searches.
   *(done)*
10. Left: the liveness of these systems, for provers that know ENABLED; a model
    of badger's limit on a transaction (`store.go` 72).
