------------------------------ MODULE Indexer ------------------------------
(***************************************************************************)
(* The indexing goroutine (Store.IndexBlocks, setBlock, setHeight) with    *)
(* the ledger it reads, the store it writes, and the life of the process   *)
(* around it: NewStore at start, the ordered shutdown that ends with       *)
(* Store.Close, the early exit of --validate-store, and crashes.           *)
(*                                                                         *)
(* The badger transaction of setBlock and the update of the heights kept   *)
(* in memory are two steps, as in the code.                                *)
(***************************************************************************)
EXTENDS StoreDB

CONSTANTS
  TokenConfigs,   \* the sets of tokens a process may be configured with
  Modes,          \* "serve" (runOnline), "validate" (runValidateStore)
  Faults          \* the failures considered: "block", "events", "lateEvents",
                  \* "commit", "kill", "powerloss"

ASSUME IndexerAssumption ==
  /\ TokenConfigs \subseteq SUBSET Contracts
  /\ Modes \subseteq {"serve", "validate"}
  /\ Faults \subseteq {"block", "events", "lateEvents", "commit", "kill", "powerloss"}

VARIABLES
  latest,     \* actor.GetCurrentBlockHeight()
  db,         \* the content of the store as the process reads it
  disk,       \* the content that would survive a power loss
  mode,       \* what the process was started as
  tokens,     \* s.tokens
  idx,        \* *s.heightIndexed, None for nil
  synced,     \* *s.heightSynced, None for nil
  pc,         \* where the indexing goroutine is
  height,     \* its local height
  target,     \* its local latest
  parsed,     \* the contracts whose events of the block at height it has read
  exiting,    \* process.exiting: an exit has begun
  cancelled,  \* the context of the indexer is cancelled
  done        \* cfg.Done holds a value

node == <<latest>>
store == <<db, disk>>
shared == <<idx, synced>>
local == <<height, target, parsed>>
life == <<mode, tokens>>
exit == <<exiting, cancelled, done>>
vars == <<latest, db, disk, mode, tokens, idx, synced, pc, height, target,
          parsed, exiting, cancelled, done>>

\* Places of the goroutine: asleep at the head of the outer loop, at the head
\* of the inner loop, with the block read, with its events read, with the
\* block committed; returned after a cancel, returned by ExitEarly, or stuck
\* in the exit handlers that its own log.Fatalf runs.
Running == {"sleep", "loop", "events", "commit", "publish"}
Places == Running \union {"down", "stopped", "finished", "fatal"}

Up == pc # "down"

TypeOK ==
  /\ latest \in Heights
  /\ db \in DBType
  /\ disk \in DBType
  /\ mode \in {"serve", "validate"}
  /\ tokens \in SUBSET Contracts
  /\ idx \in Heights \union {None}
  /\ synced \in Heights \union {None}
  /\ pc \in Places
  /\ height \in 0..(MaxHeight + 1)
  /\ target \in Heights
  /\ parsed \in SUBSET Contracts
  /\ exiting \in BOOLEAN
  /\ cancelled \in BOOLEAN
  /\ done \in BOOLEAN

Init ==
  /\ latest = 0                     \* InitLedger makes the genesis block
  /\ db = EmptyDB
  /\ disk = EmptyDB
  /\ mode = "serve"
  /\ tokens = {}
  /\ idx = None
  /\ synced = None
  /\ pc = "down"
  /\ height = 0
  /\ target = 0
  /\ parsed = {}
  /\ exiting = FALSE
  /\ cancelled = FALSE
  /\ done = FALSE

----------------------------------------------------------------------------
(* The ledger of the node, which runs in the same process.  runOnline      *)
(* starts the P2P server that makes it grow; runValidateStore does not.    *)

NodeGrows ==
  /\ Up
  /\ mode = "serve"
  /\ latest < MaxHeight
  /\ latest' = latest + 1
  /\ UNCHANGED <<store, shared, local, life, exit, pc>>

----------------------------------------------------------------------------
(* NewStore: the tokens of the configuration and the heights, the indexed  *)
(* one from the "height" key, the synced one from the ledger.              *)

\* slip: the ledger's height taken for the indexed one
Start_AtLedger(m, toks) ==
  /\ pc = "down"
  /\ mode' = m
  /\ tokens' = toks
  /\ idx' = latest
  /\ synced' = latest
  /\ pc' = "sleep"
  /\ UNCHANGED <<node, store, local, exit>>

Start(m, toks) ==
  /\ pc = "down"
  /\ mode' = m
  /\ tokens' = toks
  /\ idx' = db.height
  /\ synced' = latest
  /\ pc' = "sleep"
  /\ UNCHANGED <<node, store, local, exit>>

----------------------------------------------------------------------------
(* IndexBlocks.                                                            *)

\* getHeight: a nil height reads as zero.
GetHeight == IF idx = None THEN 0 ELSE idx

\* The height the next pass begins at: genesis is indexed again as long as
\* it is the only block, for a nil height and height zero look the same.
FirstHeight_SkipsGenesis == GetHeight + 1   \* slip: always the next height
FirstHeight_Restarts == 0                   \* slip: every pass from genesis
FirstHeight == IF GetHeight > 0 THEN GetHeight + 1 ELSE GetHeight

\* slip: the goroutine returns without telling cfg.Done
Stop_Silent ==
  /\ \/ pc = "sleep"
     \/ pc = "loop" /\ height <= target
  /\ cancelled
  /\ pc' = "stopped"
  /\ UNCHANGED <<node, store, shared, local, life, exit>>

\* Either check of ctx.Done(): at the head of a pass and before a block.
Stop ==
  /\ \/ pc = "sleep"
     \/ pc = "loop" /\ height <= target
  /\ cancelled
  /\ done' = TRUE
  /\ pc' = "stopped"
  /\ UNCHANGED <<node, store, shared, local, life, exiting, cancelled>>

\* slip: the ledger's height is read at start only
Poll_Once ==
  /\ pc = "sleep"
  /\ ~cancelled
  /\ height' = FirstHeight
  /\ target' = synced
  /\ pc' = IF mode = "validate" /\ FirstHeight = latest + 1
           THEN "finished"
           ELSE "loop"
  /\ UNCHANGED <<node, store, shared, life, exit, parsed>>

\* slip: the early exit is looked for at the height reached, not the next one
Poll_ExitsLevel ==
  /\ pc = "sleep"
  /\ ~cancelled
  /\ height' = FirstHeight
  /\ target' = latest
  /\ pc' = IF mode = "validate" /\ FirstHeight = latest
           THEN "finished"
           ELSE "loop"
  /\ UNCHANGED <<node, store, shared, life, exit, parsed>>

\* A pass begins: the height to go on from and the height to reach.
Poll ==
  /\ pc = "sleep"
  /\ ~cancelled
  /\ height' = FirstHeight
  /\ target' = latest
  /\ pc' = IF mode = "validate" /\ FirstHeight = latest + 1
           THEN "finished"
           ELSE "loop"
  /\ UNCHANGED <<node, store, shared, life, exit, parsed>>

PassEnds ==
  /\ pc = "loop"
  /\ height > target
  /\ pc' = "sleep"
  /\ UNCHANGED <<node, store, shared, local, life, exit>>

\* GetBlockByHeight and the hashes of its transactions.
FetchBlock ==
  /\ pc = "loop"
  /\ height <= target
  /\ ~cancelled
  /\ pc' = "events"
  /\ UNCHANGED <<node, store, shared, local, life, exit>>

FetchBlockFails ==
  /\ "block" \in Faults
  /\ pc = "loop"
  /\ height <= target
  /\ ~cancelled
  /\ pc' = "sleep"
  /\ UNCHANGED <<node, store, shared, local, life, exit>>

\* GetEventNotifyByHeight and the loop that decodes the events of the
\* configured tokens.  A block without events (ErrNotFound) comes here too:
\* there is nothing in it to read.
FetchEvents ==
  /\ pc = "events"
  /\ parsed' = tokens
  /\ pc' = "commit"
  /\ UNCHANGED <<node, store, shared, life, exit, height, target>>

\* Any other error is log.Fatalf, that is process.Exit.  The first caller
\* runs the exit handlers: serving, they cancel the context and then wait
\* for this very goroutine; validating, only the ledger is closed and the
\* process ends.
FetchEventsFatal ==
  /\ "events" \in Faults
  /\ pc = "events"
  /\ ~exiting
  /\ mode = "serve"
  /\ exiting' = TRUE
  /\ cancelled' = TRUE
  /\ pc' = "fatal"
  /\ UNCHANGED <<node, store, shared, local, life, done>>

\* When an exit has begun elsewhere process.Exit returns, log.Fatalf with it,
\* and the goroutine goes on to store the block with no transfers.
FetchEventsFailsExiting ==
  /\ "lateEvents" \in Faults
  /\ pc = "events"
  /\ exiting
  /\ parsed' = {}
  /\ pc' = "commit"
  /\ UNCHANGED <<node, store, shared, life, exit, height, target>>

\* setBlock, up to the end of db.Update.
Commit ==
  /\ pc = "commit"
  /\ db' = WriteBlock(db, height, parsed)
  /\ pc' = "publish"
  /\ UNCHANGED <<node, disk, shared, local, life, exit>>

\* slip: the error of db.Update is not returned
CommitFails_Ignored ==
  /\ "commit" \in Faults
  /\ pc = "commit"
  /\ pc' = "publish"
  /\ UNCHANGED <<node, store, shared, local, life, exit>>

\* db.Update fails and nothing of the block is written; the pass is over.
CommitFails ==
  /\ "commit" \in Faults
  /\ pc = "commit"
  /\ pc' = "sleep"
  /\ UNCHANGED <<node, store, shared, local, life, exit>>

\* setHeight, and the next turn of the inner loop.
Publish ==
  /\ pc = "publish"
  /\ idx' = height
  /\ synced' = target
  /\ height' = height + 1
  /\ pc' = "loop"
  /\ UNCHANGED <<node, store, life, exit, target, parsed>>

----------------------------------------------------------------------------
(* The end of the process.                                                 *)

\* What is in memory is gone with the process.
Forget ==
  /\ pc' = "down"
  /\ mode' = "serve"
  /\ tokens' = {}
  /\ idx' = None
  /\ synced' = None
  /\ height' = 0
  /\ target' = 0
  /\ parsed' = {}
  /\ exiting' = FALSE
  /\ cancelled' = FALSE
  /\ done' = FALSE

\* An interrupt, or the exit of another goroutine, begins the shutdown ...
BeginExit ==
  /\ Up
  /\ mode = "serve"
  /\ ~exiting
  /\ exiting' = TRUE
  /\ UNCHANGED <<node, store, shared, local, life, pc, cancelled, done>>

\* ... whose handlers run in reverse order: cancel the indexer ...
Cancel ==
  /\ Up
  /\ exiting
  /\ ~cancelled
  /\ cancelled' = TRUE
  /\ UNCHANGED <<node, store, shared, local, life, pc, exiting, done>>

\* ... wait for it, close the store (all it holds reaches the disk), exit.
CloseAndExit ==
  /\ Up
  /\ exiting
  /\ cancelled
  /\ done
  /\ disk' = db
  /\ Forget
  /\ UNCHANGED <<node, db>>

\* IndexBlocks has returned to runValidateStore: it checks the balances and
\* the process ends, without a Store.Close.
ValidateAndExit ==
  /\ pc = "finished"
  /\ Forget
  /\ UNCHANGED <<node, store>>

\* A kill, a fatal error of a validating process, or an interrupt of one:
\* what badger wrote stays in the files.
Kill ==
  /\ "kill" \in Faults
  /\ Up
  /\ Forget
  /\ UNCHANGED <<node, store>>

\* The machine stops: the store falls back to what had reached the disk, and
\* the ledger may too.
PowerLoss ==
  /\ "powerloss" \in Faults
  /\ Up
  /\ Forget
  /\ db' = disk
  /\ latest' \in 0..latest
  /\ UNCHANGED disk

\* Badger writes to disk when it sees fit.
Flush ==
  /\ "powerloss" \in Faults
  /\ Up
  /\ disk' = db
  /\ UNCHANGED <<node, db, shared, local, life, exit, pc>>

----------------------------------------------------------------------------
Index ==
  \/ Poll \/ PassEnds \/ Stop
  \/ FetchBlock \/ FetchBlockFails
  \/ FetchEvents \/ FetchEventsFatal \/ FetchEventsFailsExiting
  \/ Commit \/ CommitFails \/ Publish

Next ==
  \/ NodeGrows
  \/ \E m \in Modes, toks \in TokenConfigs : Start(m, toks)
  \/ Index
  \/ BeginExit \/ Cancel \/ CloseAndExit \/ ValidateAndExit
  \/ Kill \/ PowerLoss \/ Flush

Spec == Init /\ [][Next]_vars

\* The goroutine is scheduled, and a node and a store that are asked for the
\* same block again and again answer some day: only a failure every single
\* time is excluded.  It has to be said block by block, for genesis may be
\* indexed over and over while block 1 fails.  Nothing makes blocks arrive,
\* processes start or exits begin.
Fairness ==
  /\ WF_vars(Poll) /\ WF_vars(PassEnds) /\ WF_vars(Stop) /\ WF_vars(Publish)
  /\ \A h \in Heights : /\ SF_vars(height = h /\ FetchBlock)
                        /\ SF_vars(height = h /\ FetchEvents)
                        /\ SF_vars(height = h /\ Commit)
  /\ WF_vars(CloseAndExit) /\ WF_vars(ValidateAndExit)

FairSpec == Spec /\ Fairness
----------------------------------------------------------------------------
(* Properties.                                                             *)

\* The balance the store answers at an indexed height is the ledger's own
\* balance at that height, for every token whose transfers were read from
\* genesis on: whatever retries, failed commits, crashes, re-indexed genesis
\* blocks and changes of configuration lie in between (setBlock's reverse
\* seek and the skip of an entry of its own, store.go 636-670).
BalancesMatch == Matches(db) /\ Matches(disk)

\* The blocks held are 0..height without a gap, and the lookups by height, by
\* hash and of the block itself agree on every one of them and hold nothing
\* else (the batch of setBlock and the choice of the next height, store.go
\* 110-118 and 671-689).
IndexContiguous == Contiguous(db) /\ Contiguous(disk)

\* A transaction of an indexed block is known to the nonce check, and no
\* other is: else /construction/metadata hands out a nonce that conflicts or
\* refuses one that does not (store.go 148-167, 681-688).
ConflictsKnown == TxnsKnown(db) /\ TxnsKnown(disk)

\* A height readers are told of has been committed: between the commit of
\* setBlock and setHeight the store is ahead, never behind (store.go 694).
PublishedReadable ==
  Up /\ idx # None => /\ idx <= db.height
                      /\ \A h \in 0..idx : db.hashAt[h] = BlockHash[h]

\* While a process lives the height it reports never goes back, and the store
\* itself loses blocks only to a power loss (setHeight, store.go 698-703).
HeightNeverRegresses ==
  [][ /\ Up /\ pc' # "down" => idx' >= idx
      /\ db'.height < db.height => pc' = "down" /\ db' = disk ]_vars

\* What was once answered is answered for ever: no later step changes the
\* balance at a height that stays indexed, save that genesis, indexed again
\* while it is the only block, may gain the balances of tokens it was not
\* indexed with before, and a power loss may take them away again.
AnswersStable == [][SameAnswers(db, db')]_vars

\* The indexer catches up: a block the ledger has is indexed some day, unless
\* the process ends or begins to (the retries of IndexBlocks, store.go 131
\* and 264).
CatchesUp ==
  \A h \in Heights :
    (Up /\ latest >= h) ~> (db.height >= h \/ exiting \/ ~Up)

\* A cancelled indexer stops and lets the store be closed and the process
\* end, unless the exit is the indexer's own (store.go 104-109 and 119-124,
\* main.go 230-242).
CancelEndsProcess == cancelled ~> (~Up \/ pc = "fatal")

\* Why the above hold: between passes the published height is the committed
\* one, within a pass the goroutine works on the block after it (or genesis
\* again), and just after a commit the store is that one block ahead.
InStep ==
  /\ Up /\ pc # "publish" => idx = db.height
  /\ pc = "publish" => db.height = height /\ height <= target /\ idx <= height
  /\ pc \in {"loop", "events", "commit"} =>
       \/ height = idx + 1
       \/ height = 0 /\ idx \in {0, None}
  /\ pc \in {"events", "commit"} => height <= target

\* A content of the store that the invariants above allow.
GoodContent(d) ==
  d \in DBType /\ OnlyTouched(d) /\ Matches(d) /\ Contiguous(d) /\ TxnsKnown(d)

\* What reached the disk is behind the store and answers alike.
DiskBehind == disk.height <= db.height /\ SameAnswers(disk, db)

\* The inductive invariant: each step preserves it, whatever the constants
\* (IndexBlocks and setBlock as a whole, store.go 99-268 and 625-703).
IInv == TypeOK /\ InStep /\ GoodContent(db) /\ GoodContent(disk) /\ DiskBehind

\* process.Exit "blocks until the process terminates if it has already been
\* called elsewhere" (process.go 21-22): after log.Fatalf the indexer does
\* nothing more, so no block is ever stored without its configured tokens.
NoBlockWithoutEvents ==
  \A h \in Heights : db.blocks[h] # NoBlock => db.blocks[h] \in TokenConfigs

----------------------------------------------------------------------------
(* The store as its readers see it.                                        *)

Snapshot(h) == [k \in Keys |-> OnChain[k][h]]

View == INSTANCE ChainView WITH
  Chain   <- [n \in 1..(MaxHeight + 1) |-> Snapshot(n - 1)],
  history <- [n \in 1..(db.height + 1) |->
                [k \in Keys |-> BalanceAt(db.acct[k], n - 1)]],
  told    <- IF Up THEN idx + 1 ELSE 0

\* With tokens that never change and no unreadable events once an exit has
\* begun, the indexer implements the append-only view of the chain's balances.
ImplementsView == View!Spec
=============================================================================
