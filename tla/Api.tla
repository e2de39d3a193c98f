-------------------------------- MODULE Api --------------------------------
(***************************************************************************)
(* The Data API read side (services/network_service.go, block_service.go,  *)
(* account_service.go over the getters of services/store.go) running       *)
(* beside the indexer.  A request reads the height kept in memory and the  *)
(* database several times, each read on its own, with the indexer free to  *)
(* step in between: setBlock's commit and setHeight are apart too.         *)
(*                                                                         *)
(* One reader stands for all: requests only read, so none disturbs another.*)
(***************************************************************************)
EXTENDS Indexer

CONSTANTS
  BlockIds,     \* the partial block identifiers asked for, [hash, index];
                \* ZeroHash and None where the field is not given
  Asked         \* the sets of contracts a balance is asked for at once

ASSUME ApiAssumption ==
  /\ BlockIds \subseteq [hash : Hashes \union {ZeroHash}, index : Heights \union {None}]
  /\ Asked \subseteq SUBSET Contracts

VARIABLES
  at,         \* where the request is, "idle" for none
  op,         \* "status", "balance", "block", "transaction"
  id,         \* the blockID: [byHeight, height, hash]
  tip,        \* the request named no block: it asks for the current one
  asked,      \* of a balance request: the account and the contracts
  cur,        \* what the lookup found: [height, hash, contracts]
  parent,     \* the parent's [height, hash]
  balances,   \* the balances read so far, None for a contract not read
  sync,       \* syncStatus: [current, target]
  seen        \* the last current height the reader was told

request == <<at, op, id, tip, asked, cur, parent, balances, sync>>
apiVars == <<vars, request, seen>>

NoId == [byHeight |-> FALSE, height |-> 0, hash |-> ZeroHash]
NoCur == [height |-> None, hash |-> ZeroHash, contracts |-> {}]
NoParent == [height |-> None, hash |-> ZeroHash]
NoneRead == [c \in Contracts |-> None]
NoSync == [current |-> None, target |-> None]
NotAsked == <<None, {}>>

NoRequest ==
  /\ at = "idle" /\ op = "status" /\ id = NoId /\ tip = FALSE /\ asked = NotAsked
  /\ cur = NoCur /\ parent = NoParent /\ balances = NoneRead /\ sync = NoSync

ApiInit == Init /\ NoRequest /\ seen = None

----------------------------------------------------------------------------
(* getBlockInfoRaw: one read transaction.                                  *)

Unknown == [ok |-> FALSE]
Found(d, h, x) == [ok |-> TRUE, height |-> h, hash |-> x,
                   contracts |-> IF d.blocks[h] = NoBlock THEN {} ELSE d.blocks[h]]

\* slip: an index finds its block whatever hash came with it
GetBlockInfoRaw_AnyHash(d, i) ==
  IF i.byHeight
  THEN IF d.hashAt[i.height] = ZeroHash THEN Unknown
       ELSE Found(d, i.height, IF i.hash = ZeroHash THEN d.hashAt[i.height] ELSE i.hash)
  ELSE IF i.hash = ZeroHash \/ d.heightOf[i.hash] = None THEN Unknown
       ELSE Found(d, d.heightOf[i.hash], i.hash)

\* By height: the hash stored there, which must be the one asked for unless
\* that is zero.  By hash: the height stored for it.
GetBlockInfoRaw(d, i) ==
  IF i.byHeight
  THEN IF \/ d.hashAt[i.height] = ZeroHash
          \/ i.hash # ZeroHash /\ i.hash # d.hashAt[i.height]
       THEN Unknown
       ELSE Found(d, i.height, d.hashAt[i.height])
  ELSE IF i.hash = ZeroHash \/ d.heightOf[i.hash] = None THEN Unknown
       ELSE Found(d, d.heightOf[i.hash], i.hash)

ByHeight(h) == [byHeight |-> TRUE, height |-> h, hash |-> ZeroHash]

----------------------------------------------------------------------------
(* The steps of a request.  An error ends it: nothing else happened.       *)

Fail ==
  /\ at' = "idle" /\ op' = "status" /\ id' = NoId /\ tip' = FALSE
  /\ asked' = NotAsked /\ cur' = NoCur /\ parent' = NoParent
  /\ balances' = NoneRead /\ sync' = NoSync

\* The handler's first lines: getBlockID for a request that names a block.
Ask(o, b, q) ==
  /\ Up
  /\ at = "idle"
  /\ o = "transaction" => b.hash # ZeroHash /\ b.index # None
  /\ op' = o
  /\ asked' = q
  /\ tip' = (o = "status" \/ (b.hash = ZeroHash /\ b.index = None))
  /\ id' = IF tip' THEN NoId
           ELSE [byHeight |-> b.index # None, hash |-> b.hash,
                 height |-> IF b.index = None THEN 0 ELSE b.index]
  /\ at' = IF tip' THEN "resolve" ELSE "bound"
  /\ UNCHANGED <<cur, parent, balances, sync>>

\* slip: the status starts from the stored height, not from the published one
Resolve_FromStore ==
  /\ at = "resolve"
  /\ id' = ByHeight(IF db.height = None THEN 0 ELSE db.height)
  /\ at' = IF op = "status" THEN "lookup" ELSE "bound"
  /\ UNCHANGED <<op, tip, asked, cur, parent, balances, sync>>

\* getHeight, for the current block: NetworkStatus goes on to look it up,
\* the others pass by getBlockInfo's bound.
Resolve ==
  /\ at = "resolve"
  /\ id' = ByHeight(GetHeight)
  /\ at' = IF op = "status" THEN "lookup" ELSE "bound"
  /\ UNCHANGED <<op, tip, asked, cur, parent, balances, sync>>

\* getBlockInfo reads the height a second time.
Bound ==
  /\ at = "bound"
  /\ IF id.byHeight /\ id.height > GetHeight
     THEN Fail
     ELSE at' = "lookup" /\ UNCHANGED <<op, id, tip, asked, cur, parent, balances, sync>>

Lookup ==
  /\ at = "lookup"
  /\ LET r == GetBlockInfoRaw(db, id) IN
     IF ~r.ok
     THEN Fail
     ELSE /\ cur' = [height |-> r.height, hash |-> r.hash, contracts |-> r.contracts]
          /\ at' = CASE op = "status" -> "genesis"
                     [] op = "balance" -> "balance"
                     [] op = "block" -> "parent"
                     [] OTHER -> "transform"
          /\ UNCHANGED <<op, id, tip, asked, parent, balances, sync>>

\* NetworkStatus: the genesis block, then the sync status.
Genesis ==
  /\ at = "genesis"
  /\ IF ~GetBlockInfoRaw(db, ByHeight(0)).ok
     THEN Fail
     ELSE at' = "sync" /\ UNCHANGED <<op, id, tip, asked, cur, parent, balances, sync>>

\* syncStatus reads *heightIndexed whenever heightSynced is set.
Sync ==
  /\ at = "sync"
  /\ IF synced # None /\ idx = None
     THEN at' = "panicked" /\ UNCHANGED sync
     ELSE at' = "answered" /\ sync' = [current |-> idx, target |-> synced]
  /\ UNCHANGED <<op, id, tip, asked, cur, parent, balances>>

\* slip: balances are read at the height that is current by then
ReadBalance_AtTip(c) ==
  /\ at = "balance"
  /\ c \in asked[2]
  /\ balances[c] = None
  /\ IF c \notin tokens
     THEN Fail
     ELSE /\ balances' = [balances EXCEPT ![c] = BalanceAt(db.acct[<<asked[1], c>>], GetHeight)]
          /\ UNCHANGED <<at, op, id, tip, asked, cur, parent, sync>>

\* getBalance: each contract in a read transaction of its own.
ReadBalance(c) ==
  /\ at = "balance"
  /\ c \in asked[2]
  /\ balances[c] = None
  /\ IF c \notin tokens
     THEN Fail
     ELSE /\ balances' = [balances EXCEPT ![c] = BalanceAt(db.acct[<<asked[1], c>>], cur.height)]
          /\ UNCHANGED <<at, op, id, tip, asked, cur, parent, sync>>

AnswerBalance ==
  /\ at = "balance"
  /\ \A c \in asked[2] : balances[c] # None
  /\ at' = "answered"
  /\ UNCHANGED <<op, id, tip, asked, cur, parent, balances, sync>>

\* Block: genesis is its own parent.
ReadParent ==
  /\ at = "parent"
  /\ IF cur.height = 0
     THEN /\ parent' = [height |-> cur.height, hash |-> cur.hash]
          /\ at' = "transform"
          /\ UNCHANGED <<op, id, tip, asked, cur, balances, sync>>
     ELSE LET r == GetBlockInfoRaw(db, ByHeight(cur.height - 1)) IN
          IF ~r.ok
          THEN Fail
          ELSE /\ parent' = [height |-> r.height, hash |-> r.hash]
               /\ at' = "transform"
               /\ UNCHANGED <<op, id, tip, asked, cur, balances, sync>>

\* The block holds transfers of a token that is no longer configured.
Undefined == {c \in cur.contracts \ tokens : Changes(cur.height, {c}) # {}}

\* transformTransaction of every transaction, or of the one asked for, which
\* may hold a transfer of such a token or not, and may not be in the block.
Transform ==
  /\ at = "transform"
  /\ op = "block" => Undefined = {}
  /\ at' = "answered"
  /\ UNCHANGED <<op, id, tip, asked, cur, parent, balances, sync>>

TransformFails ==
  /\ at = "transform"
  /\ Undefined # {} \/ op = "transaction"
  /\ Fail

\* The client has its answer, or the connection was dropped after a panic.
Finish == at \in {"answered", "panicked"} /\ Fail

Read ==
  \/ \E b \in BlockIds : \/ \E o \in {"status", "block", "transaction"} : Ask(o, b, NotAsked)
                         \/ \E a \in Accounts, s \in Asked : Ask("balance", b, <<a, s>>)
  \/ Resolve \/ Bound \/ Lookup \/ Genesis \/ Sync
  \/ \E c \in Contracts : ReadBalance(c)
  \/ AnswerBalance \/ ReadParent \/ Transform \/ TransformFails \/ Finish

\* What the reader remembers: the height of the last answer about the current
\* block.  Only a power loss is allowed to make the store forget it.
Remember ==
  seen' = IF at # "answered" /\ at' = "answered" /\ tip THEN cur.height ELSE seen

ApiNext ==
  \/ Read /\ Remember /\ UNCHANGED vars
  \/ Next /\ pc' # "down" /\ UNCHANGED <<request, seen>>
  \/ Next /\ pc' = "down" /\ Fail
     /\ seen' = IF db' # db THEN None ELSE seen

ApiSpec == ApiInit /\ [][ApiNext]_apiVars

----------------------------------------------------------------------------
(* Properties.                                                             *)

\* The balances of an answer are all those at the block it names, though they
\* are read one by one while blocks are added (getBalance, store.go 399-464).  The
\* token has to be one the block was indexed with when it was looked up:
\* genesis may be indexed again, with more of them, before the answer.
BalancesAreOfTheBlock ==
  at = "answered" /\ op = "balance" =>
    \A c \in asked[2] :
      c \in cur.contracts /\ TrackedSince(db, c, cur.height)
        => balances[c] = OnChain[<<asked[1], c>>][cur.height]

\* An answer names a block of the chain, the one asked for by index and by
\* hash wherever these were given, and as its parent the block below it, of
\* genesis itself, though that is read in another transaction (getBlockID,
\* getBlockInfoRaw, store.go 466-606; Block, block_service.go 38-52).
AnswerIsAsked ==
  at = "answered" =>
    /\ cur.height \in Heights /\ cur.hash = BlockHash[cur.height]
    /\ id.byHeight => cur.height = id.height
    /\ id.hash # ZeroHash => cur.hash = id.hash
    /\ op = "block" =>
         /\ parent.height = IF cur.height = 0 THEN 0 ELSE cur.height - 1
         /\ parent.hash = BlockHash[parent.height]

\* /network/status never reports a current block above its sync status, which
\* is read later (NetworkStatus, network_service.go 61-98).
StatusInOrder ==
  at = "answered" /\ op = "status" => cur.height <= sync.current

\* A reader that was told of a current block can go on with it: it is there,
\* after a kill and a restart as well, and no later answer about the current
\* block is about an earlier one (getHeight, setBlock, NewStore).
ReadsAreMonotonic ==
  [][ /\ seen' # None => seen' <= db'.height
      /\ seen' # seen => seen' = None \/ seen' > seen ]_apiVars

\* /network/status answers a request made while the store is indexing: it
\* reports sync_status.current_index or an error (README.md 353), it does not
\* crash.  heightIndexed and heightSynced are "protected" by mu (store.go 83),
\* but the commit that makes block 0 visible is not.
StatusNeverPanics == at # "panicked"
=============================================================================
