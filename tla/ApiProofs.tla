----------------------------- MODULE ApiProofs -----------------------------
(***************************************************************************)
(* The answers of the Data API, for every chain, every set of questions    *)
(* and every interleaving of a request with the indexer.                   *)
(*                                                                         *)
(* The argument: as long as a process lives its store only grows, so what  *)
(* a request has found stays found, and the height it was told stays at or *)
(* below the one published.  Genesis alone may be written again, and only  *)
(* while it is the only block; balances of the tokens it already had are   *)
(* written as they were.                                                   *)
(***************************************************************************)
EXTENDS Api, IndexerProofs

\* Places where a request has found its block.
HasBlock == at \in {"genesis", "sync", "balance", "parent", "transform", "answered"}

\* The kind of request says where it can be.
Shape ==
  /\ at \in {"idle", "resolve", "bound", "lookup", "panicked"} \/ HasBlock
  /\ op \in {"status", "balance", "block", "transaction"}
  /\ tip \in BOOLEAN
  /\ id \in [byHeight : BOOLEAN, height : Heights, hash : Hashes \union {ZeroHash}]
  /\ balances \in [Contracts -> Int]
  /\ at \in {"genesis", "sync"} => op = "status"
  /\ at = "balance" => op = "balance"
  /\ at = "parent" => op = "block"
  /\ at = "transform" => op \in {"block", "transaction"}
  /\ at # "idle" /\ op = "status" => tip
  /\ at # "idle" /\ op = "balance" =>
       asked[1] \in Accounts /\ asked[2] \in SUBSET Contracts

\* Only a living process is asked, and it has taken the ledger's height.
Live == (at # "idle" => Up) /\ (Up => synced # None)

\* A request for the current block asks for one that is published, and not
\* for one before the last that was answered.
Current ==
  tip /\ (HasBlock \/ at \in {"bound", "lookup", "panicked"}) =>
    id.byHeight /\ id.height <= GetHeight /\ (seen # None => seen <= id.height)

\* The block found is in the store, and is the one asked for.
FoundIt ==
  HasBlock => /\ cur.height \in Heights /\ cur.height <= db.height
              /\ cur.hash = BlockHash[cur.height]
              /\ id.byHeight => cur.height = id.height
              /\ id.hash # ZeroHash => cur.hash = id.hash

\* A balance that was read is the ledger's; until then the store has it.
Unchanging(c) == cur.height = 0 \/ TrackedSince(db, c, cur.height)

ReadSoFar ==
  /\ ~HasBlock \/ op # "balance" => \A c \in Contracts : balances[c] = None
  /\ HasBlock /\ op = "balance" =>
       /\ cur.height = 0 =>
            \A k \in Keys : k[2] \in cur.contracts =>
              BalanceAt(db.acct[k], 0) = OnChain[k][0]
       /\ \A c \in asked[2] :
            balances[c] # None /\ c \in cur.contracts /\ Unchanging(c) =>
              balances[c] = OnChain[<<asked[1], c>>][cur.height]
       /\ at = "answered" => \A c \in asked[2] : balances[c] # None

\* The parent, and the status, as they are answered.
Completed ==
  /\ at \in {"transform", "answered"} /\ op = "block" =>
       /\ parent.height = IF cur.height = 0 THEN 0 ELSE cur.height - 1
       /\ parent.hash = BlockHash[parent.height]
  /\ at = "answered" /\ op = "status" => cur.height <= sync.current

\* What the reader remembers is in the store and published.
Remembered ==
  /\ seen \in Heights \union {None}
  /\ seen # None => seen <= db.height /\ (Up => seen <= GetHeight)

ApiInv == IInv /\ Shape /\ Live /\ Current /\ FoundIt /\ ReadSoFar /\ Completed /\ Remembered

----------------------------------------------------------------------------
(* What the store and the indexer give a request.                          *)

\* Types, as arithmetic wants them.
LEMMA HeightsAreInts ==
  ASSUME IInv
  PROVE  /\ Heights \subseteq Nat /\ 0 \in Heights
         /\ db.height \in Heights \union {None} /\ db.height \in Int
         /\ idx \in Heights \union {None} /\ idx \in Int
         /\ GetHeight \in Heights
         /\ height \in Nat /\ None = -1
<1>1. Heights \subseteq Nat /\ 0 \in Heights /\ None = -1
  BY ChainAssumption DEF Heights, None
<1>2. db.height \in Heights \union {None} BY DEF IInv, TypeOK, DBType
<1>3. idx \in Heights \union {None} /\ height \in Nat BY DEF IInv, TypeOK
<1>4. GetHeight \in Heights BY <1>1, <1>3 DEF GetHeight
<1>5. db.height \in Int /\ idx \in Int
  BY <1>2, <1>3, ChainAssumption DEF Heights, None
<1> QED BY <1>1, <1>2, <1>3, <1>4, <1>5

\* A published height is stored.
LEMMA PublishedIsStored ==
  ASSUME IInv, Up
  PROVE  idx <= db.height
<1>1. CASE pc = "publish"
  BY <1>1, HeightsAreInts DEF IInv, InStep
<1>2. CASE pc # "publish"
  BY <1>2, HeightsAreInts DEF IInv, InStep
<1> QED BY <1>1, <1>2

\* A lookup that finds a block finds the one it was asked for.
LEMMA LookupIsRight ==
  ASSUME IInv, NEW i \in [byHeight : BOOLEAN, height : Heights, hash : Hashes \union {ZeroHash}],
         GetBlockInfoRaw(db, i).ok
  PROVE  LET r == GetBlockInfoRaw(db, i)
         IN  /\ r.height \in Heights /\ r.height <= db.height
             /\ r.hash = BlockHash[r.height]
             /\ i.byHeight => r.height = i.height
             /\ i.hash # ZeroHash => r.hash = i.hash
             /\ r.contracts = db.blocks[r.height] /\ db.blocks[r.height] # NoBlock
<1> DEFINE r == GetBlockInfoRaw(db, i)
<1>c. Contiguous(db) BY DEF IInv, GoodContent
<1>1. CASE i.byHeight
  <2>1. /\ db.hashAt[i.height] # ZeroHash
        /\ i.hash # ZeroHash => i.hash = db.hashAt[i.height]
        /\ r = Found(db, i.height, db.hashAt[i.height])
    BY <1>1 DEF GetBlockInfoRaw, Unknown
  <2>2. i.height \in Heights OBVIOUS
  <2>3. i.height <= db.height /\ db.hashAt[i.height] = BlockHash[i.height]
    BY <1>c, <2>1, <2>2 DEF Contiguous
  <2>4. db.blocks[i.height] # NoBlock BY <1>c, <2>2, <2>3 DEF Contiguous
  <2> QED BY <1>1, <2>1, <2>2, <2>3, <2>4 DEF Found
<1>2. CASE ~i.byHeight
  <2>1. /\ i.hash # ZeroHash /\ db.heightOf[i.hash] # None
        /\ r = Found(db, db.heightOf[i.hash], i.hash)
    BY <1>2 DEF GetBlockInfoRaw, Unknown
  <2>2. i.hash \in Hashes BY <2>1
  <2>3. db.heightOf[i.hash] \in Heights
    BY <2>1, <2>2 DEF IInv, TypeOK, DBType
  <2>4. BlockHash[db.heightOf[i.hash]] = i.hash
    BY <1>c, <2>1, <2>2 DEF Contiguous
  <2>5. db.heightOf[i.hash] <= db.height
    BY <1>c, <2>1, <2>3, <2>4 DEF Contiguous
  <2>6. db.blocks[db.heightOf[i.hash]] # NoBlock
    BY <1>c, <2>3, <2>5 DEF Contiguous
  <2> QED BY <1>2, <2>1, <2>3, <2>4, <2>5, <2>6 DEF Found
<1> QED BY <1>1, <1>2

\* While the process lives the published height does not go back, nor does
\* the store, which changes by a commit alone.
LEMMA WhileUp ==
  ASSUME IInv, Next, pc' # "down"
  PROVE  /\ db'.height >= db.height
         /\ db' # db => Up /\ Commit
         /\ Up => GetHeight' >= GetHeight
         /\ ~Up => idx' = db.height /\ synced' # None
         /\ synced # None => synced' # None
<1>h. /\ idx \in Int /\ db.height \in Int /\ db.height >= -1 /\ idx >= -1
      /\ height \in Nat /\ None = -1 /\ \A h \in Heights : h # None
  BY ChainAssumption DEF IInv, TypeOK, DBType, Heights, None
<1>1. CASE Publish
  <2>1. idx <= height /\ target # None
    BY <1>1, <1>h DEF Publish, IInv, InStep, TypeOK
  <2> QED BY <1>1, <1>h, <2>1 DEF Publish, store, GetHeight, Up
<1>2. CASE Commit
  <2>1. db'.height = height /\ idx' = idx /\ synced' = synced /\ Up
    BY <1>2 DEF Commit, WriteBlock, shared, Up
  <2>2. idx = db.height /\ (height = idx + 1 \/ (height = 0 /\ idx \in {0, None}))
    BY <1>2 DEF Commit, IInv, InStep, Up
  <2> QED BY <1>2, <1>h, <2>1, <2>2 DEF GetHeight
<1>3. CASE \E m \in Modes, toks \in TokenConfigs : Start(m, toks)
  <2>1. latest \in Heights BY DEF IInv, TypeOK
  <2> QED BY <1>3, <1>h, <2>1 DEF Start, Up, store
<1>4. CASE CloseAndExit \/ ValidateAndExit \/ Kill \/ PowerLoss
  BY <1>4 DEF CloseAndExit, ValidateAndExit, Kill, PowerLoss, Forget
<1>5. CASE \/ NodeGrows \/ Poll \/ PassEnds \/ Stop \/ FetchBlock
           \/ FetchBlockFails \/ FetchEvents \/ FetchEventsFatal
           \/ FetchEventsFailsExiting \/ CommitFails \/ BeginExit \/ Cancel
           \/ Flush
  <2>1. db' = db /\ idx' = idx /\ synced' = synced /\ Up
    BY <1>5 DEF NodeGrows, Poll, PassEnds, Stop, FetchBlock, FetchBlockFails,
       FetchEvents, FetchEventsFatal, FetchEventsFailsExiting, CommitFails,
       BeginExit, Cancel, Flush, store, shared, Up
  <2> QED BY <2>1, <1>h DEF GetHeight
<1> QED BY <1>1, <1>2, <1>3, <1>4, <1>5 DEF Next, Index
----------------------------------------------------------------------------
(* A request that is over, with its answer or without one.                 *)

\* A request that ends without an answer leaves nothing behind that is wrong.
LEMMA FailStep ==
  ASSUME IInv', Fail, Up' => synced' # None, Remembered'
  PROVE  ApiInv'
<1>0. 0 \in Heights BY ChainAssumption DEF Heights
<1>1. Shape'
  <2>1. id' \in [byHeight : BOOLEAN, height : Heights, hash : Hashes \union {ZeroHash}]
    BY <1>0 DEF Fail, NoId
  <2>2. balances' \in [Contracts -> Int] BY DEF Fail, NoneRead, None
  <2> QED BY <2>1, <2>2 DEF Fail, Shape, HasBlock
<1>2. Live' BY DEF Fail, Live
<1>3. Current' BY DEF Fail, Current, HasBlock
<1>4. FoundIt' BY DEF Fail, FoundIt, HasBlock
<1>5. ReadSoFar' BY DEF Fail, ReadSoFar, HasBlock, NoneRead
<1>6. Completed' BY DEF Fail, Completed
<1> QED BY <1>1, <1>2, <1>3, <1>4, <1>5, <1>6 DEF ApiInv

----------------------------------------------------------------------------
(* The steps of a request.                                                 *)

\* A request that begins has read nothing yet, and remembers what was published.
LEMMA AskStep ==
  ASSUME ApiInv, NEW o \in {"status", "balance", "block", "transaction"},
         NEW b \in BlockIds, NEW q, o = "balance" => q \in Accounts \X Asked,
         Ask(o, b, q), Remember, UNCHANGED vars
  PROVE  ApiInv'
<1>v. /\ IInv' /\ db' = db /\ idx' = idx /\ pc' = pc /\ synced' = synced
  BY DEF ApiInv, IInv, vars, TypeOK, InStep, DiskBehind, Up
<1>b. b \in [hash : Hashes \union {ZeroHash}, index : Heights \union {None}]
  BY ApiAssumption
<1>0. 0 \in Heights BY ChainAssumption DEF Heights
<1>s. seen' = seen BY DEF Ask, Remember
<1>q. o = "balance" => q[1] \in Accounts /\ q[2] \in SUBSET Contracts
  BY ApiAssumption
<1>i. id' \in [byHeight : BOOLEAN, height : Heights, hash : Hashes \union {ZeroHash}]
  <2>1. CASE tip' BY <2>1, <1>0 DEF Ask, NoId
  <2>2. CASE ~tip'
    <3>1. id' = [byHeight |-> b.index # None, hash |-> b.hash,
                 height |-> IF b.index = None THEN 0 ELSE b.index]
      BY <2>2 DEF Ask
    <3>2. (IF b.index = None THEN 0 ELSE b.index) \in Heights BY <1>b, <1>0
    <3> QED BY <3>1, <3>2, <1>b
  <2> QED BY <2>1, <2>2
<1>1. Shape'
  BY <1>i, <1>q DEF Ask, Shape, HasBlock, ApiInv
<1>2. Live' BY <1>v DEF Ask, ApiInv, Live, Up
<1>3. Current' BY DEF Ask, Current, HasBlock
<1>4. FoundIt' BY DEF Ask, FoundIt, HasBlock
<1>5. ReadSoFar' BY DEF Ask, ApiInv, ReadSoFar, HasBlock
<1>6. Completed' BY DEF Ask, Completed
<1>7. Remembered' BY <1>v, <1>s DEF ApiInv, Remembered, Up, GetHeight
<1> QED BY <1>v, <1>1, <1>2, <1>3, <1>4, <1>5, <1>6, <1>7 DEF ApiInv

\* The other steps of a request.
LEMMA ReadStep ==
  ASSUME ApiInv, Read, Remember, UNCHANGED vars
  PROVE  ApiInv'
<1>v. /\ IInv' /\ db' = db /\ idx' = idx /\ pc' = pc /\ synced' = synced
      /\ tokens' = tokens
  BY DEF ApiInv, IInv, vars, TypeOK, InStep, DiskBehind, Up
<1>u. Up' = Up /\ GetHeight' = GetHeight BY <1>v DEF Up, GetHeight
<1>h. /\ Heights \subseteq Int /\ 0 \in Heights /\ None = -1
      /\ \A h \in Heights : h >= 0
      /\ db.height \in Int /\ GetHeight \in Heights /\ idx \in Int
      /\ seen \in Heights \union {None}
  BY HeightsAreInts, ChainAssumption DEF ApiInv, Heights, Remembered
<1>f. ASSUME Fail PROVE ApiInv'
  <2>1. seen' = seen BY <1>f DEF Remember, Fail
  <2>2. Remembered' BY <1>v, <1>u, <2>1 DEF ApiInv, Remembered
  <2>3. Up' => synced' # None BY <1>v, <1>u DEF ApiInv, Live
  <2> QED BY <1>v, <1>f, <2>2, <2>3, FailStep
<1>1. ASSUME NEW b \in BlockIds, NEW o \in {"status", "block", "transaction"},
             Ask(o, b, NotAsked)
      PROVE  ApiInv'
  BY <1>1, AskStep
<1>2. ASSUME NEW b \in BlockIds, NEW a \in Accounts, NEW q \in Asked,
             Ask("balance", b, <<a, q>>)
      PROVE  ApiInv'
  BY <1>2, AskStep
<1>3. CASE Resolve
  <2>1. seen' = seen BY <1>3 DEF Resolve, Remember
  <2>2. id' = ByHeight(GetHeight) BY <1>3 DEF Resolve
  <2>3. Shape'
    BY <1>3, <1>h, <2>2 DEF Resolve, ApiInv, Shape, HasBlock, ByHeight
  <2>4. Live' BY <1>3, <1>u, <1>v DEF Resolve, ApiInv, Live
  <2>5. Current'
    BY <1>3, <1>h, <1>u, <2>1, <2>2 DEF Resolve, ApiInv, Live, Remembered, Current, ByHeight
  <2>6. FoundIt' /\ ReadSoFar' /\ Completed'
    BY <1>3 DEF Resolve, ApiInv, FoundIt, ReadSoFar, Completed, HasBlock
  <2>7. Remembered' BY <1>u, <1>v, <2>1 DEF ApiInv, Remembered
  <2> QED BY <1>v, <2>3, <2>4, <2>5, <2>6, <2>7 DEF ApiInv
<1>4. ASSUME Bound, ~Fail PROVE ApiInv'
  <2>0. /\ at = "bound" /\ at' = "lookup"
        /\ UNCHANGED <<op, id, tip, asked, cur, parent, balances, sync>>
    BY <1>4 DEF Bound
  <2>1. seen' = seen BY <2>0 DEF Remember
  <2>2. Shape' BY <2>0 DEF ApiInv, Shape, HasBlock
  <2>3. Live' BY <1>u, <1>v, <2>0 DEF ApiInv, Live
  <2>4. Current' BY <1>u, <2>0, <2>1 DEF ApiInv, Current, HasBlock
  <2>5. FoundIt' /\ ReadSoFar' /\ Completed'
    BY <2>0 DEF ApiInv, FoundIt, ReadSoFar, Completed, HasBlock
  <2>6. Remembered' BY <1>u, <1>v, <2>1 DEF ApiInv, Remembered
  <2> QED BY <1>v, <2>2, <2>3, <2>4, <2>5, <2>6 DEF ApiInv
<1>5. ASSUME Lookup, ~Fail PROVE ApiInv'
  <2> DEFINE r == GetBlockInfoRaw(db, id)
  <2>0. /\ at = "lookup" /\ r.ok
        /\ cur' = [height |-> r.height, hash |-> r.hash, contracts |-> r.contracts]
        /\ at' = CASE op = "status" -> "genesis"
                   [] op = "balance" -> "balance"
                   [] op = "block" -> "parent"
                   [] OTHER -> "transform"
        /\ UNCHANGED <<op, id, tip, asked, parent, balances, sync>>
    BY <1>5 DEF Lookup
  <2>1. /\ r.height \in Heights /\ r.height <= db.height
        /\ r.hash = BlockHash[r.height]
        /\ id.byHeight => r.height = id.height
        /\ id.hash # ZeroHash => r.hash = id.hash
        /\ r.contracts = db.blocks[r.height] /\ db.blocks[r.height] # NoBlock
    BY <2>0, LookupIsRight DEF ApiInv, Shape
  <2> HIDE DEF r
  <2>2. at' \in {"genesis", "balance", "parent", "transform"} /\ at' # "answered"
        /\ (op = "status" => at' = "genesis") /\ (at' = "genesis" => op = "status")
        /\ (at' = "balance" => op = "balance") /\ (at' = "parent" => op = "block")
        /\ (at' = "transform" => op = "transaction")
    BY <2>0 DEF ApiInv, Shape
  <2>3. seen' = seen BY <2>2 DEF Remember
  <2>4. Shape' BY <2>0, <2>2 DEF ApiInv, Shape, HasBlock
  <2>5. Live' BY <1>u, <1>v, <2>0 DEF ApiInv, Live
  <2>6. Current' BY <1>u, <2>0, <2>3 DEF ApiInv, Current, HasBlock
  <2>7. FoundIt' BY <1>v, <2>0, <2>1 DEF FoundIt
  <2>8. ReadSoFar'
    <3>1. \A c \in Contracts : balances[c] = None
      BY <2>0 DEF ApiInv, ReadSoFar, HasBlock
    <3>2. op = "balance" => asked[2] \in SUBSET Contracts
      BY <2>0 DEF ApiInv, Shape
    <3>3. ASSUME r.height = 0, NEW k \in Keys, k[2] \in r.contracts
          PROVE  BalanceAt(db.acct[k], 0) = OnChain[k][0]
      <4>1. TrackedSince(db, k[2], 0)
        BY <2>1, <3>3 DEF TrackedSince
      <4>2. 0 <= db.height BY <2>1, <3>3
      <4> QED BY <1>h, <4>1, <4>2 DEF ApiInv, IInv, GoodContent, Matches
    <3>4. cur'.height = r.height /\ cur'.contracts = r.contracts BY <2>0
    <3> QED BY <1>v, <2>0, <2>2, <3>1, <3>2, <3>3, <3>4 DEF ReadSoFar, HasBlock
  <2>9. Completed' BY <2>2, <2>0 DEF Completed
  <2>10. Remembered' BY <1>u, <1>v, <2>3 DEF ApiInv, Remembered
  <2> QED BY <1>v, <2>4, <2>5, <2>6, <2>7, <2>8, <2>9, <2>10 DEF ApiInv
<1>6. ASSUME Genesis, ~Fail PROVE ApiInv'
  <2>0. /\ at = "genesis" /\ at' = "sync"
        /\ UNCHANGED <<op, id, tip, asked, cur, parent, balances, sync>>
    BY <1>6 DEF Genesis
  <2>1. seen' = seen BY <2>0 DEF Remember
  <2>2. Shape' BY <2>0 DEF ApiInv, Shape, HasBlock
  <2>3. Live' BY <1>u, <1>v, <2>0 DEF ApiInv, Live
  <2>4. Current' BY <1>u, <2>0, <2>1 DEF ApiInv, Current, HasBlock
  <2>5. FoundIt' /\ Completed'
    BY <1>v, <2>0 DEF ApiInv, FoundIt, Completed, HasBlock
  <2>6. op # "balance" BY <2>0 DEF ApiInv, Shape
  <2>7. ReadSoFar' BY <2>0, <2>6 DEF ApiInv, ReadSoFar, HasBlock
  <2>8. Remembered' BY <1>u, <1>v, <2>1 DEF ApiInv, Remembered
  <2> QED BY <1>v, <2>2, <2>3, <2>4, <2>5, <2>7, <2>8 DEF ApiInv
<1>7. CASE Sync
  <2>0. at = "sync" /\ UNCHANGED <<op, id, tip, asked, cur, parent, balances>>
    BY <1>7 DEF Sync
  <2>1. op = "status" /\ tip = TRUE /\ synced # None
    BY <2>0 DEF ApiInv, Shape, Live
  <2>2. /\ id.byHeight /\ id.height <= GetHeight /\ cur.height = id.height
        /\ cur.height \in Heights /\ cur.height <= db.height
        /\ (seen # None => seen <= id.height)
    BY <2>0, <2>1 DEF ApiInv, Current, FoundIt, HasBlock
  <2>3. CASE idx = None
    <3>1. at' = "panicked" BY <1>7, <2>1, <2>3 DEF Sync
    <3>2. seen' = seen BY <3>1 DEF Remember
    <3>3. Shape' BY <2>0, <2>1, <3>1 DEF ApiInv, Shape, HasBlock
    <3>4. Live' BY <1>u, <1>v, <2>0 DEF ApiInv, Live
    <3>5. Current' BY <1>u, <2>0, <2>2, <3>2 DEF Current
    <3>6. FoundIt' BY <3>1 DEF FoundIt, HasBlock
    <3>7. Completed' BY <3>1 DEF Completed
    <3>8. ReadSoFar' BY <2>0, <2>1, <3>1 DEF ReadSoFar, HasBlock, ApiInv
    <3>9. Remembered' BY <1>u, <1>v, <3>2 DEF ApiInv, Remembered
    <3> QED BY <1>v, <3>3, <3>4, <3>5, <3>6, <3>7, <3>8, <3>9 DEF ApiInv
  <2>4. CASE idx # None
    <3>1. at' = "answered" /\ sync'.current = idx
      BY <1>7, <2>1, <2>4 DEF Sync
    <3>2. seen' = cur.height BY <2>0, <2>1, <3>1 DEF Remember
    <3>3. Shape' BY <2>0, <2>1, <3>1 DEF ApiInv, Shape, HasBlock
    <3>4. Live' BY <1>u, <1>v, <2>0 DEF ApiInv, Live
    <3>5. Current'
      <4>1. cur.height <= cur.height BY <2>2, ChainAssumption DEF Heights
      <4> QED BY <1>u, <2>0, <2>2, <3>2, <4>1 DEF Current
    <3>6. FoundIt' BY <1>v, <2>0 DEF ApiInv, FoundIt, HasBlock
    <3>7. Completed'
      <4>1. cur.height <= idx BY <2>2, <2>4 DEF GetHeight
      <4> QED BY <2>0, <2>1, <3>1, <4>1 DEF Completed
    <3>8. ReadSoFar' BY <2>0, <2>1, <3>1 DEF ReadSoFar, HasBlock, ApiInv
    <3>9. Remembered' BY <1>u, <1>v, <2>2, <3>2 DEF Remembered
    <3> QED BY <1>v, <3>3, <3>4, <3>5, <3>6, <3>7, <3>8, <3>9 DEF ApiInv
  <2> QED BY <2>3, <2>4
<1>8. ASSUME NEW c \in Contracts, ReadBalance(c), ~Fail PROVE ApiInv'
  <2>0. /\ at = "balance" /\ c \in asked[2] /\ balances[c] = None
        /\ balances' = [balances EXCEPT ![c] = BalanceAt(db.acct[<<asked[1], c>>], cur.height)]
        /\ UNCHANGED <<at, op, id, tip, asked, cur, parent, sync>>
    BY <1>8 DEF ReadBalance
  <2>1. op = "balance" /\ asked[1] \in Accounts /\ asked[2] \in SUBSET Contracts
    BY <2>0 DEF ApiInv, Shape
  <2>2. cur.height \in Heights /\ cur.height <= db.height
    BY <2>0 DEF ApiInv, FoundIt, HasBlock
  <2>3. seen' = seen BY <2>0 DEF Remember
  <2> DEFINE k == <<asked[1], c>>
  <2>k. k \in Keys /\ k[2] = c BY <2>1 DEF Keys
  <2>4. BalanceAt(db.acct[k], cur.height) \in Nat
    <3>1. db.acct[k] \in Hist BY <2>k DEF ApiInv, IInv, TypeOK, DBType, Hist
    <3> QED BY <2>2, <3>1, BalancesAreNat
  <2>5. c \in cur.contracts /\ Unchanging(c) =>
          BalanceAt(db.acct[k], cur.height) = OnChain[k][cur.height]
    <3>1. CASE cur.height = 0
      BY <2>0, <2>1, <2>k, <3>1 DEF ApiInv, ReadSoFar, HasBlock
    <3>2. CASE cur.height # 0
      BY <2>2, <2>k, <3>2 DEF ApiInv, IInv, GoodContent, Matches, Unchanging
    <3> QED BY <3>1, <3>2
  <2> HIDE DEF k
  <2>6. Shape'
    <3>1. balances' \in [Contracts -> Int] BY <2>0, <2>4 DEF ApiInv, Shape, k
    <3> QED BY <2>0, <3>1 DEF ApiInv, Shape, HasBlock
  <2>7. Live' BY <1>u, <1>v, <2>0 DEF ApiInv, Live
  <2>8. Current' BY <1>u, <2>0, <2>3 DEF ApiInv, Current, HasBlock
  <2>9. FoundIt' /\ Completed'
    BY <1>v, <2>0 DEF ApiInv, FoundIt, Completed, HasBlock
  <2>10. ReadSoFar'
    <3>1. /\ balances'[c] = BalanceAt(db.acct[k], cur.height)
          /\ \A e \in Contracts : e # c => balances'[e] = balances[e]
      BY <2>0 DEF ApiInv, Shape, k
    <3>2. \A e : Unchanging(e)' <=> Unchanging(e)
      BY <1>v, <2>0 DEF Unchanging, TrackedSince
    <3>3. ASSUME NEW e \in asked[2], balances'[e] # None, e \in cur.contracts, Unchanging(e)
          PROVE  balances'[e] = OnChain[<<asked[1], e>>][cur.height]
      <4>1. CASE e = c BY <2>5, <3>1, <3>3, <4>1 DEF k
      <4>2. CASE e # c
        BY <2>0, <2>1, <3>1, <3>3, <4>2 DEF ApiInv, ReadSoFar, HasBlock
      <4> QED BY <4>1, <4>2
    <3> QED BY <1>v, <2>0, <2>1, <3>2, <3>3 DEF ApiInv, ReadSoFar, HasBlock
  <2>11. Remembered' BY <1>u, <1>v, <2>3 DEF ApiInv, Remembered
  <2> QED BY <1>v, <2>6, <2>7, <2>8, <2>9, <2>10, <2>11 DEF ApiInv
<1>9. CASE AnswerBalance
  <2>0. /\ at = "balance" /\ at' = "answered" /\ \A c \in asked[2] : balances[c] # None
        /\ UNCHANGED <<op, id, tip, asked, cur, parent, balances, sync>>
    BY <1>9 DEF AnswerBalance
  <2>1. op = "balance" BY <2>0 DEF ApiInv, Shape
  <2>2. FoundIt' BY <1>v, <2>0 DEF ApiInv, FoundIt, HasBlock
  <2>3. Remembered' /\ Current'
    <3>1. CASE tip
      <4>1. /\ id.byHeight /\ id.height <= GetHeight /\ cur.height = id.height
            /\ cur.height \in Heights /\ cur.height <= db.height
        BY <2>0, <3>1 DEF ApiInv, Current, FoundIt, HasBlock
      <4>2. seen' = cur.height BY <2>0, <3>1 DEF Remember
      <4>3. cur.height <= cur.height BY <4>1, ChainAssumption DEF Heights
      <4>4. Current' BY <1>u, <2>0, <4>1, <4>2, <4>3 DEF Current
      <4>5. Remembered' BY <1>u, <1>v, <4>1, <4>2 DEF Remembered
      <4> QED BY <4>4, <4>5
    <3>2. CASE ~tip
      <4>1. seen' = seen BY <2>0, <3>2 DEF Remember
      <4> QED BY <1>u, <1>v, <2>0, <3>2, <4>1 DEF ApiInv, Remembered, Current
    <3> QED BY <3>1, <3>2
  <2>4. Shape' BY <2>0, <2>1 DEF ApiInv, Shape, HasBlock
  <2>5. Live' BY <1>u, <1>v, <2>0 DEF ApiInv, Live
  <2>6. Completed' BY <2>0, <2>1 DEF Completed
  <2>7. ReadSoFar'
    <3>1. \A e : Unchanging(e)' <=> Unchanging(e)
      BY <1>v, <2>0 DEF Unchanging, TrackedSince
    <3> QED BY <1>v, <2>0, <2>1, <3>1 DEF ApiInv, ReadSoFar, HasBlock
  <2> QED BY <1>v, <2>2, <2>3, <2>4, <2>5, <2>6, <2>7 DEF ApiInv
<1>10. ASSUME ReadParent, ~Fail PROVE ApiInv'
  <2> DEFINE r == GetBlockInfoRaw(db, ByHeight(cur.height - 1))
  <2>0. /\ at = "parent" /\ at' = "transform"
        /\ UNCHANGED <<op, id, tip, asked, cur, balances, sync>>
        /\ IF cur.height = 0
           THEN parent' = [height |-> cur.height, hash |-> cur.hash]
           ELSE r.ok /\ parent' = [height |-> r.height, hash |-> r.hash]
    BY <1>10 DEF ReadParent
  <2>1. op = "block" BY <2>0 DEF ApiInv, Shape
  <2>2. cur.height \in Heights /\ cur.hash = BlockHash[cur.height]
    BY <2>0 DEF ApiInv, FoundIt, HasBlock
  <2>3. /\ parent'.height = IF cur.height = 0 THEN 0 ELSE cur.height - 1
        /\ parent'.hash = BlockHash[parent'.height]
    <3>1. CASE cur.height = 0 BY <2>0, <2>2, <3>1
    <3>2. CASE cur.height # 0
      <4>1. cur.height - 1 \in Heights
        BY <2>2, <3>2, ChainAssumption DEF Heights
      <4>2. ByHeight(cur.height - 1) \in
              [byHeight : BOOLEAN, height : Heights, hash : Hashes \union {ZeroHash}]
        BY <4>1 DEF ByHeight
      <4>3. ByHeight(cur.height - 1).byHeight
            /\ ByHeight(cur.height - 1).height = cur.height - 1
        BY DEF ByHeight
      <4>4. r.ok BY <2>0, <3>2
      <4>5. r.height = cur.height - 1 /\ r.hash = BlockHash[r.height]
        BY <4>2, <4>3, <4>4, LookupIsRight DEF ApiInv
      <4> QED BY <2>0, <3>2, <4>5
    <3> QED BY <3>1, <3>2
  <2> HIDE DEF r
  <2>4. seen' = seen BY <2>0 DEF Remember
  <2>5. Shape' BY <2>0, <2>1 DEF ApiInv, Shape, HasBlock
  <2>6. Live' BY <1>u, <1>v, <2>0 DEF ApiInv, Live
  <2>7. Current' BY <1>u, <2>0, <2>4 DEF ApiInv, Current, HasBlock
  <2>8. FoundIt' BY <1>v, <2>0 DEF ApiInv, FoundIt, HasBlock
  <2>9. Completed' BY <2>0, <2>1, <2>3 DEF Completed
  <2>10. ReadSoFar' BY <2>0, <2>1 DEF ApiInv, ReadSoFar, HasBlock
  <2>11. Remembered' BY <1>u, <1>v, <2>4 DEF ApiInv, Remembered
  <2> QED BY <1>v, <2>5, <2>6, <2>7, <2>8, <2>9, <2>10, <2>11 DEF ApiInv
<1>11. CASE Transform
  <2>0. /\ at = "transform" /\ at' = "answered"
        /\ UNCHANGED <<op, id, tip, asked, cur, parent, balances, sync>>
    BY <1>11 DEF Transform
  <2>1. op \in {"block", "transaction"} BY <2>0 DEF ApiInv, Shape
  <2>2. FoundIt' BY <1>v, <2>0 DEF ApiInv, FoundIt, HasBlock
  <2>3. Remembered' /\ Current'
    <3>1. CASE tip
      <4>1. /\ id.byHeight /\ id.height <= GetHeight /\ cur.height = id.height
            /\ cur.height \in Heights /\ cur.height <= db.height
        BY <2>0, <3>1 DEF ApiInv, Current, FoundIt, HasBlock
      <4>2. seen' = cur.height BY <2>0, <3>1 DEF Remember
      <4>3. cur.height <= cur.height BY <4>1, ChainAssumption DEF Heights
      <4>4. Current' BY <1>u, <2>0, <4>1, <4>2, <4>3 DEF Current
      <4>5. Remembered' BY <1>u, <1>v, <4>1, <4>2 DEF Remembered
      <4> QED BY <4>4, <4>5
    <3>2. CASE ~tip
      <4>1. seen' = seen BY <2>0, <3>2 DEF Remember
      <4> QED BY <1>u, <1>v, <2>0, <3>2, <4>1 DEF ApiInv, Remembered, Current
    <3> QED BY <3>1, <3>2
  <2>4. Shape' BY <2>0, <2>1 DEF ApiInv, Shape, HasBlock
  <2>5. Live' BY <1>u, <1>v, <2>0 DEF ApiInv, Live
  <2>6. Completed' BY <2>0, <2>1 DEF ApiInv, Completed
  <2>7. ReadSoFar' BY <2>0, <2>1 DEF ApiInv, ReadSoFar, HasBlock
  <2> QED BY <1>v, <2>2, <2>3, <2>4, <2>5, <2>6, <2>7 DEF ApiInv
<1> QED
  BY <1>f, <1>1, <1>2, <1>3, <1>4, <1>5, <1>6, <1>7, <1>8, <1>9, <1>10, <1>11
  DEF Read, TransformFails, Finish

----------------------------------------------------------------------------
(* The steps of the process under a request.                               *)

\* The process lives on.
LEMMA IndexerStep ==
  ASSUME ApiInv, Next, pc' # "down", UNCHANGED <<request, seen>>
  PROVE  ApiInv'
<1>r. UNCHANGED <<at, op, id, tip, asked, cur, parent, balances, sync, seen>>
  BY DEF request
<1>v. IInv' BY StepIInv DEF ApiInv
<1>u. Up' BY DEF Up
<1>w. /\ db'.height >= db.height
      /\ db' # db => Up /\ Commit
      /\ Up => GetHeight' >= GetHeight
      /\ ~Up => idx' = db.height /\ synced' # None
      /\ synced # None => synced' # None
  BY WhileUp DEF ApiInv
<1>h. /\ db.height \in Int /\ db'.height \in Int
      /\ GetHeight \in Int /\ GetHeight' \in Int
      /\ seen \in Int /\ id.height \in Int
      /\ HasBlock => cur.height \in Int /\ cur.height >= 0
      /\ MaxHeight \in Nat
  <2>1. Heights \subseteq Nat /\ MaxHeight \in Nat BY ChainAssumption DEF Heights
  <2>2. GetHeight \in Heights BY HeightsAreInts DEF ApiInv
  <2>3. GetHeight' \in Heights
    BY <1>v, ChainAssumption DEF GetHeight, IInv, TypeOK, Heights, None
  <2>4. seen \in Heights \union {None} /\ id.height \in Heights
    BY DEF ApiInv, Remembered, Shape
  <2>5. HasBlock => cur.height \in Heights BY DEF ApiInv, FoundIt
  <2>6. db.height \in Heights \union {None} /\ db'.height \in Heights \union {None}
    BY <1>v DEF ApiInv, IInv, TypeOK, DBType
  <2> QED BY <2>1, <2>2, <2>3, <2>4, <2>5, <2>6, ChainAssumption DEF Heights, None
<1>1. Shape' BY <1>r DEF ApiInv, Shape, HasBlock
<1>2. Live' BY <1>r, <1>u, <1>w DEF ApiInv, Live
<1>3. Current'
  <2> SUFFICES ASSUME tip, HasBlock \/ at \in {"bound", "lookup", "panicked"}
               PROVE  id.byHeight /\ id.height <= GetHeight' /\ (seen # None => seen <= id.height)
    BY <1>r DEF Current, HasBlock
  <2>1. Up BY DEF ApiInv, Live, HasBlock
  <2>2. id.byHeight /\ id.height <= GetHeight /\ (seen # None => seen <= id.height)
    BY DEF ApiInv, Current
  <2> QED BY <1>h, <1>w, <2>1, <2>2
<1>4. FoundIt'
  <2> SUFFICES ASSUME HasBlock
               PROVE  cur.height \in Heights /\ cur.height <= db'.height
    BY <1>r DEF ApiInv, FoundIt, HasBlock
  <2>1. cur.height \in Heights /\ cur.height <= db.height BY DEF ApiInv, FoundIt
  <2> QED BY <1>h, <1>w, <2>1
<1>5. ReadSoFar'
  <2>1. CASE db' = db
    <3>1. \A c : Unchanging(c)' <=> Unchanging(c)
      BY <1>r, <2>1 DEF Unchanging, TrackedSince
    <3> QED BY <1>r, <2>1, <3>1 DEF ApiInv, ReadSoFar, HasBlock
  <2>2. CASE db' # db
    <3>1. /\ pc = "commit" /\ db' = WriteBlock(db, height, parsed)
          /\ height <= target /\ target \in Heights /\ parsed \in SUBSET Contracts
          /\ height \in 0..(MaxHeight + 1) /\ db \in DBType
          /\ idx = db.height
          /\ height = idx + 1 \/ (height = 0 /\ idx \in {0, None})
      BY <1>w, <2>2 DEF Commit, ApiInv, IInv, InStep, TypeOK, Up
    <3>2. height \in Heights BY <3>1, ChainAssumption DEF Heights
    <3>3. ASSUME HasBlock, op = "balance", cur.height = 0, NEW k \in Keys,
                 k[2] \in cur.contracts
          PROVE  BalanceAt(db'.acct[k], 0) = OnChain[k][0]
      <4>1. BalanceAt(db.acct[k], 0) = OnChain[k][0]
        BY <3>3 DEF ApiInv, ReadSoFar
      <4>2. 0 \in Heights BY ChainAssumption DEF Heights
      <4>3. /\ \A g \in Heights : g < height =>
                 BalanceAt(db'.acct[k], g) = BalanceAt(db.acct[k], g)
            /\ k \in Changes(height, parsed) =>
                 BalanceAt(db'.acct[k], height)
                   = Magnitude(PrevBalance(db.acct[k], height) + Diff[height][k])
            /\ k \notin Changes(height, parsed) => db'.acct[k] = db.acct[k]
        BY <3>1, <3>2, WriteBlockBalances
      <4>4. CASE height > 0 BY <4>1, <4>2, <4>3, <4>4
      <4>5. CASE height = 0 /\ k \notin Changes(height, parsed)
        BY <4>1, <4>3, <4>5
      <4>6. CASE height = 0 /\ k \in Changes(height, parsed)
        <5>1. PrevBalance(db.acct[k], 0) = 0 BY <4>2, PrevIsBefore
        <5>2. k \in Touched[0] BY <4>6 DEF Changes
        <5>3. OnChain[k][0] = 0 + Diff[0][k] BY <4>2, <5>2, FaithfulEvents
        <5>4. OnChain[k][0] \in Nat /\ Diff[0][k] \in Int BY <4>2, FaithfulEvents
        <5> QED BY <4>3, <4>6, <5>1, <5>3, <5>4 DEF Magnitude
      <4>7. height \in Nat BY <3>1, <1>h
      <4> QED BY <4>4, <4>5, <4>6, <4>7
    <3>4. ASSUME HasBlock, NEW c, cur.height # 0, Unchanging(c)'
          PROVE  Unchanging(c)
      <4>1. cur.height \in Heights /\ cur.height <= db.height
        BY <3>4 DEF ApiInv, FoundIt
      <4>2. height > cur.height
        BY <1>h, <3>1, <3>4, <4>1 DEF None
      <4>3. \A i \in 0..cur.height : db'.blocks[i] = db.blocks[i]
        <5>1. \A i \in 0..cur.height : i \in Heights /\ i # height
          BY <1>h, <3>1, <4>1, <4>2, <3>4 DEF Heights
        <5>2. db.blocks \in [Heights -> {NoBlock} \union SUBSET Contracts]
          BY <3>1 DEF DBType
        <5>3. db'.blocks = [db.blocks EXCEPT ![height] = parsed]
          BY <3>1 DEF WriteBlock
        <5> QED BY <5>1, <5>2, <5>3
      <4>4. TrackedSince(db', c, cur.height)
        BY <1>r, <3>4 DEF Unchanging
      <4> QED BY <4>3, <4>4 DEF Unchanging, TrackedSince
    <3>5. ASSUME HasBlock, NEW c, Unchanging(c)' PROVE Unchanging(c)
      BY <3>4, <3>5 DEF Unchanging
    <3> QED BY <1>r, <3>3, <3>5 DEF ApiInv, ReadSoFar, HasBlock
  <2> QED BY <2>1, <2>2
<1>6. Completed' BY <1>r DEF ApiInv, Completed
<1>7. Remembered'
  <2> SUFFICES ASSUME seen # None
               PROVE  seen <= db'.height /\ seen <= GetHeight'
    BY <1>r DEF ApiInv, Remembered
  <2>1. seen <= db.height /\ (Up => seen <= GetHeight) /\ seen >= 0
    BY <1>h, ChainAssumption DEF ApiInv, Remembered, Heights
  <2>2. CASE Up BY <1>h, <1>w, <2>1, <2>2
  <2>3. CASE ~Up
    <3>1. GetHeight' = db.height BY <1>h, <1>w, <2>1, <2>3 DEF GetHeight, None
    <3> QED BY <1>h, <1>w, <2>1, <3>1
  <2> QED BY <2>2, <2>3
<1> QED BY <1>v, <1>1, <1>2, <1>3, <1>4, <1>5, <1>6, <1>7 DEF ApiInv

\* The process ends.
LEMMA EndStep ==
  ASSUME ApiInv, Next, pc' = "down", Fail, seen' = IF db' # db THEN None ELSE seen
  PROVE  ApiInv'
<1>1. IInv' BY StepIInv DEF ApiInv
<1>2. ~Up' BY DEF Up
<1>3. Remembered' BY <1>2 DEF ApiInv, Remembered
<1> QED BY <1>1, <1>2, <1>3, FailStep

\* What is known of a request and of its answers holds in every reachable state.
LEMMA InductiveApi == ApiSpec => []ApiInv
<1>1. ApiInit => ApiInv
  <2> SUFFICES ASSUME ApiInit PROVE ApiInv OBVIOUS
  <2>1. IInv BY InitIInv DEF ApiInit
  <2>2. 0 \in Heights BY ChainAssumption DEF Heights
  <2>3. Shape
    <3>1. id \in [byHeight : BOOLEAN, height : Heights, hash : Hashes \union {ZeroHash}]
      BY <2>2 DEF ApiInit, NoRequest, NoId
    <3>2. balances \in [Contracts -> Int]
      BY DEF ApiInit, NoRequest, NoneRead, None
    <3> QED BY <3>1, <3>2 DEF ApiInit, NoRequest, Shape, HasBlock
  <2>4. Live BY DEF ApiInit, NoRequest, Init, Live, Up
  <2>5. Current /\ FoundIt /\ Completed
    BY DEF ApiInit, NoRequest, Current, FoundIt, Completed, HasBlock
  <2>6. ReadSoFar BY DEF ApiInit, NoRequest, NoneRead, ReadSoFar, HasBlock
  <2>7. Remembered BY DEF ApiInit, Remembered
  <2> QED BY <2>1, <2>3, <2>4, <2>5, <2>6, <2>7 DEF ApiInv
<1>2. ApiInv /\ [ApiNext]_apiVars => ApiInv'
  <2> SUFFICES ASSUME ApiInv, [ApiNext]_apiVars PROVE ApiInv' OBVIOUS
  <2>1. CASE Read /\ Remember /\ UNCHANGED vars BY <2>1, ReadStep
  <2>2. CASE Next /\ pc' # "down" /\ UNCHANGED <<request, seen>>
    BY <2>2, IndexerStep
  <2>3. CASE Next /\ pc' = "down" /\ Fail
             /\ seen' = IF db' # db THEN None ELSE seen
    BY <2>3, EndStep
  <2>4. CASE UNCHANGED apiVars
    <3>1. /\ UNCHANGED vars
          /\ UNCHANGED <<at, op, id, tip, asked, cur, parent, balances, sync, seen>>
      BY <2>4 DEF apiVars, request
    <3>2. IInv' BY <3>1, StepIInv DEF ApiInv
    <3>3. db' = db /\ idx' = idx /\ pc' = pc /\ synced' = synced BY <3>1 DEF vars
    <3>4. Up' = Up /\ GetHeight' = GetHeight BY <3>3 DEF Up, GetHeight
    <3>5. \A c : Unchanging(c)' <=> Unchanging(c)
      BY <3>1, <3>3 DEF Unchanging, TrackedSince
    <3>6. HasBlock' = HasBlock BY <3>1 DEF HasBlock
    <3>7. Shape' /\ Live' BY <3>1, <3>3, <3>4, <3>6 DEF ApiInv, Shape, Live
    <3>8. Current' /\ FoundIt' /\ Completed' /\ Remembered'
      BY <3>1, <3>3, <3>4, <3>6 DEF ApiInv, Current, FoundIt, Completed, Remembered
    <3>9. ReadSoFar' BY <3>1, <3>3, <3>5, <3>6 DEF ApiInv, ReadSoFar
    <3> QED BY <3>2, <3>7, <3>8, <3>9 DEF ApiInv
  <2> QED BY <2>1, <2>2, <2>3, <2>4 DEF ApiNext
<1> QED BY <1>1, <1>2, PTL DEF ApiSpec

----------------------------------------------------------------------------
(* What is answered.                                                       *)

\* The balances of one answer are all of the block it names, though each is
\* read in a transaction of its own beside the indexer.
THEOREM BalancesOfOneBlock == ApiSpec => []BalancesAreOfTheBlock
<1>1. ApiInv => BalancesAreOfTheBlock
  BY DEF ApiInv, ReadSoFar, BalancesAreOfTheBlock, HasBlock, Unchanging
<1> QED BY <1>1, InductiveApi, PTL

\* A block that is answered is the one asked for, and its parent the one below.
THEOREM AnswersAreAsked == ApiSpec => []AnswerIsAsked
<1>1. ApiInv => AnswerIsAsked
  BY DEF ApiInv, FoundIt, Completed, AnswerIsAsked, HasBlock
<1> QED BY <1>1, InductiveApi, PTL

\* A status never reports a current block above what it says is indexed.
THEOREM StatusIsInOrder == ApiSpec => []StatusInOrder
<1>1. ApiInv => StatusInOrder BY DEF ApiInv, Completed, StatusInOrder
<1> QED BY <1>1, InductiveApi, PTL

\* A reader told of a current block finds it from then on, and is not told of
\* an earlier one, over restarts and unless power is lost.
THEOREM ReadsMonotonic == ApiSpec => ReadsAreMonotonic
<1> DEFINE Forward == /\ seen' # None => seen' <= db'.height
                      /\ seen' # seen => seen' = None \/ seen' > seen
<1>1. ApiInv /\ ApiInv' /\ [ApiNext]_apiVars => [Forward]_apiVars
  <2> SUFFICES ASSUME ApiInv, ApiInv', ApiNext PROVE Forward OBVIOUS
  <2>1. seen' # None => seen' <= db'.height BY DEF ApiInv, Remembered
  <2>2. ASSUME seen' # seen, seen' # None PROVE seen' > seen
    <3>1. Remember /\ Read BY <2>2 DEF ApiNext
    <3>2. at' = "answered" /\ tip /\ seen' = cur.height BY <2>2, <3>1 DEF Remember
    <3>3. at # "answered" BY <2>2, <3>1 DEF Remember
    <3>4. UNCHANGED <<id, tip, cur>> /\ HasBlock
      BY <3>1, <3>2, <3>3 DEF Read, Ask, Resolve, Bound, Lookup, Genesis, Sync,
         ReadBalance, AnswerBalance, ReadParent, Transform, TransformFails,
         Finish, Fail, HasBlock
    <3>5. /\ cur.height = id.height /\ cur.height \in Heights
          /\ seen # None => seen <= cur.height
      BY <3>2, <3>4 DEF ApiInv, FoundIt, Current
    <3>6. seen \in Heights \union {None} BY DEF ApiInv, Remembered
    <3> QED BY <2>2, <3>2, <3>5, <3>6, ChainAssumption DEF Heights, None
  <2> QED BY <2>1, <2>2
<1> QED BY <1>1, InductiveApi, PTL DEF ApiSpec, ReadsAreMonotonic

----------------------------------------------------------------------------
(* What is not answered.                                                   *)

\* Before it is published a block is the next one, or genesis.
NextOne == pc = "publish" => height = idx + 1 \/ (height = 0 /\ idx \in {0, None})

\* The current block is asked for by its height alone.
ByHeightAlone == tip = TRUE => id.hash = ZeroHash

\* What is committed is the block after the published one, and no request
\* for the current block comes to name a hash.
LEMMA RequestStep ==
  ASSUME ApiInv, NextOne, ByHeightAlone, [ApiNext]_apiVars
  PROVE  NextOne' /\ ByHeightAlone'
<1>1. CASE Read /\ UNCHANGED vars
  <2>1. NextOne' BY <1>1 DEF vars, NextOne
  <2>2. ASSUME NEW o, NEW b, NEW q, Ask(o, b, q) PROVE ByHeightAlone'
    <3>1. tip' = TRUE => id' = NoId BY <2>2 DEF Ask
    <3> QED BY <3>1 DEF NoId, ByHeightAlone
  <2>3. ASSUME Resolve PROVE ByHeightAlone'
    BY <2>3 DEF Resolve, ByHeight, ByHeightAlone
  <2>4. ASSUME Fail PROVE ByHeightAlone' BY <2>4 DEF Fail, ByHeightAlone
  <2>5. ASSUME \/ Bound \/ Lookup \/ Genesis \/ Sync \/ AnswerBalance \/ ReadParent
               \/ Transform \/ TransformFails \/ Finish
               \/ \E c \in Contracts : ReadBalance(c)
        PROVE  ByHeightAlone'
    <3>1. Fail \/ UNCHANGED <<id, tip>>
      BY <2>5 DEF Bound, Lookup, Genesis, Sync, ReadBalance, AnswerBalance, ReadParent,
         Transform, TransformFails, Finish
    <3> QED BY <2>4, <3>1 DEF ByHeightAlone
  <2>6. ByHeightAlone' BY <1>1, <2>2, <2>3, <2>5 DEF Read
  <2> QED BY <2>1, <2>6
<1>2. CASE Next /\ (UNCHANGED request \/ Fail)
  <2>1. ByHeightAlone' BY <1>2 DEF request, Fail, ByHeightAlone
  <2>2. CASE Commit
    <3>1. height = idx + 1 \/ (height = 0 /\ idx \in {0, None})
      BY <2>2 DEF Commit, ApiInv, IInv, InStep
    <3>2. height' = height /\ idx' = idx BY <2>2 DEF Commit, shared, local
    <3> QED BY <2>1, <3>1, <3>2 DEF NextOne
  <2>3. CASE NodeGrows \/ BeginExit \/ Cancel \/ Flush
    <3>1. pc' = pc /\ height' = height /\ idx' = idx
      BY <2>3 DEF NodeGrows, BeginExit, Cancel, Flush, shared, local
    <3> QED BY <2>1, <3>1 DEF NextOne
  <2>4. CASE ~Commit /\ ~(NodeGrows \/ BeginExit \/ Cancel \/ Flush)
    <3>1. pc' # "publish"
      BY <1>2, <2>4 DEF Next, Index, Start, Poll, PassEnds, Stop, FetchBlock, FetchBlockFails,
         FetchEvents, FetchEventsFatal, FetchEventsFailsExiting, CommitFails, Publish,
         CloseAndExit, ValidateAndExit, Kill, PowerLoss, Forget
    <3> QED BY <2>1, <3>1 DEF NextOne
  <2> QED BY <2>2, <2>3, <2>4
<1>3. CASE UNCHANGED apiVars BY <1>3 DEF apiVars, vars, request, NextOne, ByHeightAlone
<1> QED BY <1>1, <1>2, <1>3 DEF ApiNext

\* Every request and every step of the indexer keeps the two.
LEMMA InductiveRequest == ApiSpec => [](NextOne /\ ByHeightAlone)
<1>1. ApiInit => NextOne /\ ByHeightAlone
  BY DEF ApiInit, Init, NoRequest, NextOne, ByHeightAlone
<1>2. ApiInv /\ (NextOne /\ ByHeightAlone) /\ [ApiNext]_apiVars
        => (NextOne /\ ByHeightAlone)'
  BY RequestStep
<1> QED BY <1>1, <1>2, InductiveApi, PTL DEF ApiSpec

\* Nothing but a status request panics, and nowhere but in one window: a
\* process that came up with an empty store has committed genesis and has not
\* yet published its height (store.go 83-97 and 690-703).
THEOREM PanicsInOneWindow ==
  ApiSpec => [][at # "panicked" /\ at' = "panicked" =>
                  op = "status" /\ pc = "publish" /\ height = 0 /\ idx = None]_apiVars
<1> DEFINE Window == at # "panicked" /\ at' = "panicked" =>
                       op = "status" /\ pc = "publish" /\ height = 0 /\ idx = None
<1>1. ApiInv /\ NextOne /\ [ApiNext]_apiVars => [Window]_apiVars
  <2> SUFFICES ASSUME ApiInv, NextOne, ApiNext, at # "panicked", at' = "panicked"
               PROVE  op = "status" /\ pc = "publish" /\ height = 0 /\ idx = None
    OBVIOUS
  <2>1. Sync
    BY DEF ApiNext, Read, Ask, Resolve, Bound, Lookup, Genesis, ReadBalance,
       AnswerBalance, ReadParent, Transform, TransformFails, Finish, Fail, request
  <2>2. at = "sync" /\ idx = None BY <2>1 DEF Sync
  <2>3. /\ op = "status" /\ Up
        /\ cur.height \in Heights /\ cur.height <= db.height
    BY <2>2 DEF ApiInv, Shape, Live, FoundIt, HasBlock
  <2>4. /\ db.height # idx /\ None = -1
    BY <2>2, <2>3, ChainAssumption DEF Heights, None
  <2>5. pc = "publish" BY <2>3, <2>4 DEF ApiInv, IInv, InStep
  <2>6. height = 0 BY <2>2, <2>4, <2>5 DEF NextOne
  <2> QED BY <2>2, <2>3, <2>5, <2>6
<1> QED BY <1>1, InductiveApi, InductiveRequest, PTL DEF ApiSpec

\* A request for the current block is refused by an empty store alone, and one
\* that has its block finds genesis and the parent: the heights read twice and
\* the reads in transactions of their own never make an error of what was there
\* (getBlockInfo and getBlockInfoRaw, store.go 466-606).
THEOREM CurrentIsFound ==
  ApiSpec => [][Read /\ at' = "idle" =>
                  /\ at \notin {"genesis", "parent"}
                  /\ tip /\ at \in {"bound", "lookup"} => db.height = None]_apiVars
<1> DEFINE Refused == Read /\ at' = "idle" =>
                        /\ at \notin {"genesis", "parent"}
                        /\ tip /\ at \in {"bound", "lookup"} => db.height = None
<1>1. ASSUME IInv, NEW h \in Heights, h <= db.height
      PROVE  GetBlockInfoRaw(db, ByHeight(h)).ok
  <2>1. db.hashAt[h] # ZeroHash
    BY <1>1, ChainAssumption DEF IInv, GoodContent, Contiguous
  <2> QED BY <2>1 DEF GetBlockInfoRaw, ByHeight, Found
<1>2. ApiInv /\ ByHeightAlone /\ [ApiNext]_apiVars => [Refused]_apiVars
  <2> SUFFICES ASSUME ApiInv, ByHeightAlone, Read, at' = "idle"
               PROVE  /\ at \notin {"genesis", "parent"}
                      /\ tip /\ at \in {"bound", "lookup"} => db.height = None
    OBVIOUS
  <2>h. /\ Heights \subseteq Nat /\ 0 \in Heights /\ None = -1
        /\ db.height \in Heights \union {None} /\ db.height \in Int
        /\ idx \in Heights \union {None} /\ idx \in Int
        /\ GetHeight \in Heights /\ GetHeight \in Nat
    BY HeightsAreInts DEF ApiInv
  <2>1. at # "genesis"
    <3> SUFFICES ASSUME at = "genesis" PROVE FALSE OBVIOUS
    <3>0. cur.height \in Heights /\ cur.height <= db.height
      BY DEF ApiInv, FoundIt, HasBlock
    <3>1. 0 <= db.height
      <4>1. cur.height \in Nat BY <2>h, <3>0
      <4> QED BY <2>h, <3>0, <4>1
    <3>2. GetBlockInfoRaw(db, ByHeight(0)).ok BY <1>1, <2>h, <3>1 DEF ApiInv
    <3>3. Genesis
      BY DEF Read, Ask, Resolve, Bound, Lookup, Sync, ReadBalance, AnswerBalance,
         ReadParent, Transform, TransformFails, Finish
    <3> QED BY <3>2, <3>3 DEF Genesis
  <2>2. at # "parent"
    <3> SUFFICES ASSUME at = "parent" PROVE FALSE OBVIOUS
    <3>1. cur.height \in Heights /\ cur.height <= db.height
      BY DEF ApiInv, FoundIt, HasBlock
    <3>2. ReadParent
      BY DEF Read, Ask, Resolve, Bound, Lookup, Genesis, Sync, ReadBalance, AnswerBalance,
         Transform, TransformFails, Finish
    <3>3. cur.height # 0 BY <3>2 DEF ReadParent
    <3>4. cur.height - 1 \in Heights /\ cur.height - 1 <= db.height
      BY <2>h, <3>1, <3>3, ChainAssumption DEF Heights
    <3>5. GetBlockInfoRaw(db, ByHeight(cur.height - 1)).ok BY <1>1, <3>4 DEF ApiInv
    <3> QED BY <3>2, <3>3, <3>5 DEF ReadParent
  <2>3. ASSUME tip, at \in {"bound", "lookup"} PROVE db.height = None
    <3>1. id.byHeight /\ id.height <= GetHeight /\ id.hash = ZeroHash /\ id.height \in Heights
      BY <2>3 DEF ApiInv, Current, Shape, ByHeightAlone
    <3>2. at = "lookup" /\ ~GetBlockInfoRaw(db, id).ok
      <4>0. id.height \in Nat BY <2>h, <3>1
      <4>1. ~Bound
        <5>1. ~(id.height > GetHeight) BY ONLY <2>h, <3>1, <4>0
        <5> QED BY <5>1 DEF Bound
      <4>2. Lookup
        BY <2>3, <4>1 DEF Read, Ask, Resolve, Genesis, Sync, ReadBalance, AnswerBalance,
           ReadParent, Transform, TransformFails, Finish
      <4> QED BY <4>2 DEF Lookup
    <3>3. db.hashAt[id.height] = ZeroHash BY <3>1, <3>2 DEF GetBlockInfoRaw, Found
    <3>4. ~(id.height <= db.height)
      BY <3>1, <3>3, ChainAssumption DEF ApiInv, IInv, GoodContent, Contiguous
    <3>5. idx <= db.height BY <3>2, PublishedIsStored DEF ApiInv, Live
    <3>6. id.height \in Nat BY <2>h, <3>1
    <3>7. CASE idx = None
      <4>1. id.height <= 0 BY <3>1, <3>7 DEF GetHeight
      <4>2. ~(0 <= db.height) BY ONLY <2>h, <3>4, <3>6, <4>1
      <4> QED BY <2>h, <4>2
    <3>8. CASE idx # None
      <4>1. id.height <= idx BY <3>1, <3>8 DEF GetHeight
      <4>2. id.height <= db.height BY ONLY <2>h, <3>5, <3>6, <4>1
      <4> QED BY <3>4, <4>2
    <3> QED BY <3>7, <3>8
  <2> QED BY <2>1, <2>2, <2>3
<1> QED BY <1>2, InductiveApi, InductiveRequest, PTL DEF ApiSpec
=============================================================================
