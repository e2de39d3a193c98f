------------------------------ MODULE StoreDB ------------------------------
(***************************************************************************)
(* The key/value layout of services/store.go (lines 59-71) and the pure    *)
(* part of its reads and writes: the reverse seek that finds the balance   *)
(* of an account at a height, the arithmetic that adds one block's diffs,  *)
(* the batch setBlock writes in one badger transaction.                    *)
(*                                                                         *)
(* One record stands for the content of the database:                      *)
(*   acct     a<acct><contract><height> = amount      (balance entries)    *)
(*   blocks   b<height> = Block, abstracted to the set of contracts whose  *)
(*            transfers that block was indexed with                        *)
(*   heightOf c<block hash> = height                                       *)
(*   hashAt   d<height> = block hash                                       *)
(*   txns     e<unsigned txn hash>                                         *)
(*   height   "height"                                                     *)
(***************************************************************************)
EXTENDS Integers, FiniteSets, FiniteSetsExt

CONSTANTS
  MaxHeight,    \* bound: the highest block the chain grows to
  Accounts,     \* addresses
  Contracts,    \* contract addresses of the tokens (ONG, ONT, OEP4)
  Hashes,       \* block hashes of the chain
  ZeroHash,     \* common.UINT256_EMPTY
  NoBlock,      \* a b<height> key that is absent
  BlockHash,    \* the hash of the block at each height
  TxnHashes,    \* unsigned transaction hashes
  TxnsOf,       \* those of each block
  Touched,      \* the keys with a transfer in each block
  Diff,         \* the diff that the block's transfer events add up to
  OnChain       \* the ledger's own balance of each key after each block

None == -1                        \* an absent integer value
Heights == 0..MaxHeight
Keys == Accounts \X Contracts     \* <<account, contract>>

\* The chain: heights are a bounded range and every block has its own hash.
ASSUME ChainAssumption ==
  /\ MaxHeight \in Nat
  /\ \A s \in SUBSET Contracts : s # NoBlock
  /\ ZeroHash \notin Hashes
  /\ BlockHash \in [Heights -> Hashes]
  /\ \A g, h \in Heights : BlockHash[g] = BlockHash[h] => g = h
  /\ TxnsOf \in [Heights -> SUBSET TxnHashes]

\* What indexing relies on: the events of a block account for the whole
\* change of every balance between its parent and itself, and no balance of
\* the ledger is negative.
ASSUME FaithfulEvents ==
  /\ Touched \in [Heights -> SUBSET Keys]
  /\ Diff \in [Heights -> [Keys -> Int]]
  /\ OnChain \in [Keys -> [Heights -> Nat]]
  /\ \A k \in Keys, h \in Heights :
       OnChain[k][h] = (IF h = 0 THEN 0 ELSE OnChain[k][h-1])
                         + (IF k \in Touched[h] THEN Diff[h][k] ELSE 0)

----------------------------------------------------------------------------
DBType ==
  [ acct     : [Keys -> [Heights -> Nat \union {None}]],
    blocks   : [Heights -> {NoBlock} \union SUBSET Contracts],
    heightOf : [Hashes -> Heights \union {None}],
    hashAt   : [Heights -> Hashes \union {ZeroHash}],
    txns     : SUBSET TxnHashes,
    height   : Heights \union {None} ]

EmptyDB ==
  [ acct     |-> [k \in Keys |-> [h \in Heights |-> None]],
    blocks   |-> [h \in Heights |-> NoBlock],
    heightOf |-> [x \in Hashes |-> None],
    hashAt   |-> [h \in Heights |-> ZeroHash],
    txns     |-> {},
    height   |-> None ]

----------------------------------------------------------------------------
(* Reading a balance: seek backwards from <prefix><height> and accept the  *)
(* entry only while it has the prefix of the account and contract.         *)

\* The heights up to h at which the key has an entry.
Entries(hist, h) == {i \in Heights : i <= h /\ hist[i] # None}

\* The newest of a set of entries, zero when there is none.
Newest(hist, S) == IF S = {} THEN 0 ELSE hist[Max(S)]

\* The balance answered for a height.  (slip: the seek starts at the last key)
BalanceAt_NotBounded(hist, h) == Newest(hist, Entries(hist, MaxHeight))
BalanceAt(hist, h) == Newest(hist, Entries(hist, h))

\* The balance setBlock adds a diff to: an entry already written for this
\* very height (the block is being indexed again) is stepped over.
\* (slip: it is not)
PrevBalance_KeepsOwn(hist, h) == Newest(hist, Entries(hist, h))
PrevBalance(hist, h) == Newest(hist, Entries(hist, h) \ {h})

\* big.Int.Bytes() drops the sign of what is stored.  (slip: it is kept)
Magnitude_Signed(n) == n
Magnitude(n) == IF n < 0 THEN -n ELSE n

----------------------------------------------------------------------------
(* setBlock: one badger transaction, all of it or nothing.                 *)

\* The keys the block changes when its events of these contracts are read.
Changes(h, tracked) == {k \in Touched[h] : k[2] \in tracked}

WriteAccounts(acct, h, tracked) ==
  [k \in Keys |->
     IF k \in Changes(h, tracked)
     THEN [acct[k] EXCEPT ![h] = Magnitude(PrevBalance(acct[k], h) + Diff[h][k])]
     ELSE acct[k]]

\* slip: the unsigned transaction hashes are left out of the batch
WriteBlock_NoTxnHashes(d, h, tracked) ==
  [ acct     |-> WriteAccounts(d.acct, h, tracked),
    blocks   |-> [d.blocks EXCEPT ![h] = tracked],
    heightOf |-> [d.heightOf EXCEPT ![BlockHash[h]] = h],
    hashAt   |-> [d.hashAt EXCEPT ![h] = BlockHash[h]],
    txns     |-> d.txns,
    height   |-> h ]

\* The batch: balances, block, both lookups, transaction hashes, height.
WriteBlock(d, h, tracked) ==
  [ acct     |-> WriteAccounts(d.acct, h, tracked),
    blocks   |-> [d.blocks EXCEPT ![h] = tracked],
    heightOf |-> [d.heightOf EXCEPT ![BlockHash[h]] = h],
    hashAt   |-> [d.hashAt EXCEPT ![h] = BlockHash[h]],
    txns     |-> d.txns \union TxnsOf[h],
    height   |-> h ]

----------------------------------------------------------------------------
(* What is meant by a correct content.                                     *)

\* A balance entry is only ever made where the block moved the balance.
OnlyTouched(d) ==
  \A k \in Keys, h \in Heights : d.acct[k][h] # None => k \in Touched[h]

\* The contract of a key was tracked in every block up to h.
TrackedSince(d, c, h) == \A i \in 0..h : d.blocks[i] # NoBlock /\ c \in d.blocks[i]

\* The balance at every indexed height is the ledger's, for such contracts.
Matches(d) ==
  \A k \in Keys, h \in Heights :
    h <= d.height /\ TrackedSince(d, k[2], h)
      => BalanceAt(d.acct[k], h) = OnChain[k][h]

\* The blocks held are exactly 0..height, all lookups agree on them, and no
\* hash but those of the blocks is known.
Contiguous(d) ==
  /\ \A h \in Heights :
       /\ d.hashAt[h] = IF h <= d.height THEN BlockHash[h] ELSE ZeroHash
       /\ d.heightOf[BlockHash[h]] = IF h <= d.height THEN h ELSE None
       /\ (d.blocks[h] # NoBlock) <=> h <= d.height
  /\ \A x \in Hashes : d.heightOf[x] # None => BlockHash[d.heightOf[x]] = x

\* Two contents give the same balances at the heights both hold; at genesis,
\* those of the contracts both indexed it with.
SameAnswers(d, e) ==
  \A k \in Keys, h \in Heights :
    /\ h <= d.height /\ h <= e.height
    /\ h = 0 => k[2] \in d.blocks[0] /\ k[2] \in e.blocks[0]
    => BalanceAt(d.acct[k], h) = BalanceAt(e.acct[k], h)

\* The transactions that are known are those of the blocks held.
TxnsKnown(d) == d.txns = UNION {TxnsOf[h] : h \in 0..d.height}
=============================================================================
