--------------------------- MODULE IndexerProofs ---------------------------
(***************************************************************************)
(* The indexer and its store, for every chain that satisfies               *)
(* ChainAssumption and FaithfulEvents, every token configuration and every *)
(* combination of faults.  In five parts: what the pure part of the store  *)
(* computes (the reverse seek returns the newest entry; writing the next   *)
(* block, or genesis again, keeps a correct content correct), the          *)
(* invariants of the indexer, which events a block is stored with, that    *)
(* the indexer implements ChainView, and what                              *)
(* --validate-store finds.                                                 *)
(***************************************************************************)
EXTENDS Validation, FiniteSetTheorems, SequenceTheorems, TLAPS

----------------------------------------------------------------------------
(* The pure part of the store.                                             *)

Hist == [Heights -> Nat \union {None}]

\* A nonempty set of heights has a greatest element, which Max returns: were
\* there none, x |-> x+1 would be an injection of the heights below some
\* element into those of them other than 0.
LEMMA MaxOfHeights ==
  ASSUME NEW N \in Nat, NEW S \in SUBSET (0..N), S # {}
  PROVE  Max(S) \in S /\ \A y \in S : Max(S) >= y
<1>1. \E x \in S : \A y \in S : x >= y
  <2> SUFFICES ASSUME \A x \in S : \E y \in S : ~(x >= y) PROVE FALSE
    OBVIOUS
  <2> DEFINE U == {x \in 0..N : \E s \in S : x <= s}
             f == [x \in U |-> x + 1]
  <2>1. IsFiniteSet(U)
    <3>1. U \in SUBSET (0..N) OBVIOUS
    <3> HIDE DEF U
    <3>2. IsFiniteSet(0..N) BY FS_Interval
    <3> QED BY <3>1, <3>2, FS_Subset
  <2>2. 0 \in U
    <3>1. PICK s \in S : s \in 0..N OBVIOUS
    <3> QED BY <3>1
  <2>3. f \in [U -> U \ {0}]
    <3> SUFFICES ASSUME NEW x \in U PROVE x + 1 \in U \ {0}
      OBVIOUS
    <3>1. PICK s \in S : x <= s OBVIOUS
    <3>2. PICK y \in S : ~(s >= y) OBVIOUS
    <3>3. s \in 0..N /\ y \in 0..N OBVIOUS
    <3>4. x + 1 <= y BY <3>1, <3>2, <3>3
    <3> QED BY <3>3, <3>4
  <2>4. IsFiniteSet(U \ {0}) /\ Cardinality(U \ {0}) < Cardinality(U)
    <3> HIDE DEF U
    <3>1. IsFiniteSet(U \ {0}) /\ Cardinality(U \ {0}) = Cardinality(U) - 1
      BY <2>1, <2>2, FS_RemoveElement
    <3>2. Cardinality(U) \in Nat
      BY <2>1, FS_CardinalityType
    <3> QED BY <3>1, <3>2
  <2>5. \A x, y \in U : f[x] = f[y] => x = y
    OBVIOUS
  <2> HIDE DEF U, f
  <2>6. \E x, y \in U : x # y /\ f[x] = f[y]
    BY <2>1, <2>3, <2>4, FS_PigeonHole
  <2> QED BY <2>5, <2>6
<1> QED BY <1>1 DEF Max

\* The newest of a set of entries is a balance.
LEMMA NewestNat ==
  ASSUME NEW hist \in Hist, NEW S \in SUBSET Heights,
         \A i \in S : hist[i] # None
  PROVE  Newest(hist, S) \in Nat
<1>1. CASE S = {} BY <1>1 DEF Newest
<1>2. CASE S # {}
  <2>1. Max(S) \in S
    BY <1>2, MaxOfHeights, ChainAssumption DEF Heights
  <2> QED BY <1>2, <2>1 DEF Newest, Hist
<1> QED BY <1>1, <1>2

\* It is the entry at the set's greatest height.
LEMMA NewestIsGreatest ==
  ASSUME NEW hist, NEW S \in SUBSET Heights, NEW h \in S, \A i \in S : i <= h
  PROVE  Newest(hist, S) = hist[h]
<1>1. Max(S) \in S /\ Max(S) >= h
  BY MaxOfHeights, ChainAssumption DEF Heights
<1>2. h \in Heights /\ Max(S) \in Heights /\ Max(S) <= h
  BY <1>1
<1>3. Max(S) = h BY <1>1, <1>2, ChainAssumption DEF Heights
<1> QED BY <1>3 DEF Newest

\* Two histories that agree on a set have the same newest entry there.
LEMMA NewestAgrees ==
  ASSUME NEW f, NEW g, NEW S \in SUBSET Heights, \A i \in S : f[i] = g[i]
  PROVE  Newest(f, S) = Newest(g, S)
<1>1. CASE S = {} BY <1>1 DEF Newest
<1>2. CASE S # {}
  <2>1. Max(S) \in S
    BY <1>2, MaxOfHeights, ChainAssumption DEF Heights
  <2> QED BY <1>2, <2>1 DEF Newest
<1> QED BY <1>1, <1>2

\* The two reverse seeks return balances.
LEMMA BalancesAreNat ==
  ASSUME NEW hist \in Hist, NEW h \in Heights
  PROVE  BalanceAt(hist, h) \in Nat /\ PrevBalance(hist, h) \in Nat
<1>1. Entries(hist, h) \in SUBSET Heights BY DEF Entries
<1>2. \A i \in Entries(hist, h) : hist[i] # None BY DEF Entries
<1>3. Newest(hist, Entries(hist, h)) \in Nat BY <1>1, <1>2, NewestNat
<1>4. Newest(hist, Entries(hist, h) \ {h}) \in Nat BY <1>1, <1>2, NewestNat
<1> QED BY <1>3, <1>4 DEF BalanceAt, PrevBalance

\* The balance a diff is added to is the one at the height before.
LEMMA PrevIsBefore ==
  ASSUME NEW hist, NEW h \in Heights
  PROVE  PrevBalance(hist, h) = IF h = 0 THEN 0 ELSE BalanceAt(hist, h - 1)
<1>1. CASE h = 0
  <2>1. Entries(hist, h) \ {h} = {} BY <1>1 DEF Entries, Heights
  <2> QED BY <1>1, <2>1 DEF PrevBalance, Newest
<1>2. CASE h # 0
  <2>1. Entries(hist, h) \ {h} = Entries(hist, h - 1)
    BY <1>2, ChainAssumption DEF Entries, Heights
  <2> QED BY <1>2, <2>1 DEF PrevBalance, BalanceAt
<1> QED BY <1>1, <1>2

\* Without an entry of its own a height has the balance of the one before.
LEMMA NoEntryNoChange ==
  ASSUME NEW hist, NEW h \in Heights, hist[h] = None
  PROVE  BalanceAt(hist, h) = PrevBalance(hist, h)
<1>1. Entries(hist, h) = Entries(hist, h) \ {h} BY DEF Entries
<1> QED BY <1>1 DEF BalanceAt, PrevBalance

\* An entry at a height is the balance there, and leaves those below alone.
LEMMA EntrySetsBalance ==
  ASSUME NEW hist \in Hist, NEW h \in Heights, NEW n \in Nat
  PROVE  LET new == [hist EXCEPT ![h] = n]
         IN  /\ BalanceAt(new, h) = n
             /\ \A g \in Heights : g < h => BalanceAt(new, g) = BalanceAt(hist, g)
<1> DEFINE new == [hist EXCEPT ![h] = n]
<1>1. new[h] = n /\ \A i \in Heights : i # h => new[i] = hist[i]
  BY DEF Hist
<1> HIDE DEF new
<1>2. BalanceAt(new, h) = n
  <2>1. h \in Entries(new, h) BY <1>1, ChainAssumption DEF Entries, None, Heights
  <2>2. Entries(new, h) \in SUBSET Heights /\ \A i \in Entries(new, h) : i <= h
    BY DEF Entries
  <2> QED BY <1>1, <2>1, <2>2, NewestIsGreatest DEF BalanceAt
<1>3. ASSUME NEW g \in Heights, g < h
      PROVE  BalanceAt(new, g) = BalanceAt(hist, g)
  <2>1. Entries(new, g) = Entries(hist, g)
    BY <1>1, <1>3, ChainAssumption DEF Entries, Heights
  <2>2. Entries(hist, g) \in SUBSET Heights BY DEF Entries
  <2>3. \A i \in Entries(hist, g) : new[i] = hist[i]
    BY <1>1, <1>3, ChainAssumption DEF Entries, Heights
  <2> QED BY <2>1, <2>2, <2>3, NewestAgrees DEF BalanceAt
<1> QED BY <1>2, <1>3 DEF new
----------------------------------------------------------------------------
(* Writing a block.                                                        *)

\* The heights IndexBlocks may write: the next, or genesis again.
MayWrite(d, h) == h = d.height + 1 \/ (h = 0 /\ d.height \in {0, None})

\* The batch keeps the layout of the database.
LEMMA WriteBlockType ==
  ASSUME NEW d \in DBType, NEW h \in Heights, NEW T \in SUBSET Contracts
  PROVE  WriteBlock(d, h, T) \in DBType
<1>1. ASSUME NEW k \in Keys
      PROVE  WriteAccounts(d.acct, h, T)[k] \in Hist
  <2>1. d.acct[k] \in Hist BY DEF DBType, Hist
  <2>2. PrevBalance(d.acct[k], h) \in Nat BY <2>1, BalancesAreNat
  <2>3. CASE k \in Changes(h, T)
    <3>1. Diff[h][k] \in Int BY FaithfulEvents
    <3>2. Magnitude(PrevBalance(d.acct[k], h) + Diff[h][k]) \in Nat
      BY <2>2, <3>1 DEF Magnitude
    <3> QED BY <2>1, <2>3, <3>2 DEF WriteAccounts, Hist
  <2>4. CASE k \notin Changes(h, T) BY <2>1, <2>4 DEF WriteAccounts
  <2> QED BY <2>3, <2>4
<1>2. WriteAccounts(d.acct, h, T) \in [Keys -> Hist]
  BY <1>1 DEF WriteAccounts
<1>3. /\ [d.blocks EXCEPT ![h] = T] \in [Heights -> {NoBlock} \union SUBSET Contracts]
      /\ [d.heightOf EXCEPT ![BlockHash[h]] = h] \in [Hashes -> Heights \union {None}]
      /\ [d.hashAt EXCEPT ![h] = BlockHash[h]] \in [Heights -> Hashes \union {ZeroHash}]
      /\ d.txns \union TxnsOf[h] \in SUBSET TxnHashes
  BY ChainAssumption DEF DBType
<1> QED BY <1>2, <1>3 DEF WriteBlock, DBType, Hist

\* Entries are made only where the block moved the balance.
LEMMA WriteBlockOnlyTouched ==
  ASSUME NEW d \in DBType, OnlyTouched(d), NEW h \in Heights,
         NEW T \in SUBSET Contracts
  PROVE  OnlyTouched(WriteBlock(d, h, T))
<1> SUFFICES ASSUME NEW k \in Keys, NEW g \in Heights,
                    WriteAccounts(d.acct, h, T)[k][g] # None
             PROVE  k \in Touched[g]
  BY DEF OnlyTouched, WriteBlock
<1>1. d.acct[k] \in Hist BY DEF DBType, Hist
<1>2. CASE k \in Changes(h, T) /\ g = h BY <1>2 DEF Changes
<1>3. CASE ~(k \in Changes(h, T) /\ g = h)
  <2>1. WriteAccounts(d.acct, h, T)[k][g] = d.acct[k][g]
    BY <1>1, <1>3 DEF WriteAccounts, Hist
  <2> QED BY <2>1 DEF OnlyTouched
<1> QED BY <1>2, <1>3

\* Balances below the height are left alone; at the height they are the
\* earlier balance and the diff, where the block's change is recorded.
LEMMA WriteBlockBalances ==
  ASSUME NEW d \in DBType, NEW h \in Heights, NEW T \in SUBSET Contracts,
         NEW k \in Keys
  PROVE  LET new == WriteBlock(d, h, T).acct[k]
         IN  /\ \A g \in Heights : g < h => BalanceAt(new, g) = BalanceAt(d.acct[k], g)
             /\ k \in Changes(h, T) =>
                  BalanceAt(new, h) = Magnitude(PrevBalance(d.acct[k], h) + Diff[h][k])
             /\ k \notin Changes(h, T) => new = d.acct[k]
<1> DEFINE n == Magnitude(PrevBalance(d.acct[k], h) + Diff[h][k])
<1>1. d.acct[k] \in Hist BY DEF DBType, Hist
<1>2. n \in Nat
  <2>1. PrevBalance(d.acct[k], h) \in Nat BY <1>1, BalancesAreNat
  <2>2. Diff[h][k] \in Int BY FaithfulEvents
  <2> QED BY <2>1, <2>2 DEF Magnitude
<1>3. CASE k \in Changes(h, T)
  <2>1. WriteBlock(d, h, T).acct[k] = [d.acct[k] EXCEPT ![h] = n]
    BY <1>3 DEF WriteBlock, WriteAccounts
  <2> HIDE DEF n
  <2>2. /\ BalanceAt([d.acct[k] EXCEPT ![h] = n], h) = n
        /\ \A g \in Heights : g < h =>
             BalanceAt([d.acct[k] EXCEPT ![h] = n], g) = BalanceAt(d.acct[k], g)
    BY <1>1, <1>2, EntrySetsBalance
  <2> QED BY <1>3, <2>1, <2>2 DEF n
<1>4. CASE k \notin Changes(h, T)
  BY <1>4 DEF WriteBlock, WriteAccounts
<1> QED BY <1>3, <1>4

\* The lookups stay gapless and in agreement.
LEMMA WriteBlockContiguous ==
  ASSUME NEW d \in DBType, Contiguous(d), NEW h \in Heights, MayWrite(d, h),
         NEW T \in SUBSET Contracts
  PROVE  Contiguous(WriteBlock(d, h, T))
<1> DEFINE e == WriteBlock(d, h, T)
<1>1. e.height = h /\ \A g \in Heights : g <= h <=> g = h \/ g <= d.height
  BY ChainAssumption DEF WriteBlock, MayWrite, DBType, Heights, None
<1>2. /\ d.hashAt \in [Heights -> Hashes \union {ZeroHash}]
      /\ d.heightOf \in [Hashes -> Heights \union {None}]
      /\ d.blocks \in [Heights -> {NoBlock} \union SUBSET Contracts]
  BY DEF DBType
<1>3. ASSUME NEW g \in Heights
      PROVE  /\ e.hashAt[g] = IF g <= e.height THEN BlockHash[g] ELSE ZeroHash
             /\ e.heightOf[BlockHash[g]] = IF g <= e.height THEN g ELSE None
             /\ (e.blocks[g] # NoBlock) <=> g <= e.height
  <2>1. CASE g = h
    BY <1>1, <1>2, <2>1, ChainAssumption DEF WriteBlock
  <2>2. CASE g # h
    <3>1. BlockHash[g] # BlockHash[h] BY <2>2, ChainAssumption
    <3>2. /\ e.hashAt[g] = d.hashAt[g]
          /\ e.heightOf[BlockHash[g]] = d.heightOf[BlockHash[g]]
          /\ e.blocks[g] = d.blocks[g]
      BY <1>2, <2>2, <3>1, ChainAssumption DEF WriteBlock
    <3>3. g <= e.height <=> g <= d.height BY <1>1, <2>2
    <3> QED BY <3>2, <3>3 DEF Contiguous
  <2> QED BY <2>1, <2>2
<1>4. ASSUME NEW x \in Hashes, e.heightOf[x] # None
      PROVE  BlockHash[e.heightOf[x]] = x
  <2>1. CASE x = BlockHash[h]
    BY <1>2, <2>1, ChainAssumption DEF WriteBlock
  <2>2. CASE x # BlockHash[h]
    <3>1. e.heightOf[x] = d.heightOf[x] BY <1>2, <2>2, ChainAssumption DEF WriteBlock
    <3> QED BY <1>4, <3>1 DEF Contiguous
  <2> QED BY <2>1, <2>2
<1> QED BY <1>3, <1>4 DEF Contiguous

\* The known transactions stay those of the blocks held.
LEMMA WriteBlockTxns ==
  ASSUME NEW d \in DBType, TxnsKnown(d), NEW h \in Heights, MayWrite(d, h),
         NEW T \in SUBSET Contracts
  PROVE  TxnsKnown(WriteBlock(d, h, T))
<1>1. 0..h = (0..d.height) \union {h}
  BY ChainAssumption DEF MayWrite, DBType, Heights, None
<1>2. WriteBlock(d, h, T).height = h
      /\ WriteBlock(d, h, T).txns = d.txns \union TxnsOf[h]
  BY DEF WriteBlock
<1> QED BY <1>1, <1>2 DEF TxnsKnown

\* The balances stay the ledger's.  At the height written: a contract read
\* since genesis has the ledger's balance before it, to which the block's
\* events add what the ledger added; the sum is no negative number, so the
\* sign that Bytes drops is none.
LEMMA WriteBlockMatches ==
  ASSUME NEW d \in DBType, OnlyTouched(d), Matches(d), NEW h \in Heights,
         MayWrite(d, h), NEW T \in SUBSET Contracts
  PROVE  Matches(WriteBlock(d, h, T))
<1> DEFINE e == WriteBlock(d, h, T)
<1> SUFFICES ASSUME NEW k \in Keys, NEW g \in Heights, g <= e.height,
                    TrackedSince(e, k[2], g)
             PROVE  BalanceAt(e.acct[k], g) = OnChain[k][g]
  BY DEF Matches
<1>1. e.height = h /\ e.blocks = [d.blocks EXCEPT ![h] = T] BY DEF WriteBlock
<1>2. d.blocks \in [Heights -> {NoBlock} \union SUBSET Contracts]
      /\ d.height \in Int
  BY ChainAssumption DEF DBType, Heights, None
<1>3. ASSUME NEW f \in Heights, f < h, f <= g
      PROVE  BalanceAt(d.acct[k], f) = OnChain[k][f]
  <2>1. f <= d.height
    BY <1>2, <1>3, ChainAssumption DEF MayWrite, Heights, None
  <2>2. \A i \in 0..f : i \in 0..g /\ i # h /\ i \in Heights
    BY <1>3, ChainAssumption DEF Heights
  <2>3. TrackedSince(d, k[2], f)
    BY <1>1, <1>2, <2>2 DEF TrackedSince
  <2> QED BY <2>1, <2>3 DEF Matches
<1>4. CASE g < h
  <2>1. BalanceAt(e.acct[k], g) = BalanceAt(d.acct[k], g)
    BY <1>4, WriteBlockBalances
  <2> QED BY <1>3, <1>4, <2>1 DEF Heights
<1>5. CASE g = h
  <2> DEFINE before == IF h = 0 THEN 0 ELSE OnChain[k][h - 1]
  <2>1. k[2] \in T
    <3>1. h \in 0..g BY <1>5, ChainAssumption DEF Heights
    <3>2. e.blocks[h] = T BY <1>1, <1>2
    <3> QED BY <3>1, <3>2 DEF TrackedSince
  <2>2. PrevBalance(d.acct[k], h) = before
    <3>1. CASE h = 0 BY <3>1, PrevIsBefore
    <3>2. CASE h # 0
      <4>1. h - 1 \in Heights /\ h - 1 < h /\ h - 1 <= g
        BY <1>5, <3>2, ChainAssumption DEF Heights
      <4> QED BY <1>3, <3>2, <4>1, PrevIsBefore
    <3> QED BY <3>1, <3>2
  <2>3. OnChain[k][h] \in Nat /\ Diff[h][k] \in Int /\ before \in Nat
    BY FaithfulEvents, ChainAssumption DEF Heights
  <2>4. OnChain[k][h] = before + (IF k \in Touched[h] THEN Diff[h][k] ELSE 0)
    BY FaithfulEvents
  <2> HIDE DEF before
  <2>5. CASE k \in Touched[h]
    <3>1. k \in Changes(h, T) BY <2>1, <2>5 DEF Changes
    <3>2. BalanceAt(e.acct[k], h)
            = Magnitude(PrevBalance(d.acct[k], h) + Diff[h][k])
      BY <3>1, WriteBlockBalances
    <3>3. Magnitude(before + Diff[h][k]) = OnChain[k][h]
      BY <2>3, <2>4, <2>5 DEF Magnitude
    <3> QED BY <1>5, <2>2, <3>2, <3>3
  <2>6. CASE k \notin Touched[h]
    <3>1. k \notin Changes(h, T) BY <2>6 DEF Changes
    <3>2. e.acct[k] = d.acct[k] BY <3>1, WriteBlockBalances
    <3>3. d.acct[k][h] = None BY <2>6 DEF OnlyTouched
    <3>4. BalanceAt(d.acct[k], h) = PrevBalance(d.acct[k], h)
      BY <3>3, NoEntryNoChange
    <3> QED BY <1>5, <2>2, <2>3, <2>4, <2>6, <3>2, <3>4
  <2> QED BY <2>5, <2>6
<1> QED BY <1>1, <1>4, <1>5 DEF Heights
\* A content that answers like the store, and is behind it, still does after
\* the store has written a block: no height both hold is rewritten but
\* genesis, where both have the ledger's balance.
LEMMA WriteBlockSameAnswers ==
  ASSUME NEW c \in DBType, Matches(c), Contiguous(c), NEW d \in DBType, NEW h \in Heights,
         NEW T \in SUBSET Contracts, Matches(WriteBlock(d, h, T)),
         MayWrite(d, h), c.height <= d.height, SameAnswers(c, d)
  PROVE  SameAnswers(c, WriteBlock(d, h, T))
<1> DEFINE e == WriteBlock(d, h, T)
<1> SUFFICES ASSUME NEW k \in Keys, NEW g \in Heights,
                    g <= c.height, g <= e.height,
                    g = 0 => k[2] \in c.blocks[0] /\ k[2] \in e.blocks[0]
             PROVE  BalanceAt(c.acct[k], g) = BalanceAt(e.acct[k], g)
  BY DEF SameAnswers
<1>1. e.height = h /\ e.blocks = [d.blocks EXCEPT ![h] = T] BY DEF WriteBlock
<1>2. /\ d.blocks \in [Heights -> {NoBlock} \union SUBSET Contracts]
      /\ d.height \in Int /\ c.height \in Int
      /\ 0 \in Heights /\ Heights \subseteq Nat
  BY ChainAssumption DEF DBType, Heights, None
<1>3. CASE g < h
  <2>1. BalanceAt(e.acct[k], g) = BalanceAt(d.acct[k], g)
    BY <1>3, WriteBlockBalances
  <2>2. g <= d.height BY <1>2
  <2>3. g = 0 => e.blocks[0] = d.blocks[0] BY <1>1, <1>2, <1>3
  <2> QED BY <2>1, <2>2, <2>3 DEF SameAnswers
<1>4. CASE g = h
  <2>1. g = 0 BY <1>2, <1>4 DEF MayWrite
  <2>2. e.blocks[0] = T BY <1>1, <1>2, <1>4, <2>1
  <2>3. c.blocks[0] # NoBlock /\ e.blocks[0] # NoBlock
    BY <1>2, <2>1, <2>2, ChainAssumption DEF Contiguous
  <2>4. TrackedSince(c, k[2], 0) /\ TrackedSince(e, k[2], 0)
    BY <2>1, <2>3 DEF TrackedSince
  <2> QED BY <2>1, <2>4 DEF Matches
<1> QED BY <1>1, <1>2, <1>3, <1>4

----------------------------------------------------------------------------
(* The invariants of the indexer.                                          *)

\* The empty store satisfies everything asked of a content.
LEMMA EmptyIsGood == GoodContent(EmptyDB)
<1>1. EmptyDB \in DBType BY DEF EmptyDB, DBType
<1>2. OnlyTouched(EmptyDB) BY DEF OnlyTouched, EmptyDB
<1>3. Matches(EmptyDB)
  BY ChainAssumption DEF Matches, EmptyDB, None, Heights
<1>4. Contiguous(EmptyDB)
  BY ChainAssumption DEF Contiguous, EmptyDB, None, Heights
<1>5. TxnsKnown(EmptyDB)
  <2>1. 0..None = {} BY DEF None
  <2> QED BY <2>1 DEF TxnsKnown, EmptyDB
<1> QED BY <1>1, <1>2, <1>3, <1>4, <1>5 DEF GoodContent

\* A block written at the next height, or at genesis again, keeps it so.
LEMMA WriteIsGood ==
  ASSUME NEW d, GoodContent(d), NEW h \in Heights, MayWrite(d, h),
         NEW T \in SUBSET Contracts
  PROVE  GoodContent(WriteBlock(d, h, T))
<1> QED
  BY WriteBlockType, WriteBlockOnlyTouched, WriteBlockMatches,
     WriteBlockContiguous, WriteBlockTxns DEF GoodContent

\* An empty store and a process that is down satisfy the invariant.
LEMMA InitIInv == Init => IInv
<1> SUFFICES ASSUME Init PROVE IInv OBVIOUS
<1>1. GoodContent(db) /\ GoodContent(disk) BY EmptyIsGood DEF Init
<1>2. TypeOK
  <2>1. db \in DBType /\ disk \in DBType BY <1>1 DEF GoodContent
  <2>2. 0 \in Heights /\ 0 \in 0..(MaxHeight + 1)
    BY ChainAssumption DEF Heights
  <2> QED BY <2>1, <2>2 DEF Init, TypeOK, Places, Running
<1>3. InStep BY DEF Init, InStep, Up
<1>4. DiskBehind
  <2>1. db = disk /\ db.height = None BY DEF Init, EmptyDB
  <2> QED BY <2>1 DEF DiskBehind, SameAnswers, None
<1> QED BY <1>1, <1>2, <1>3, <1>4 DEF IInv

\* The end of a process leaves nothing in memory to be wrong.
LEMMA ForgetStep ==
  ASSUME TypeOK, Forget, latest' \in Heights, GoodContent(db'), GoodContent(disk'),
         DiskBehind'
  PROVE  IInv'
<1>1. TypeOK'
  <2>1. db' \in DBType /\ disk' \in DBType BY DEF GoodContent
  <2>2. 0 \in Heights /\ 0 \in 0..(MaxHeight + 1)
    BY ChainAssumption DEF Heights
  <2> QED BY <2>1, <2>2 DEF Forget, TypeOK, Places, Running
<1>2. InStep' BY DEF Forget, InStep, Up
<1> QED BY <1>1, <1>2 DEF IInv

\* Every step of the indexer, and every end of the process, keeps the invariant.
LEMMA StepIInv == IInv /\ [Next]_vars => IInv'
<1> SUFFICES ASSUME IInv, [Next]_vars PROVE IInv' OBVIOUS
<1> USE DEF IInv
<1> DEFINE Kept == GoodContent(db') /\ GoodContent(disk') /\ DiskBehind'
<1>a. db' = db /\ disk' = disk => Kept BY DEF DiskBehind
<1>b. ASSUME disk' = db', GoodContent(db') PROVE DiskBehind'
  <2>1. SameAnswers(disk, db)' BY <1>b DEF SameAnswers
  <2>2. db'.height \in Heights \union {None} BY <1>b DEF GoodContent, DBType
  <2>3. disk'.height <= db'.height
    BY <1>b, <2>2, ChainAssumption DEF Heights, None
  <2> QED BY <2>1, <2>3 DEF DiskBehind
<1>h. /\ Heights \subseteq Int /\ 0 \in Heights
      /\ \A h \in Heights : 0 <= h /\ h <= MaxHeight
      /\ db.height \in Heights \union {None}
      /\ MaxHeight \in Nat
  BY ChainAssumption DEF Heights, GoodContent, DBType
<1>1. CASE NodeGrows
  <2>1. TypeOK' BY <1>1, <1>h DEF NodeGrows, TypeOK, Heights, store, shared, local, life, exit
  <2>2. InStep' BY <1>1 DEF NodeGrows, InStep, Up, store, shared, local, life, exit
  <2> QED BY <1>1, <1>a, <2>1, <2>2 DEF NodeGrows, store
<1>2. ASSUME NEW m \in Modes, NEW toks \in TokenConfigs, Start(m, toks)
      PROVE  IInv'
  <2>1. TypeOK'
    BY <1>2, <1>h, IndexerAssumption
    DEF Start, TypeOK, node, store, local, exit, Places, Running
  <2>2. InStep' BY <1>2 DEF Start, InStep, Up, store
  <2> QED BY <1>2, <1>a, <2>1, <2>2 DEF Start, store
<1>3. CASE Poll
  <2>1. idx = db.height /\ idx \in 0..MaxHeight \union {-1}
    BY <1>3 DEF Poll, InStep, Up, TypeOK, Heights, None
  <2>2. /\ FirstHeight \in 0..(MaxHeight + 1)
        /\ FirstHeight = idx + 1 \/ (FirstHeight = 0 /\ idx \in {0, None})
    BY <1>h, <2>1 DEF FirstHeight, GetHeight, None
  <2>3. TypeOK'
    BY <1>3, <2>2 DEF Poll, TypeOK, node, store, shared, life, exit, Places, Running
  <2>4. InStep' BY <1>3, <2>1, <2>2 DEF Poll, InStep, Up, store, shared
  <2> QED BY <1>3, <1>a, <2>3, <2>4 DEF Poll, store
<1>4. CASE PassEnds \/ FetchBlockFails \/ CommitFails
  <2>1. TypeOK' BY <1>4 DEF PassEnds, FetchBlockFails, CommitFails, TypeOK,
          node, store, shared, local, life, exit, Places, Running
  <2>2. InStep' BY <1>4 DEF PassEnds, FetchBlockFails, CommitFails, InStep, Up,
          store, shared, local
  <2> QED BY <1>4, <1>a, <2>1, <2>2 DEF PassEnds, FetchBlockFails, CommitFails, store
<1>5. CASE Stop
  <2>1. TypeOK' BY <1>5 DEF Stop, TypeOK, node, store, shared, local, life, Places
  <2>2. InStep' BY <1>5 DEF Stop, InStep, Up, store, shared, local
  <2> QED BY <1>5, <1>a, <2>1, <2>2 DEF Stop, store
<1>6. CASE FetchBlock
  <2>1. TypeOK' BY <1>6 DEF FetchBlock, TypeOK, node, store, shared, local, life,
          exit, Places, Running
  <2>2. InStep' BY <1>6 DEF FetchBlock, InStep, Up, store, shared, local
  <2> QED BY <1>6, <1>a, <2>1, <2>2 DEF FetchBlock, store
<1>7. CASE FetchEvents \/ FetchEventsFailsExiting
  <2>1. TypeOK' BY <1>7 DEF FetchEvents, FetchEventsFailsExiting, TypeOK, node,
          store, shared, life, exit, Places, Running
  <2>2. InStep' BY <1>7 DEF FetchEvents, FetchEventsFailsExiting, InStep, Up,
          store, shared
  <2> QED BY <1>7, <1>a, <2>1, <2>2 DEF FetchEvents, FetchEventsFailsExiting, store
<1>8. CASE FetchEventsFatal
  <2>1. TypeOK' BY <1>8 DEF FetchEventsFatal, TypeOK, node, store, shared, local,
          life, Places
  <2>2. InStep' BY <1>8 DEF FetchEventsFatal, InStep, Up, store, shared, local
  <2> QED BY <1>8, <1>a, <2>1, <2>2 DEF FetchEventsFatal, store
<1>9. CASE Commit
  <2>1. /\ height <= target /\ height \in Int /\ target \in Heights
        /\ height \in 0..(MaxHeight + 1) /\ parsed \in SUBSET Contracts
        /\ idx = db.height
        /\ height = idx + 1 \/ (height = 0 /\ idx \in {0, None})
    BY <1>9 DEF Commit, InStep, TypeOK, Up
  <2>2. height \in Heights
    BY <1>h, <2>1 DEF Heights
  <2>3. MayWrite(db, height) BY <2>1 DEF MayWrite
  <2>4. Kept
    <3>1. db' = WriteBlock(db, height, parsed) /\ disk' = disk BY <1>9 DEF Commit
    <3>2. GoodContent(db') BY <2>1, <2>2, <2>3, <3>1, WriteIsGood
    <3>3. SameAnswers(disk, db')
      BY <2>1, <2>2, <2>3, <3>1, <3>2, WriteBlockSameAnswers
      DEF GoodContent, DiskBehind
    <3>4. disk.height <= db'.height
      <4>1. db'.height = height BY <3>1 DEF WriteBlock
      <4>2. disk.height \in 0..MaxHeight \union {-1}
            /\ db.height \in 0..MaxHeight \union {-1}
        BY DEF GoodContent, DBType, Heights, None
      <4> QED BY <1>h, <2>1, <4>1, <4>2 DEF DiskBehind, None
    <3> QED BY <3>1, <3>2, <3>3, <3>4 DEF DiskBehind
  <2>5. db'.height = height BY <1>9 DEF Commit, WriteBlock
  <2>6. TypeOK'
    <3>1. db' \in DBType BY <2>4 DEF GoodContent
    <3> QED BY <1>9, <3>1 DEF Commit, TypeOK, node, shared, local, life, exit,
          Places, Running
  <2>7. idx <= height
    <3>1. idx \in 0..MaxHeight \union {-1} BY DEF TypeOK, Heights, None
    <3> QED BY <1>h, <2>1, <3>1 DEF None
  <2>8. InStep'
    BY <1>9, <2>1, <2>5, <2>7 DEF Commit, InStep, Up, shared, local
  <2> QED BY <2>4, <2>6, <2>8
<1>10. CASE Publish
  <2>1. db.height = height /\ height <= target /\ target \in Heights
    BY <1>10 DEF Publish, InStep, TypeOK
  <2>2. height \in 0..(MaxHeight + 1) BY DEF TypeOK
  <2>3. height \in Heights /\ height + 1 \in 0..(MaxHeight + 1)
    BY <1>h, <2>1, <2>2 DEF Heights
  <2>4. TypeOK' BY <1>10, <2>1, <2>3 DEF Publish, TypeOK, node, store, life, exit,
          Places, Running
  <2>5. InStep' BY <1>10, <2>1 DEF Publish, InStep, Up, store
  <2> QED BY <1>10, <1>a, <2>4, <2>5 DEF Publish, store
<1>11. CASE BeginExit \/ Cancel
  <2>1. TypeOK' BY <1>11 DEF BeginExit, Cancel, TypeOK, node, store, shared, local, life
  <2>2. InStep' BY <1>11 DEF BeginExit, Cancel, InStep, Up, store, shared, local
  <2> QED BY <1>11, <1>a, <2>1, <2>2 DEF BeginExit, Cancel, store
<1>12. CASE CloseAndExit
  <2>1. Forget /\ latest' = latest /\ db' = db /\ disk' = db
    BY <1>12 DEF CloseAndExit, node
  <2> QED BY <1>b, <2>1, ForgetStep DEF TypeOK
<1>13. CASE ValidateAndExit \/ Kill
  <2>1. Forget /\ latest' = latest /\ db' = db /\ disk' = disk
    BY <1>13 DEF ValidateAndExit, Kill, node, store
  <2> QED BY <1>a, <2>1, ForgetStep DEF TypeOK
<1>14. CASE PowerLoss
  <2>1. Forget /\ latest' \in 0..latest /\ db' = disk /\ disk' = disk
    BY <1>14 DEF PowerLoss
  <2>2. latest' \in Heights BY <2>1, <1>h DEF TypeOK, Heights
  <2> QED BY <1>b, <2>1, <2>2, ForgetStep
<1>15. CASE Flush
  <2>1. TypeOK' BY <1>15 DEF Flush, TypeOK, node, shared, local, life, exit
  <2>2. InStep' BY <1>15 DEF Flush, InStep, Up, shared, local
  <2> QED BY <1>15, <1>b, <2>1, <2>2 DEF Flush
<1>16. CASE UNCHANGED vars
  <2>1. TypeOK' BY <1>16 DEF vars, TypeOK
  <2>2. InStep' BY <1>16 DEF vars, InStep, Up
  <2> QED BY <1>16, <1>a, <2>1, <2>2 DEF vars
<1> QED
  BY <1>1, <1>2, <1>3, <1>4, <1>5, <1>6, <1>7, <1>8, <1>9, <1>10, <1>11,
     <1>12, <1>13, <1>14, <1>15, <1>16 DEF Next, Index

\* Every reachable state of the indexer satisfies the inductive invariant.
THEOREM Inductive == Spec => []IInv
<1> QED BY InitIInv, StepIInv, PTL DEF Spec

\* Every variable of the indexer keeps its type; in particular no stored
\* balance is ever negative.
THEOREM TypeCorrect == Spec => []TypeOK
<1>1. IInv => TypeOK BY DEF IInv
<1> QED BY <1>1, Inductive, PTL

\* The balances the store answers are the ledger's, at every indexed height,
\* for every token read since genesis.
THEOREM BalancesCorrect == Spec => []BalancesMatch
<1>1. IInv => BalancesMatch BY DEF IInv, GoodContent, BalancesMatch
<1> QED BY <1>1, Inductive, PTL

\* The lookups by height and by hash are gapless and agree.
THEOREM IndexCorrect == Spec => []IndexContiguous
<1>1. IInv => IndexContiguous BY DEF IInv, GoodContent, IndexContiguous
<1> QED BY <1>1, Inductive, PTL

\* The transactions the nonce check knows are those of the indexed blocks.
THEOREM ConflictsCorrect == Spec => []ConflictsKnown
<1>1. IInv => ConflictsKnown BY DEF IInv, GoodContent, ConflictsKnown
<1> QED BY <1>1, Inductive, PTL

\* A published height can be read, with every height below it.
THEOREM PublishedCorrect == Spec => []PublishedReadable
<1>1. IInv => PublishedReadable
  <2> SUFFICES ASSUME IInv, Up, idx # None
               PROVE  /\ idx <= db.height
                      /\ \A h \in 0..idx : db.hashAt[h] = BlockHash[h]
    BY DEF PublishedReadable
  <2>1. idx \in Heights /\ db.height \in Heights \union {None}
    BY DEF IInv, TypeOK, GoodContent, DBType
  <2>2. idx <= db.height
    BY <2>1, ChainAssumption DEF IInv, InStep, Heights
  <2>3. \A h \in 0..idx : h \in Heights /\ h <= db.height
    BY <2>1, <2>2, ChainAssumption DEF Heights, None
  <2> QED BY <2>2, <2>3 DEF IInv, GoodContent, Contiguous
<1> QED BY <1>1, Inductive, PTL
----------------------------------------------------------------------------
(* What no step does.                                                      *)

\* The published height of a living process never goes back, and the store
\* loses blocks to nothing but a power loss.
THEOREM NeverRegresses == Spec => HeightNeverRegresses
<1> DEFINE Forward == /\ Up /\ pc' # "down" => idx' >= idx
                      /\ db'.height < db.height => pc' = "down" /\ db' = disk
<1>1. IInv /\ [Next]_vars => [Forward]_vars
  <2> SUFFICES ASSUME IInv, Next PROVE Forward
    BY DEF Forward
  <2>h. /\ idx \in Int /\ db.height \in Int /\ db.height >= -1
        /\ height \in Nat
    BY ChainAssumption DEF IInv, TypeOK, DBType, Heights, None
  <2>1. CASE Publish
    <3>1. idx <= height BY <2>1 DEF Publish, IInv, InStep
    <3> QED BY <2>1, <2>h, <3>1 DEF Publish, store, Forward
  <2>2. CASE Commit
    <3>1. db'.height = height /\ idx' = idx BY <2>2 DEF Commit, WriteBlock, shared
    <3>2. idx = db.height /\ (height = idx + 1 \/ (height = 0 /\ idx \in {0, None}))
      BY <2>2 DEF Commit, IInv, InStep, Up
    <3> QED BY <2>h, <3>1, <3>2 DEF Forward, None
  <2>3. CASE \E m \in Modes, toks \in TokenConfigs : Start(m, toks)
    BY <2>3, <2>h DEF Start, Up, store, Forward
  <2>4. CASE CloseAndExit \/ ValidateAndExit \/ Kill \/ PowerLoss
    BY <2>4, <2>h DEF CloseAndExit, ValidateAndExit, Kill, PowerLoss, Forget,
       store, Forward
  <2>5. CASE \/ NodeGrows \/ Poll \/ PassEnds \/ Stop \/ FetchBlock
             \/ FetchBlockFails \/ FetchEvents \/ FetchEventsFatal
             \/ FetchEventsFailsExiting \/ CommitFails \/ BeginExit \/ Cancel
             \/ Flush
    <3>1. db' = db /\ idx' = idx
      BY <2>5 DEF NodeGrows, Poll, PassEnds, Stop, FetchBlock, FetchBlockFails,
         FetchEvents, FetchEventsFatal, FetchEventsFailsExiting, CommitFails,
         BeginExit, Cancel, Flush, store, shared
    <3> QED BY <3>1, <2>h DEF Forward
  <2> QED BY <2>1, <2>2, <2>3, <2>4, <2>5 DEF Next, Index
<1> QED BY <1>1, Inductive, PTL DEF Spec, HeightNeverRegresses

\* A balance once answered for a height is answered for ever.
THEOREM AnswersNeverChange == Spec => AnswersStable
<1>1. IInv /\ [Next]_vars => [SameAnswers(db, db')]_vars
  <2> SUFFICES ASSUME IInv, Next PROVE SameAnswers(db, db')
    OBVIOUS
  <2>a. db' = db => SameAnswers(db, db') BY DEF SameAnswers
  <2>1. CASE Commit
    <3>1. /\ height <= target /\ target \in Heights /\ parsed \in SUBSET Contracts
          /\ height \in 0..(MaxHeight + 1)
          /\ idx = db.height
          /\ height = idx + 1 \/ (height = 0 /\ idx \in {0, None})
      BY <2>1 DEF Commit, IInv, InStep, TypeOK, Up
    <3>2. height \in Heights BY <3>1, ChainAssumption DEF Heights
    <3>3. MayWrite(db, height) BY <3>1 DEF MayWrite
    <3>4. db' = WriteBlock(db, height, parsed) BY <2>1 DEF Commit
    <3>5. GoodContent(db) /\ GoodContent(db')
      BY <3>1, <3>2, <3>3, <3>4, WriteIsGood DEF IInv
    <3>6. db.height <= db.height
      BY <3>5, ChainAssumption DEF GoodContent, DBType, Heights, None
    <3>7. SameAnswers(db, db) BY DEF SameAnswers
    <3> QED BY <3>1, <3>2, <3>3, <3>4, <3>5, <3>6, <3>7, WriteBlockSameAnswers
            DEF GoodContent
  <2>2. CASE PowerLoss
    <3>1. db' = disk /\ SameAnswers(disk, db)
      BY <2>2 DEF PowerLoss, IInv, DiskBehind
    <3> QED BY <3>1 DEF SameAnswers
  <2>3. CASE ~(Commit \/ PowerLoss)
    <3>1. db' = db
      BY <2>3 DEF Next, Index, NodeGrows, Start, Poll, PassEnds, Stop,
         FetchBlock, FetchBlockFails, FetchEvents, FetchEventsFatal,
         FetchEventsFailsExiting, CommitFails, Publish, BeginExit, Cancel,
         CloseAndExit, ValidateAndExit, Kill, Flush, store
    <3> QED BY <3>1, <2>a
  <2> QED BY <2>1, <2>2, <2>3
<1> QED BY <1>1, Inductive, PTL DEF Spec, AnswersStable

----------------------------------------------------------------------------
(* The indexer implements ChainView: its store is a growing prefix of the  *)
(* chain's history of balances, for every chain and all the faults but     *)
(* events that cannot be read once an exit has begun (they may leave out   *)
(* the transfers of a block), with all the tokens configured throughout.   *)

\* Every block held was indexed with all the tokens.
AllTokens(d) == \A h \in Heights : d.blocks[h] \in {NoBlock, Contracts}

AllRead ==
  /\ AllTokens(db) /\ AllTokens(disk)
  /\ Up => tokens = Contracts
  /\ pc = "commit" => parsed = Contracts

\* The first n of the true balances, and the balances a content holds.
TrueFirst(n) == [i \in 1..n |-> Snapshot(i - 1)]
History(d) == [n \in 1..(d.height + 1) |->
                 [k \in Keys |-> BalanceAt(d.acct[k], n - 1)]]
Snapshots == {Snapshot(i) : i \in Nat}
Told == IF Up THEN idx + 1 ELSE 0

----------------------------------------------------------------------------
(* The chain as a sequence.                                                *)

\* The true balances of the first m blocks are a sequence of m snapshots.
LEMMA TrueFirstSeq ==
  ASSUME NEW m \in Nat
  PROVE  /\ TrueFirst(m) \in Seq(Snapshots) /\ Len(TrueFirst(m)) = m
         /\ \A i \in 1..m : TrueFirst(m)[i] = Snapshot(i - 1)
<1>1. TrueFirst(m) \in [1..m -> Snapshots] BY DEF TrueFirst, Snapshots
<1> QED BY <1>1 DEF TrueFirst

\* The true balances of fewer blocks are a prefix of those of more.
LEMMA TrueFirstPrefix ==
  ASSUME NEW m \in Nat, NEW n \in 0..m
  PROVE  SubSeq(TrueFirst(m), 1, n) = TrueFirst(n)
<1>1. SubSeq(TrueFirst(m), 1, n) = [i \in 1..n |-> TrueFirst(m)[i]]
  BY TrueFirstSeq
<1>2. \A i \in 1..n : TrueFirst(m)[i] = Snapshot(i - 1)
  BY TrueFirstSeq
<1> QED BY <1>1, <1>2 DEF TrueFirst

\* One block more appends the snapshot of that block.
LEMMA TrueFirstAppend ==
  ASSUME NEW m \in Nat, NEW n \in Nat, n < m
  PROVE  Append(TrueFirst(n), TrueFirst(m)[n + 1]) = TrueFirst(n + 1)
<1> DEFINE s == Append(TrueFirst(n), Snapshot(n))
<1>1. TrueFirst(m)[n + 1] = Snapshot(n)
  <2>1. n + 1 \in 1..m /\ (n + 1) - 1 = n OBVIOUS
  <2>2. TrueFirst(m)[n + 1] = Snapshot((n + 1) - 1) BY <2>1 DEF TrueFirst
  <2> QED BY <2>1, <2>2
<1>2. TrueFirst(n) \in Seq(Snapshots) /\ Len(TrueFirst(n)) = n
  BY TrueFirstSeq
<1>3. /\ s \in Seq(Snapshots) /\ Len(s) = n + 1
      /\ \A i \in 1..n : s[i] = TrueFirst(n)[i]
      /\ s[n + 1] = Snapshot(n)
  <2>1. Snapshot(n) \in Snapshots BY DEF Snapshots
  <2> QED BY <1>2, <2>1, AppendProperties
<1>4. \A i \in 1..(n + 1) : s[i] = TrueFirst(n + 1)[i]
  BY <1>3, TrueFirstSeq DEF TrueFirst
<1>5. TrueFirst(n + 1) \in Seq(Snapshots) /\ Len(TrueFirst(n + 1)) = n + 1
  BY TrueFirstSeq
<1> HIDE DEF s
<1>6. s = TrueFirst(n + 1)
  BY <1>3, <1>4, <1>5, SeqEqual
<1> QED BY <1>1, <1>6 DEF s

----------------------------------------------------------------------------
(* What the store holds are the true balances.                             *)

\* A store that indexed every token holds the chain's true balances up to its
\* height: that is what GetBalance reads (store.go).
LEMMA HistoryIsTrue ==
  ASSUME NEW d, GoodContent(d), AllTokens(d)
  PROVE  History(d) = TrueFirst(d.height + 1) /\ d.height + 1 \in 0..(MaxHeight + 1)
<1>1. d.height \in Heights \union {None} BY DEF GoodContent, DBType
<1>2. d.height + 1 \in 0..(MaxHeight + 1)
  BY <1>1, ChainAssumption DEF Heights, None
<1>3. ASSUME NEW n \in 1..(d.height + 1), NEW k \in Keys
      PROVE  BalanceAt(d.acct[k], n - 1) = OnChain[k][n - 1]
  <2>1. n - 1 \in Heights /\ n - 1 <= d.height
    BY <1>1, ChainAssumption DEF Heights, None
  <2>2. \A i \in 0..(n - 1) : i \in Heights /\ i <= d.height
    BY <1>1, <2>1, ChainAssumption DEF Heights, None
  <2>3. k[2] \in Contracts BY DEF Keys
  <2>4. TrackedSince(d, k[2], n - 1)
    BY <2>2, <2>3 DEF TrackedSince, GoodContent, Contiguous, AllTokens
  <2> QED BY <2>1, <2>4 DEF GoodContent, Matches
<1>4. \A n \in 1..(d.height + 1) :
        [k \in Keys |-> BalanceAt(d.acct[k], n - 1)] = Snapshot(n - 1)
  BY <1>3 DEF Snapshot
<1> QED BY <1>2, <1>4 DEF History, TrueFirst

----------------------------------------------------------------------------
(* Which events a block is stored with.                                    *)

\* What was read of the block that is about to be committed: the events of
\* the tokens configured or, when log.Fatalf has returned, none.
Parsed ==
  pc = "commit" => \/ parsed = tokens
                   \/ parsed = {} /\ exiting /\ "lateEvents" \in Faults

\* The tokens a content was indexed with were configured at the time.
AsConfigured(d) == \A h \in Heights : d.blocks[h] # NoBlock => d.blocks[h] \in TokenConfigs

Configured == AsConfigured(db) /\ AsConfigured(disk) /\ (Up => tokens \in TokenConfigs)

\* No step but the failure of a late read comes to a commit without the
\* events of the tokens configured.
LEMMA ParsedStep == Parsed /\ [Next]_vars => Parsed'
<1> SUFFICES ASSUME Parsed, [Next]_vars PROVE Parsed' OBVIOUS
<1>1. CASE FetchEvents BY <1>1 DEF FetchEvents, life, Parsed
<1>2. CASE FetchEventsFailsExiting
  BY <1>2 DEF FetchEventsFailsExiting, exit, Parsed
<1>3. CASE NodeGrows \/ BeginExit \/ Cancel \/ Flush \/ UNCHANGED vars
  <2>1. /\ pc' = pc /\ parsed' = parsed /\ tokens' = tokens
        /\ exiting => exiting'
    BY <1>3 DEF NodeGrows, BeginExit, Cancel, Flush, local, life, exit, vars
  <2> QED BY <2>1 DEF Parsed
<1>4. CASE \/ \E m \in Modes, toks \in TokenConfigs : Start(m, toks)
           \/ Poll \/ PassEnds \/ Stop \/ FetchBlock \/ FetchBlockFails
           \/ FetchEventsFatal \/ Commit \/ CommitFails \/ Publish
           \/ CloseAndExit \/ ValidateAndExit \/ Kill \/ PowerLoss
  <2>1. pc' # "commit"
    BY <1>4 DEF Start, Poll, PassEnds, Stop, FetchBlock, FetchBlockFails,
       FetchEventsFatal, Commit, CommitFails, Publish, CloseAndExit,
       ValidateAndExit, Kill, PowerLoss, Forget
  <2> QED BY <2>1 DEF Parsed
<1> QED BY <1>1, <1>2, <1>3, <1>4 DEF Next, Index

\* Before anything is stored there is nothing to be found wanting.
LEMMA ConfiguredInit == Init => Parsed /\ Configured
BY DEF Init, Parsed, Configured, AsConfigured, EmptyDB, Up

\* A commit adds a block read as configured, and what else the store holds
\* was there, or on the disk, before.
LEMMA ConfiguredStep ==
  ASSUME "lateEvents" \notin Faults, IInv, Parsed, Configured, [Next]_vars
  PROVE  Configured'
<1> USE DEF Configured
<1>1. CASE Commit
  <2>1. /\ db' = WriteBlock(db, height, parsed) /\ disk' = disk
        /\ parsed = tokens /\ tokens \in TokenConfigs /\ tokens' = tokens
    BY <1>1 DEF Commit, life, Parsed, Up
  <2>2. db.blocks \in [Heights -> {NoBlock} \union SUBSET Contracts]
    BY DEF IInv, TypeOK, DBType
  <2>3. db'.blocks = [db.blocks EXCEPT ![height] = parsed]
    BY <2>1 DEF WriteBlock
  <2>4. AsConfigured(db') BY <2>1, <2>2, <2>3 DEF AsConfigured
  <2> QED BY <2>1, <2>4 DEF AsConfigured
<1>2. ASSUME NEW m \in Modes, NEW toks \in TokenConfigs, Start(m, toks)
      PROVE  Configured'
  BY <1>2 DEF Start, store, AsConfigured
<1>3. CASE CloseAndExit \/ ValidateAndExit \/ Kill \/ PowerLoss
  <2>1. /\ pc' = "down"
        /\ (db' = db /\ disk' = disk) \/ (db' = db /\ disk' = db) \/ (db' = disk /\ disk' = disk)
    BY <1>3 DEF CloseAndExit, ValidateAndExit, Kill, PowerLoss, Forget, store
  <2> QED BY <2>1 DEF AsConfigured, Up
<1>4. CASE \/ NodeGrows \/ Poll \/ PassEnds \/ Stop \/ FetchBlock
           \/ FetchBlockFails \/ FetchEvents \/ FetchEventsFatal
           \/ FetchEventsFailsExiting \/ CommitFails \/ Publish
           \/ BeginExit \/ Cancel \/ Flush \/ UNCHANGED vars
  <2>1. /\ db' = db /\ disk' \in {db, disk} /\ tokens' = tokens /\ (Up' => Up)
    BY <1>4 DEF NodeGrows, Poll, PassEnds, Stop, FetchBlock, FetchBlockFails, FetchEvents,
       FetchEventsFatal, FetchEventsFailsExiting, CommitFails, Publish, BeginExit,
       Cancel, Flush, store, local, life, vars, Up
  <2> QED BY <2>1 DEF AsConfigured
<1> QED BY <1>1, <1>2, <1>3, <1>4 DEF Next, Index

\* Whatever fails, a block is stored with the events of all the tokens
\* configured or, in a process that is exiting and whose log.Fatalf returns,
\* with none: never with some of them (store.go 141-262, process.go 21-36).
THEOREM AllEventsOrNone ==
  Spec => [][Commit => \/ parsed = tokens
                       \/ parsed = {} /\ exiting /\ "lateEvents" \in Faults]_vars
<1>1. Init => Parsed BY ConfiguredInit
<1>2. Parsed /\ [Next]_vars =>
        [Commit => \/ parsed = tokens
                   \/ parsed = {} /\ exiting /\ "lateEvents" \in Faults]_vars
  BY DEF Parsed, Commit
<1> QED BY <1>1, <1>2, ParsedStep, PTL DEF Spec

\* Unless events cannot be read once an exit has begun, every block the store
\* holds was read for the tokens some process was configured with, through
\* any retries, crashes and restarts (store.go 141-262).
THEOREM EventsAlwaysRead ==
  ASSUME "lateEvents" \notin Faults
  PROVE  Spec => []NoBlockWithoutEvents
<1>1. Init => Parsed /\ Configured BY ConfiguredInit
<1>2. IInv /\ Parsed /\ Configured /\ [Next]_vars => Configured'
  BY ConfiguredStep
<1>3. Configured => NoBlockWithoutEvents
  BY DEF Configured, AsConfigured, NoBlockWithoutEvents
<1> QED BY <1>1, <1>2, <1>3, ParsedStep, Inductive, PTL DEF Spec

\* With one token configuration and no late events, every block that is stored
\* was read for the events of all the tokens.
LEMMA AllAreRead ==
  ASSUME TokenConfigs \subseteq {Contracts}, "lateEvents" \notin Faults,
         Parsed, Configured
  PROVE  AllRead
BY DEF Parsed, Configured, AsConfigured, AllRead, AllTokens, Up

----------------------------------------------------------------------------
(* Each step of the indexer is one of the view, or none.                   *)

\* Each step of the indexer is one of the view, or none: a commit appends a
\* block, a restart and a publication change what is told of.
LEMMA ViewStep ==
  ASSUME IInv, AllRead, IInv', AllRead', [Next]_vars
  PROVE  [View!Next]_(View!viewVars)
<1> DEFINE Chain == TrueFirst(MaxHeight + 1)
           n == db.height + 1
<1>1. /\ History(db) = TrueFirst(n) /\ n \in 0..(MaxHeight + 1)
      /\ History(db') = TrueFirst(n') /\ n' \in 0..(MaxHeight + 1)
      /\ MaxHeight + 1 \in Nat /\ n \in Nat /\ n' \in Nat
  <2>1. History(db) = TrueFirst(n) /\ n \in 0..(MaxHeight + 1)
    BY HistoryIsTrue DEF IInv, AllRead
  <2>2. History(db') = TrueFirst(n') /\ n' \in 0..(MaxHeight + 1)
    BY HistoryIsTrue DEF IInv, AllRead
  <2> QED BY <2>1, <2>2, ChainAssumption
<1>2. /\ Len(History(db)) = n /\ Len(Chain) = MaxHeight + 1
      /\ Len(History(db')) = n'
  BY <1>1, TrueFirstSeq
<1>3. ASSUME n' = n + 1, Told' = Told
      PROVE  View!Record
  <2>1. n < MaxHeight + 1 BY <1>1, <1>3
  <2>2. History(db') = Append(History(db), Chain[n + 1])
    BY <1>1, <1>3, <2>1, TrueFirstAppend
  <2> QED BY <1>2, <1>3, <2>1, <2>2 DEF View!Record, Chain, TrueFirst, History, Told
<1>4. ASSUME n' = n, Told' = n
      PROVE  View!Tell
  <2>1. History(db') = History(db) BY <1>1, <1>4
  <2> QED BY <1>2, <1>4, <2>1 DEF View!Tell, History, Told
<1>5. ASSUME n' = n, Told' = Told
      PROVE  UNCHANGED View!viewVars
  <2>1. History(db') = History(db) BY <1>1, <1>5
  <2> QED BY <1>5, <2>1 DEF View!viewVars, History, Told
<1>6. ASSUME n' <= n, Told' = 0
      PROVE  View!GoDown
  <2>1. n' \in 0..n BY <1>1, <1>6
  <2>2. History(db') = SubSeq(History(db), 1, n')
    BY <1>1, <2>1, TrueFirstPrefix
  <2> QED BY <1>2, <1>6, <2>1, <2>2 DEF View!GoDown, History, Told
<1>7. /\ db.height \in Int /\ idx \in Int /\ db'.height \in Int
      /\ height \in Nat /\ db.height >= -1
      /\ (pc = "down" => Told = 0)
  BY ChainAssumption DEF IInv, TypeOK, DBType, Heights, None, Told, Up
<1>8. CASE Commit
  <2>1. db'.height = height /\ Up /\ Up' /\ idx' = idx
    BY <1>8 DEF Commit, WriteBlock, shared, Up
  <2>2. idx = db.height /\ (height = idx + 1 \/ (height = 0 /\ idx \in {0, None}))
    BY <1>8 DEF Commit, IInv, InStep, Up
  <2>3. n' = n + 1 \/ n' = n
    BY <1>7, <2>1, <2>2 DEF None
  <2>4. Told' = Told BY <2>1 DEF Told
  <2> QED BY <1>3, <1>5, <2>3, <2>4 DEF View!Next
<1>9. CASE Publish
  <2>1. db' = db /\ idx' = height /\ db.height = height /\ Up'
    BY <1>9 DEF Publish, store, IInv, InStep, Up
  <2>2. n' = n /\ Told' = n BY <2>1 DEF Told
  <2> QED BY <1>4, <2>2 DEF View!Next
<1>10. CASE \E m \in Modes, toks \in TokenConfigs : Start(m, toks)
  <2>1. db' = db /\ idx' = db.height /\ Up' BY <1>10 DEF Start, store, Up
  <2>2. n' = n /\ Told' = n BY <2>1 DEF Told
  <2> QED BY <1>4, <2>2 DEF View!Next
<1>11. CASE CloseAndExit \/ ValidateAndExit \/ Kill \/ PowerLoss
  <2>1. pc' = "down" /\ (db' = db \/ db' = disk)
    BY <1>11 DEF CloseAndExit, ValidateAndExit, Kill, PowerLoss, Forget, store
  <2>2. Told' = 0 BY <2>1 DEF Told, Up
  <2>3. disk.height <= db.height /\ db.height <= db.height
    BY <1>7 DEF IInv, DiskBehind
  <2>4. n' <= n
    <3>1. disk.height \in Int
      BY ChainAssumption DEF IInv, TypeOK, DBType, Heights, None
    <3> QED BY <1>7, <2>1, <2>3, <3>1
  <2> QED BY <1>6, <2>2, <2>4 DEF View!Next
<1>12. CASE \/ NodeGrows \/ Poll \/ PassEnds \/ Stop \/ FetchBlock
            \/ FetchBlockFails \/ FetchEvents \/ FetchEventsFatal
            \/ FetchEventsFailsExiting \/ CommitFails \/ BeginExit \/ Cancel
            \/ Flush \/ UNCHANGED vars
  <2>1. db' = db /\ idx' = idx /\ Up' = Up
    BY <1>12 DEF NodeGrows, Poll, PassEnds, Stop, FetchBlock, FetchBlockFails,
       FetchEvents, FetchEventsFatal, FetchEventsFailsExiting, CommitFails,
       BeginExit, Cancel, Flush, store, shared, vars, Up
  <2>2. n' = n /\ Told' = Told BY <2>1 DEF Told
  <2> QED BY <1>5, <2>2
<1> QED
  BY <1>8, <1>9, <1>10, <1>11, <1>12 DEF Next, Index

\* An empty store, with nothing published, is where the view begins.
LEMMA ViewInit == Init => View!Init
<1> SUFFICES ASSUME Init PROVE View!Init OBVIOUS
<1>1. db = EmptyDB /\ disk = EmptyDB /\ pc = "down" BY DEF Init
<1>2. db.height + 1 = 0 BY <1>1 DEF EmptyDB, None
<1>3. History(db) = <<>>
  <2>1. 1..0 = {} OBVIOUS
  <2> QED BY <1>2, <2>1 DEF History
<1>4. Told = 0 BY <1>1 DEF Told, Up
<1> QED BY <1>3, <1>4 DEF View!Init, History, Told

\* The store the indexer keeps is at every moment a prefix of the chain's true
\* balances, it grows block by block, and what readers are told of is in it.
THEOREM Implements ==
  ASSUME TokenConfigs \subseteq {Contracts}, "lateEvents" \notin Faults
  PROVE  Spec => ImplementsView
<1>1. Init => Parsed /\ Configured BY ConfiguredInit
<1>2. IInv /\ Parsed /\ Configured /\ [Next]_vars => Configured'
  BY ConfiguredStep
<1>3. Parsed /\ Configured => AllRead BY AllAreRead
<1>4. IInv /\ AllRead /\ IInv' /\ AllRead' /\ [Next]_vars
        => [View!Next]_(View!viewVars)
  BY ViewStep
<1> QED
  BY <1>1, <1>2, <1>3, <1>4, ParsedStep, ViewInit, Inductive, PTL
  DEF Spec, ImplementsView, View!Spec

----------------------------------------------------------------------------
(* What --validate-store finds.                                            *)

\* An empty store has nothing above its height.
LEMMA InitVInv == Init => VInv
<1> SUFFICES ASSUME Init PROVE VInv OBVIOUS
<1>1. NothingAbove(db) /\ NothingAbove(disk)
  BY DEF Init, NothingAbove, EmptyDB
<1>2. ~Validating BY DEF Init, Validating
<1> QED BY <1>1, <1>2, InitIInv DEF VInv

\* A block written at or above the height indexed leaves nothing above it.
LEMMA WriteNothingAbove ==
  ASSUME NEW d, NothingAbove(d), d \in DBType, NEW h \in Heights, d.height <= h,
         NEW T \in SUBSET Contracts
  PROVE  NothingAbove(WriteBlock(d, h, T))
<1> SUFFICES ASSUME NEW k \in Keys, NEW i \in Heights,
                    WriteBlock(d, h, T).acct[k][i] # None
             PROVE  i <= WriteBlock(d, h, T).height
  BY DEF NothingAbove
<1>h. /\ h \in Int /\ i \in Int /\ d.height \in Int
      /\ d.acct[k] \in [Heights -> Nat \union {None}]
  BY ChainAssumption DEF DBType, Heights, None
<1>1. WriteBlock(d, h, T).height = h BY DEF WriteBlock
<1>2. CASE i = h BY <1>1, <1>2, <1>h
<1>3. CASE i # h
  <2>1. WriteAccounts(d.acct, h, T)[k][i] = d.acct[k][i]
    BY <1>h, <1>3 DEF WriteAccounts
  <2>2. d.acct[k][i] # None BY <2>1 DEF WriteBlock
  <2>3. i <= d.height BY <2>2 DEF NothingAbove
  <2> QED BY <1>1, <1>h, <2>3
<1> QED BY <1>2, <1>3

\* Every step of the validation, or of the indexer beside it, keeps the invariant.
LEMMA StepVInv == VInv /\ [Next]_vars => VInv'
<1> SUFFICES ASSUME VInv, [Next]_vars PROVE VInv' OBVIOUS
<1>0. IInv /\ IInv' BY StepIInv DEF VInv
<1>h. /\ latest \in Heights /\ Heights \subseteq Nat
      /\ idx \in Heights \union {None} /\ None = -1
      /\ db \in DBType
  BY <1>0, ChainAssumption DEF IInv, TypeOK, Heights, None
<1>1. NothingAbove(db)' /\ NothingAbove(disk)'
  <2>1. CASE Commit
    <3>1. /\ height <= target /\ target \in Heights /\ parsed \in SUBSET Contracts
          /\ height \in 0..(MaxHeight + 1)
          /\ idx = db.height
          /\ height = idx + 1 \/ (height = 0 /\ idx \in {0, None})
      BY <1>0, <2>1 DEF Commit, IInv, InStep, TypeOK, Up
    <3>2. height \in Heights BY <3>1, ChainAssumption DEF Heights
    <3>3. db.height <= height
      <4>1. height \in Int /\ 0 <= height /\ idx \in Int BY <1>h, <3>2
      <4> QED BY <3>1, <4>1 DEF None
    <3>4. NothingAbove(WriteBlock(db, height, parsed))
      BY <1>h, <3>1, <3>2, <3>3, WriteNothingAbove DEF VInv
    <3>5. db' = WriteBlock(db, height, parsed) /\ disk' = disk BY <2>1 DEF Commit
    <3> QED BY <3>4, <3>5 DEF VInv, NothingAbove
  <2>2. CASE ~Commit
    <3>1. db' \in {db, disk} /\ disk' \in {db, disk}
      BY <2>2 DEF Next, Index, NodeGrows, Start, Poll, PassEnds, Stop,
         FetchBlock, FetchBlockFails, FetchEvents, FetchEventsFatal,
         FetchEventsFailsExiting, CommitFails, Publish, BeginExit, Cancel,
         CloseAndExit, ValidateAndExit, Kill, PowerLoss, Flush, store, vars
    <3> QED BY <3>1 DEF VInv, NothingAbove
  <2> QED BY <2>1, <2>2
<1>2. (Validating => mode = "validate" /\ GetHeight = latest /\ idx # None)'
  <2>1. CASE Poll
    <3>1. idx' = idx /\ latest' = latest /\ mode' = mode
      BY <2>1 DEF Poll, shared, node, life
    <3>2. pc' = "finished" => mode = "validate" /\ FirstHeight = latest + 1
      BY <2>1 DEF Poll
    <3>3. FirstHeight = latest + 1 => GetHeight = latest /\ idx # None
      BY <1>h DEF FirstHeight, GetHeight
    <3> QED BY <3>1, <3>2, <3>3 DEF Validating, GetHeight
  <2>2. CASE pc' = "finished" /\ ~Poll
    <3>1. pc = "finished" /\ idx' = idx /\ latest' = latest /\ mode' = mode
      BY <2>2 DEF VInv, Validating, Next, Index, NodeGrows, Start, PassEnds, Stop,
         FetchBlock, FetchBlockFails, FetchEvents, FetchEventsFatal,
         FetchEventsFailsExiting, Commit, CommitFails, Publish, BeginExit, Cancel,
         CloseAndExit, ValidateAndExit, Kill, PowerLoss, Flush, Forget, vars,
         node, store, shared, local, life, exit
    <3> QED BY <3>1 DEF VInv, Validating, GetHeight
  <2> QED BY <2>1, <2>2 DEF Validating
<1> QED BY <1>0, <1>1, <1>2 DEF VInv

\* What is stored below the ledger's height, and that validation begins only
\* when there is nothing else.
THEOREM InductiveV == Spec => []VInv
<1> QED BY InitVInv, StepVInv, PTL DEF Spec

\* The newest entry of all is the balance at the height indexed.
LEMMA NewestIsBalance ==
  ASSUME NothingAbove(db), db \in DBType, db.height \in Heights, NEW k \in Keys
  PROVE  NewestStored(k) = BalanceAt(db.acct[k], db.height)
<1>1. Entries(db.acct[k], MaxHeight) = Entries(db.acct[k], db.height)
  BY ChainAssumption DEF NothingAbove, Entries, Heights
<1> QED BY <1>1 DEF NewestStored, BalanceAt

\* A store that tracked its tokens from genesis on is found valid, and warned
\* of at most when only the native ones were (Store.Validate).
THEOREM SoundIsValid == Spec => []SoundStoreIsValid
<1>1. VInv => SoundStoreIsValid
  <2> SUFFICES ASSUME VInv, Validating
               PROVE  /\ (\A c \in Contracts : TrackedSince(db, c, db.height))
                           => Verdict = "valid"
                      /\ (\A c \in Native : TrackedSince(db, c, db.height))
                           => Verdict \in {"valid", "warned"}
    BY DEF SoundStoreIsValid
  <2>1. db.height = latest /\ latest \in Heights /\ GetHeight = latest
    BY DEF VInv, IInv, InStep, TypeOK, Validating, Up, GetHeight
  <2>2. ASSUME NEW k \in Keys, TrackedSince(db, k[2], db.height)
        PROVE  k \notin Wrong
    <3>1. BalanceAt(db.acct[k], db.height) = OnChain[k][db.height]
      <4>1. db.height <= db.height BY <2>1, ChainAssumption DEF Heights
      <4> QED BY <2>1, <2>2, <4>1 DEF VInv, IInv, GoodContent, Matches
    <3>2. NewestStored(k) = BalanceAt(db.acct[k], db.height)
      BY <2>1, NewestIsBalance DEF VInv, IInv, GoodContent
    <3> QED BY <2>1, <3>1, <3>2 DEF Wrong, BalanceOf
  <2>3. \A k \in Wrong : k \in Keys /\ k[2] \in Contracts
    BY DEF Wrong, FoundKeys, Keys
  <2> QED BY <2>1, <2>2, <2>3 DEF Verdict
<1> QED BY <1>1, InductiveV, PTL
=============================================================================
