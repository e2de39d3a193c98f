---------------------------- MODULE BalanceKeys ----------------------------
(***************************************************************************)
(* The keys of balance entries, a<account><contract><height>, as badger    *)
(* sorts them (services/store.go 225-243 and 837-858), and the three ways  *)
(* they are searched: the seek of getBalance, the seek of setBlock, and    *)
(* the scan of Validate for the newest entry of every account.  StoreDB    *)
(* speaks of heights as numbers; here they are the bytes of Lexinum.       *)
(***************************************************************************)
EXTENDS Lexinum, FiniteSets

CONSTANTS
  Accounts,     \* addresses, a tuple of bytes, or one of the next four
  Contracts,
  ongAddr, ontAddr, govAddr, nullAddr,
  AddrLen,      \* 20, the bytes of an address: more than a native one takes
  Window,       \* the heights at which balances change
  MaxEntries    \* bound on the entries written

ASSUME KeysAssumption ==
  /\ IsFiniteSet(Accounts) /\ IsFiniteSet(Contracts)
  /\ AddrLen \in Nat /\ AddrLen > 1 /\ Byte >= 7
  /\ \A a \in (Accounts \union Contracts) \ {ongAddr, ontAddr, govAddr, nullAddr} :
       a \in [1..AddrLen -> 0..Byte]
  /\ Window \subseteq U32

VARIABLES
  written,      \* the heights each account and contract has an entry at
  tip           \* the height indexed last, -1 for none

vars == <<written, tip>>

\* slip: native addresses keep their bytes and nothing tells the lengths apart
addr2slice_NoTag(a) ==
  CASE a = ongAddr -> <<2>> [] a = ontAddr -> <<1>>
    [] a = govAddr -> <<7>> [] a = nullAddr -> <<0>>
    [] OTHER -> a

\* Native addresses are compressed to two bytes, the first byte tells.
addr2slice(a) ==
  IF a = ongAddr THEN <<1, 2>>
  ELSE IF a = ontAddr THEN <<1, 1>>
  ELSE IF a = govAddr THEN <<1, 7>>
  ELSE IF a = nullAddr THEN <<1, 0>>
  ELSE <<0>> \o a

\* accountKeyPrefix, without its first byte, common to all.
Prefix(k) == addr2slice(k[1]) \o addr2slice(k[2])

Key(k, h) == Prefix(k) \o EncodeHeight(h)

Holders == Accounts \X Contracts
Stored == UNION {{Key(k, h) : h \in written[k]} : k \in Holders}

Entries == Cardinality({e \in Holders \X Window : e[2] \in written[e[1]]})

Init ==
  /\ written = [k \in Holders |-> {}]
  /\ tip = -1

\* slip: a pass may begin below the last block
Index_AnyOrder(h, moved) ==
  /\ tip' = h
  /\ written' = [k \in Holders |-> IF k \in moved THEN written[k] \union {h}
                                                  ELSE written[k]]
  /\ Entries' <= MaxEntries

\* A block is indexed, after those below it or, genesis, once more.
Index(h, moved) ==
  /\ h > tip \/ (h = 0 /\ tip = 0)
  /\ tip' = h
  /\ written' = [k \in Holders |-> IF k \in moved THEN written[k] \union {h}
                                                  ELSE written[k]]
  /\ Entries' <= MaxEntries

Next == \E h \in Window, moved \in SUBSET Holders : Index(h, moved)

Spec == Init /\ [][Next]_vars

----------------------------------------------------------------------------
(* Searching.  A reverse iterator stands at the greatest key not above the *)
(* one sought; ValidForPrefix says whether it still has the prefix.        *)

NoKey == <<>>
Greatest(keys) ==
  IF keys = {} THEN NoKey
  ELSE CHOOSE x \in keys : \A y \in keys : AtMost(y, x)

ValidForPrefix(key, prefix) == IF key # NoKey /\ IsPrefix(prefix, key) THEN key ELSE NoKey

\* getBalance: it.Seek and it.ValidForPrefix.
Seek(k, h) ==
  ValidForPrefix(Greatest({x \in Stored : AtMost(x, Key(k, h))}), Prefix(k))

\* setBlock: an entry of the very key is stepped over by it.Next.
SeekPrev(k, h) ==
  LET x == Seek(k, h) IN
  IF x # Key(k, h) THEN x
  ELSE ValidForPrefix(Greatest({y \in Stored : Less(y, x)}), Prefix(k))

\* The address a part of a key stands for; two bytes with any other second
\* one, at which the code panics, are never written.
decompressAddr(xs) ==
  IF Len(xs) # 2 THEN Tail(xs)
  ELSE IF xs[2] = 2 THEN ongAddr
  ELSE IF xs[2] = 1 THEN ontAddr
  ELSE IF xs[2] = 7 THEN govAddr
  ELSE nullAddr

\* Where the account of a key ends, told by its first byte, and the contract
\* after it.
PartLen(first) == IF first = 1 THEN 2 ELSE AddrLen + 1
Start(key) == PartLen(key[1])
End(key) == Start(key) + PartLen(key[Start(key) + 1])
Ident(key) == SubSeq(key, 1, End(key))

\* slip: the scan runs forwards
Scan_Forwards(keys) ==
  {x \in keys : \A y \in keys : Ident(y) = Ident(x) => AtMost(x, y)}

\* Validate scans backwards and keeps a key when its identity is not that of
\* the one before.
Scan(keys) ==
  {x \in keys : LET above == {y \in keys : Less(x, y)} IN
                above = {} \/ \E y \in above : /\ \A z \in above : AtMost(y, z)
                                              /\ Ident(y) # Ident(x)}

\* What is compared with the ledger: an account, a contract, the entry's key.
Compared ==
  { [ acct     |-> decompressAddr(SubSeq(x, 1, Start(x))),
      contract |-> decompressAddr(SubSeq(x, Start(x) + 1, End(x))),
      key      |-> x ] : x \in Scan(Stored) }

----------------------------------------------------------------------------
(* Properties.                                                             *)

TypeOK ==
  /\ written \in [Holders -> SUBSET Window]
  /\ tip \in Window \union {-1}
  /\ \A k \in Holders : \A h \in written[k] : h <= tip

Newest(k, hs) == IF hs = {} THEN NoKey ELSE Key(k, Max(hs))

\* The seek of getBalance finds the newest entry of the account and contract
\* at or below the height, never one of another's or of a later block,
\* whichever formats the heights have, and that of setBlock the newest one
\* strictly below it, also when the block is indexed again: Entries and Newest
\* of StoreDB (store.go 426-456 and 638-665, lexinum.go 47-94).
SeekIsNewest ==
  \A k \in Holders, h \in Window :
    /\ Seek(k, h) = Newest(k, {i \in written[k] : i <= h})
    /\ SeekPrev(k, h) = Newest(k, {i \in written[k] : i < h})

\* Validate compares every account and contract with an entry once, by its
\* newest entry, and asks the ledger for the balance of that very account and
\* contract (store.go 279-341 and 1188-1211).
ScanFindsNewest ==
  Compared = { [acct |-> k[1], contract |-> k[2], key |-> Newest(k, written[k])] :
               k \in {k \in Holders : written[k] # {}} }
=============================================================================
