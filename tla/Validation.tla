----------------------------- MODULE Validation -----------------------------
(***************************************************************************)
(* --validate-store (main.go 391-401): IndexBlocks with ExitEarly until    *)
(* the store is level with the ledger, then Store.Validate (store.go       *)
(* 270-380), then the end of the process.                                  *)
(*                                                                         *)
(* Validate changes nothing and nothing runs beside it, for the node makes *)
(* no blocks in this mode: what it finds is a function of the state in     *)
(* which IndexBlocks returns.                                              *)
(***************************************************************************)
EXTENDS Indexer

CONSTANT Native       \* the contracts whose addresses are compressed

ASSUME ValidationAssumption == Native \subseteq Contracts

\* The keys the scan finds: those with an entry.
FoundKeys == {k \in Keys : Entries(db.acct[k], MaxHeight) # {}}

\* slip: the oldest entry of a key is compared
NewestStored_Oldest(k) == db.acct[k][Min(Entries(db.acct[k], MaxHeight))]

\* The newest entry of a key, at whatever height (BalanceKeys says how the
\* scan comes by it).
NewestStored(k) == Newest(db.acct[k], Entries(db.acct[k], MaxHeight))

\* What the contract's balanceOf answers, executed on the ledger as it is now
\* (NativeBalanceOf asks balanceOfV2, with the decimals the store counts in).
\* A call that fails ends the process, like a mismatch of a native token.
BalanceOf(k) == OnChain[k][latest]

\* Keys whose newest entry is not the balance.
Wrong == {k \in FoundKeys : NewestStored(k) # BalanceOf(k)}

\* How Validate ends: both kinds of log.Fatalf, with a mismatch of an OEP4
\* token only warned of.
Verdict ==
  IF GetHeight # latest THEN "wrong height"
  ELSE IF \E k \in Wrong : k[2] \in Native THEN "wrong balance"
  ELSE IF Wrong # {} THEN "warned"
  ELSE "valid"

----------------------------------------------------------------------------
(* Properties.                                                             *)

Validating == pc = "finished"

\* A store that tracked its tokens in every block is found valid, whatever
\* happened to it before: IndexBlocks has brought it level with the ledger, and
\* the newest entry of a key is its balance now.  With only the native tokens
\* tracked all along, it is at most warned of (store.go 115-117 and 270-380).
SoundStoreIsValid ==
  Validating =>
    /\ (\A c \in Contracts : TrackedSince(db, c, db.height)) => Verdict = "valid"
    /\ (\A c \in Native : TrackedSince(db, c, db.height))
         => Verdict \in {"valid", "warned"}

\* No balance entry lies above the height indexed.
NothingAbove(d) == \A k \in Keys, h \in Heights : d.acct[k][h] # None => h <= d.height

\* Why a sound store is found valid: the newest entry of all is the newest at
\* the height indexed, and a validating process stops at the ledger's height,
\* which then stands still (store.go 110-117).
VInv ==
  /\ IInv
  /\ NothingAbove(db) /\ NothingAbove(disk)
  /\ Validating => mode = "validate" /\ GetHeight = latest /\ idx # None

\* A validation comes to its end, given a ledger that has more than its genesis
\* block and is not behind the store; with genesis alone the next height stays
\* zero, and it polls for ever (store.go 110-117).
ValidationEnds ==
  (mode = "validate" /\ Up /\ latest > 0 /\ db.height <= latest) ~> ~Up
=============================================================================
