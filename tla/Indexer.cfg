SPECIFICATION Spec
CONSTANTS
  alice = alice
  bob = bob
  TOK = TOK
  g0 = g0
  g1 = g1
  g2 = g2
  t0 = t0
  t1 = t1
  t2 = t2
  t3 = t3
  ONG = ONG
  ONT = ONT
  govAddr = gov
  nullAddr = null
  GWei = 10
  Word = 1000
  MaxHeight <- MCHeight
  Accounts <- MCAccounts
  Contracts <- MCContracts
  Hashes = {g0, g1, g2}
  ZeroHash = zero
  NoBlock = absent
  BlockHash <- MCHash
  TxnHashes = {t0, t1, t2, t3}
  TxnsOf <- MCTxnsOf
  Touched <- MCTouched
  Diff <- MCDiff
  OnChain <- MCOnChain
  TokenConfigs = {{ONG, ONT}, {ONG, ONT, TOK}}
  Modes = {"serve", "validate"}
  Native = {ONG, ONT}
  Faults = {"block", "events", "lateEvents", "commit", "kill", "powerloss"}
INVARIANTS TypeOK BalancesMatch IndexContiguous ConflictsKnown PublishedReadable
  VInv SoundStoreIsValid
PROPERTIES HeightNeverRegresses AnswersStable
