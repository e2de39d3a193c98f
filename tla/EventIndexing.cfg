SPECIFICATION Spec
CONSTANTS
  alice = alice
  bob = bob
  TOK = TOK
  UNLISTED = UNLISTED
  ONG = ONG
  ONT = ONT
  govAddr = gov
  nullAddr = null
  GWei = 10
  Word = 1000
  Tracked = {ONG, ONT, TOK}
  Payers = {alice}
  Gas = {1}
  Events <- MCEvents
  MaxTxns = 2
  MaxEvents = 3
CHECK_DEADLOCK FALSE
INVARIANTS DiffsAreMoves OperationsReconcile GasPaidOnce FailureEndsAtFee TokensAreIndependent
