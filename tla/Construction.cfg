SPECIFICATION FairSpec
CONSTANTS
  alice = alice
  bob = bob
  TOK = TOK
  WSM = WSM
  ONG = ONG
  ONT = ONT
  govAddr = gov
  nullAddr = null
  nil = nil
  Junk = junk
  GWei = 10
  Word = 1000
  Tokens = {ONG, ONT, TOK, WSM}
  Wasm = {WSM}
  Decimals <- MCDecimals
  Requests <- MCRequests
  Keys = {alice, bob}
  ForeignTxns <- MCForeign
  offline = FALSE
  minGasLimit = 2
  defaultGasPrice = 2
  MaxNonce = 1
  Lookback = 1
  Attempts = 2
  MaxUint32 = 4
  Gas = 1
  MaxOptions = 1
  MaxUnsigned = 1
  MaxSigned = 1
  MaxForeign = 1
  MaxBlocks = 3
INVARIANTS TypeOK SignedIsAsked ParsedIsAsked SignaturesFit MempoolTellsBlock PriceIsOfNewest
PROPERTIES NonceFree MetadataEnds
CHECK_DEADLOCK FALSE
