\* Both modes, any failure, and a signal at any moment.
SPECIFICATION FairSpec
CONSTANTS
  Modes = {"online", "offline"}
  Faults = {"start", "listen", "events", "slow"}
  Signals = TRUE
INVARIANTS
  TypeOK
  StoreOutlivesIndexer
  LedgerClosedLast
  RequestsFindStoreOpen
PROPERTIES
  ExitEnds
\* The process ends, or hangs in its exit handlers.
CHECK_DEADLOCK FALSE
