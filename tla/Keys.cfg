SPECIFICATION MCSpec
CONSTANTS
  Byte = 255
  Lead = 127
  Word = 2147483647
  ongAddr = ONG
  ontAddr = ONT
  govAddr = gov
  nullAddr = null
  AddrLen = 2
  Accounts <- MCAccounts
  Contracts <- MCContracts
  Window <- MCWindow
  Ranges <- MCRanges
  MaxEntries = 3
INVARIANTS TypeOK SeekIsNewest ScanFindsNewest RoundTrip
PROPERTY OrderKept
\* The window and the heights considered have an end.
CHECK_DEADLOCK FALSE
