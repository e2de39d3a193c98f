\* The indexer cannot read events; nobody sends a signal.
SPECIFICATION FairSpec
CONSTANTS
  Modes = {"online"}
  Faults = {"events"}
  Signals = FALSE
PROPERTIES
  FatalTerminates
CHECK_DEADLOCK FALSE
