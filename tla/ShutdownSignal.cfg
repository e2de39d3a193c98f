\* Nothing fails, but a signal may come while the process starts.
SPECIFICATION FairSpec
CONSTANTS
  Modes = {"online"}
  Faults = {}
  Signals = TRUE
PROPERTIES
  SignalTerminates
CHECK_DEADLOCK FALSE
