SPECIFICATION Spec
CONSTANTS
  CacheLag = TRUE
  MaxSerial = 2
  MaxTurns = 1
  MaxFaults = 0
INVARIANT CleanupIsComplete
CHECK_DEADLOCK FALSE
