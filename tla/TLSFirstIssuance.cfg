SPECIFICATION Spec
CONSTANTS
  CacheLag = FALSE
  MaxSerial = 2
  MaxTurns = 1
  MaxFaults = 1
INVARIANT SourceIdentifiable
CHECK_DEADLOCK FALSE
