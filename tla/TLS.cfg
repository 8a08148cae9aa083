SPECIFICATION FairSpec
CONSTANTS
  CacheLag = TRUE
  MaxSerial = 3
  MaxTurns = 2
  MaxFaults = 2
INVARIANTS
  TLSTypeOK
  CleanupEndsIssuance
  TLSInv
PROPERTIES
  ProtectedBeforeSent
  TLSConverges
