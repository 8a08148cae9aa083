SPECIFICATION FairSpec
CONSTANTS
  a = a
  b = b
  t1 = t1
  None = None
  Legacy = Legacy
  Names <- TwoNames
  Targets <- OneTarget
  Budgets <- RetargetsAndFaults
INVARIANTS
  TypeOK
  ReadyNamesTheInstance
  ReadyInv
PROPERTIES
  OnlyOwnSecretChanged
  Converges
CHECK_DEADLOCK FALSE
