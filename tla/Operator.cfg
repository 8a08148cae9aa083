SPECIFICATION FairSpec
CONSTANTS
  None = None
  q1 = q1
  q2 = q2
  Requests <- TwoRequests
  Inputs <- SomeInputs
INVARIANTS
  TypeOK
  ParsedExactly
  SlugsDisjoint
  ExitAfterCleanup
  ExitCodeTells
PROPERTIES
  StopsTogether
  AuthOnEveryReplica
  OnlyCheckedApplied
  AdmittedIsApplied
CHECK_DEADLOCK FALSE
