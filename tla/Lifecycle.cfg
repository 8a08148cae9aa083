SPECIFICATION FairSpec
CONSTANTS
  None = None
  Hosted = Hosted
  r1 = r1
  r2 = r2
  a1 = a1
  a2 = a2
  Refs <- TwoRefs
  Apis <- TwoApis
  CacheLag = TRUE
  MaxUid = 1
  Budgets <- EditsAndFaults
INVARIANTS
  TypeOK
  ObjectsAreRecorded
  CredentialsKept
PROPERTIES
  TeardownInOrder
  ImplementsView
  Converges
CHECK_DEADLOCK FALSE
