SPECIFICATION Spec
CONSTANTS
  None = None
  Hosted = Hosted
  r1 = r1
  r2 = r2
  a1 = a1
  a2 = a2
  Refs <- TwoRefs
  Apis <- OneApi
  CacheLag = TRUE
  MaxUid = 0
  Budgets <- OneEdit
INVARIANT RecordedWithCredentials
CHECK_DEADLOCK FALSE
