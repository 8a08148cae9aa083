SPECIFICATION Spec
CONSTANTS
  None = None
  Hosted = Hosted
  r1 = r1
  r2 = r2
  a1 = a1
  a2 = a2
  Refs <- TwoRefs
  Apis <- OneApi
  CacheLag = FALSE
  MaxUid = 0
  Budgets <- TwoEdits
INVARIANT PublishedAddressHeld
CHECK_DEADLOCK FALSE
