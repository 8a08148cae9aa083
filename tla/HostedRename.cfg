SPECIFICATION Spec
CONSTANTS
  None = None
  Foreign = Foreign
  Remote = Remote
  a = a
  b = b
  Names <- TwoNames
  Policies <- TwoPolicies
  OtherRoutes <- NoRoutes
  MaxUid = 2
  Budgets <- NoEdits
INVARIANT
  ProvisionedNotRenamed
CHECK_DEADLOCK FALSE
