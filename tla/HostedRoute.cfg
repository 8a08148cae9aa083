SPECIFICATION FairSpec
CONSTANTS
  None = None
  Foreign = Foreign
  Remote = Remote
  a = a
  b = b
  Names <- TwoNames
  Policies <- TwoPolicies
  OtherRoutes <- SomeRoutes
  MaxUid = 2
  Budgets <- SomeBudgets
INVARIANTS
  TypeOK
  RoutesGuarded
PROPERTIES
  OnlyOwnObjects
  NoOverlapCreated
  SlugKept
  Converges
CHECK_DEADLOCK FALSE
