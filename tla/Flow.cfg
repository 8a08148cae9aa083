SPECIFICATION FairFlowSpec
CONSTANTS
  a = a
  b = b
  t1 = t1
  t2 = t2
  None = None
  Legacy = Legacy
  Names <- TwoNames
  Targets <- TwoTargets
  Budgets <- ChangesAndRetargets
INVARIANTS
  TokenInv
  KeyFollowsBinding
  EndpointMatchesKey
  OneAudiencePerKey
  KeyFileIsForTarget
  AcceptedAsMinted
  FlowInv
PROPERTIES
  RotationMeansRebinding
  PublishedKeysWork
CHECK_DEADLOCK FALSE
