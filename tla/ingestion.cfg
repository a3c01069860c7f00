SPECIFICATION IngestionSpec
CONSTANTS
  Unused = Unused
  Invalid = Invalid
  p1 = p1
  p2 = p2
INVARIANTS
  SeenIsStored
  StrictWritesFollowReads
  RoutesAgree
PROPERTY EveryEventSettles
CHECK_DEADLOCK FALSE
