SPECIFICATION WorldSpec
CONSTANTS
  Unused = Unused
  c1 = c1
  c2 = c2
INVARIANTS
  ProofsAreExact
  NoLostUpdate
  ReplayRebuildsWorld
  MergingIsExact
  MorphismsCompose
PROPERTY ExpiryIsFinal
CHECK_DEADLOCK FALSE
