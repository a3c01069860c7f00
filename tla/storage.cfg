SPECIFICATION StorageSpec
CONSTANTS
  Unused = Unused
  Nobody = Nobody
  s1 = s1
  s2 = s2
INVARIANTS
  LogIsTrue
  NothingIndexedLost
  CacheIsFresh
  RiskIsMonotone
  StrictRunsAreSound
PROPERTY UnreadableIsNotUsed
CHECK_DEADLOCK FALSE
