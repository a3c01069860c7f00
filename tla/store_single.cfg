SPECIFICATION FairSpec
CONSTANTS
  Sessions = {s1}
  Names = {main, dev}
  CreateNames = {main}
  ForkNames = {dev}
  CheckpointEvery = 2
  MaxCommits = 3
  MaxForks = 1
  MaxCrashes = 2
  Free = Free
  Stale = Stale
INVARIANTS
  TypeOK
  PublishedReadable
  HistoryIsAncestry
  DeltaChainBounded
  SettledWhenIdle
  AcceptedKept
PROPERTIES
  LockReleased
  ImplementsHistory
