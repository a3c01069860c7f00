SPECIFICATION Spec
CONSTANTS
  Sessions = {s1, s2}
  Names = {main, dev}
  CreateNames = {main}
  ForkNames = {dev}
  CheckpointEvery = 2
  MaxCommits = 3
  MaxForks = 0
  MaxCrashes = 0
  Free = Free
  Stale = Stale
INVARIANTS
  AcceptedKept
