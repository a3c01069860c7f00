SPECIFICATION Spec
CONSTANTS
  Sessions = {s1, s2}
  Names = {main}
  CreateNames = {main}
  ForkNames = {}
  CheckpointEvery = 2
  MaxCommits = 3
  MaxForks = 0
  MaxCrashes = 1
  Free = Free
  Stale = Stale
SYMMETRY SessionSymmetry
INVARIANTS
  IInv
  WriterHoldsLock
