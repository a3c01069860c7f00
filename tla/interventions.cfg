SPECIFICATION Spec
CONSTANT Unused = Unused
INVARIANTS
  ReplaysEditTheirTrigger
  SearchesSumUp
  ComparisonsAreExact
  RepairsAreLeast
PROPERTY BreakpointsStay
CHECK_DEADLOCK FALSE
