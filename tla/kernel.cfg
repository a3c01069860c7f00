SPECIFICATION KernelSpec
CONSTANTS
  Unused = Unused
  malformed = malformed
INVARIANTS
  ProgramsAreDeltas
  StaleProgramRefused
  AuditHolds
  PackagesAreTheirText
  LeastClosure
PROPERTY StrictStepsAreBounded
CHECK_DEADLOCK FALSE
