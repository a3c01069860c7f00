SPECIFICATION RetriedSpec
CONSTANTS
  Unused = Unused
  Invalid = Invalid
  p1 = p1
  p2 = p2
INVARIANT IdempotentByEventId
CHECK_DEADLOCK FALSE
