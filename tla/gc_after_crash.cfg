SPECIFICATION CollectedSpec
CONSTANTS
  Unused = Unused
  Nobody = Nobody
  s1 = s1
  s2 = s2
INVARIANT RefsStayReadable
CHECK_DEADLOCK FALSE
