SPECIFICATION Spec
CONSTANT Unused = Unused
INVARIANTS
  
  SentinelIsSound
  CodecIsExact
CHECK_DEADLOCK FALSE
