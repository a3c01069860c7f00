SPECIFICATION RestoredSpec
CONSTANT Unused = Unused
INVARIANT ComparisonsAnswer
CHECK_DEADLOCK FALSE
