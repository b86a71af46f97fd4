SPECIFICATION Spec
CONSTANT MaxSignals = 2
INVARIANT ReloadReplaces
CHECK_DEADLOCK FALSE
