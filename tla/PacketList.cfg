SPECIFICATION Spec
CONSTANT MaxPackets = 2
INVARIANT NothingStranded
CHECK_DEADLOCK FALSE
