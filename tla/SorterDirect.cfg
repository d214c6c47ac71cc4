SPECIFICATION DirectSpec
CONSTANT Tasks = {1, 2}
INVARIANT OrderRespectsDependencies
CHECK_DEADLOCK FALSE
