SPECIFICATION Spec
CONSTANT MaxFailures = 3
INVARIANT StopReachesGroup
