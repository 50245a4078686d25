SPECIFICATION Spec
INVARIANT CertainMeansComplete
CHECK_DEADLOCK FALSE
