SPECIFICATION RunSpec
CONSTANT Programs <- TwoWrites
INVARIANT NoMissedFlow
CHECK_DEADLOCK FALSE
