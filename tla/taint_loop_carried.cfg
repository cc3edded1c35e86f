SPECIFICATION RunSpec
CONSTANT Programs <- LoopCarried
INVARIANT NoMissedFlow
CHECK_DEADLOCK FALSE
