SPECIFICATION RunSpec
CONSTANT Programs <- SecondResult
INVARIANT NoMissedFlow
CHECK_DEADLOCK FALSE
