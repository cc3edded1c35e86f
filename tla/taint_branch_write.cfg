SPECIFICATION RunSpec
CONSTANT Programs <- BranchWrite
INVARIANT NoMissedFlow
CHECK_DEADLOCK FALSE
