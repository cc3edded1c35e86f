SPECIFICATION RunSpec
CONSTANT Programs <- DroppedResults
INVARIANT NeverPanics
CHECK_DEADLOCK FALSE
