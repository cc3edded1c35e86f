SPECIFICATION RunSpec
CONSTANT Programs <- SelectLoop
INVARIANT NoMissedFlow
CHECK_DEADLOCK FALSE
