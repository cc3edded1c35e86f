\* Four references with one field each: chains of three links, and no clash
\* can be lost.
CONSTANTS
  r1 = r1
  r2 = r2
  r3 = r3
  r4 = r4
  x = x
  y = y
  Ref = {r1, r2, r3, r4}
  Field = {x}
  Pos <- InOrder
  MaxCalls = 3
SPECIFICATION Spec
INVARIANTS ConstraintsHold FreezeKeepsPartitions
PROPERTY UnifyReturns
CHECK_DEADLOCK FALSE
