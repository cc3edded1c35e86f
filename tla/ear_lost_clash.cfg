\* Two fields of one object holding one reference.
CONSTANTS
  r1 = r1
  r2 = r2
  r3 = r3
  r4 = r4
  x = x
  y = y
  Ref = {r1, r2, r3}
  Field = {x, y}
  Pos <- OnePos
  MaxCalls = 5
SPECIFICATION Spec
INVARIANT ConstraintsHold
SYMMETRY AnyOrder
CHECK_DEADLOCK FALSE
