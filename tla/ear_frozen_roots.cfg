\* Chains of three links: frozen parents against representatives.
CONSTANTS
  r1 = r1
  r2 = r2
  r3 = r3
  r4 = r4
  x = x
  y = y
  Ref = {r1, r2, r3, r4}
  Field = {x}
  Pos <- InOrder
  MaxCalls = 3
SPECIFICATION Spec
INVARIANT FrozenParentsAreRoots
CHECK_DEADLOCK FALSE
