\* Three references with two fields each: cascades, clashes, cycles.
CONSTANTS
  r1 = r1
  r2 = r2
  r3 = r3
  r4 = r4
  x = x
  y = y
  Ref = {r1, r2, r3}
  Field = {x, y}
  Pos <- OnePos
  MaxCalls = 5
SPECIFICATION Spec
INVARIANTS
  TypeOK LookupsEnd PartitionsAtRoots FieldTargetsKnown
  NoSpuriousUnification FieldsKept RevFieldsInverse
PROPERTY AbstractSpec
SYMMETRY AnyOrder
CHECK_DEADLOCK FALSE
