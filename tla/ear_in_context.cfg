\* Equations that do not hold with a call site of context.
SPECIFICATION Spec
CONSTANTS
  Types <- MCTypes
  Programs <- InContext
  Pos <- MCPos
INVARIANT EquationsHold
