\* A flow through three conversions that the search misses.
SPECIFICATION Spec
CONSTANTS
  Types <- MCTypes
  Programs <- Chain
  Pos <- MCPos
INVARIANT FlowsReported
