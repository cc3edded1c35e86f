\* Programs of a few instructions, with no, one and two call sites of context.
SPECIFICATION Spec
CONSTANTS
  Types <- MCTypes
  Programs <- MCPrograms
  Pos <- MCPos
INVARIANTS RepresentativesKnown TracesWithinSpan AliasesJustified EquationsHold TracesJustified FlowsReported OwnSourcePreferred
PROPERTIES HeapGrows SearchEnds
