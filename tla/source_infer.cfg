SPECIFICATION Spec
CONSTANTS
  Types <- MCTypes
  Configured <- MCConfigured
  Imports <- MCImports
  TypeSpecs <- MCTypeSpecs
INVARIANTS
  TopoOrder
  InferredExactly
  SourceTypesInferred
