\* A cycle that leads out of itself.
SPECIFICATION Spec
CONSTANTS
  Types <- MCTypes
  Configured <- MCConfigured
  Imports <- MCImports
  TypeSpecs <- MCTypeSpecs
INVARIANTS
  OutsideCycles
