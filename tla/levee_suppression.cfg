SPECIFICATION Spec
CONSTANTS
  Types <- MCTypes
  Configured <- MCConfigured
  Programs <- MCPrograms
INVARIANTS
  SuppressedAbove
