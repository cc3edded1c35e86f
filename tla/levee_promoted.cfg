SPECIFICATION Spec
CONSTANTS
  Types <- MCTypes
  Configured <- MCConfigured
  Programs <- Promoted
INVARIANTS
  FactsAreOwn
