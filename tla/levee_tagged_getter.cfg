SPECIFICATION Spec
CONSTANTS
  Types <- MCTypes
  Configured <- MCConfigured
  Programs <- TaggedGetter
INVARIANTS
  PropagatorsFound
