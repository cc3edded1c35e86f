\* A source of a recursive slice type that holds itself.
SPECIFICATION Spec
CONSTANTS
  Types <- MCTypes
  Programs <- Endless
  Pos <- MCPos
PROPERTY SearchEnds
