CONSTANTS
  Numbers <- AllNumbers
  Types <- AllTypes
  Exact = 100
  MaxCopies = 3
  MaxResets = 1
SPECIFICATION ValuesSpec
INVARIANT ValuesTypeOK
INVARIANT NothingSkipped
INVARIANT OnlyNewRows
