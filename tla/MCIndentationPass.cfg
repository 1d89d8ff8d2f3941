SPECIFICATION Spec
CONSTANTS
  MaxCol = 10
  MaxDepth = 4
INVARIANTS IInv
PROPERTIES ColReadingSpec AltReadingSpec
