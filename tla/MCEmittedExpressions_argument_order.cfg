SPECIFICATION Spec
CONSTANTS
  ClassNames <- NoNames
  MaxInt = 31
  Significand = 3
  ExponentRange = 16
  Names = {v, w}
  Defs <- SomeDefs
  Declarable <- SomeDeclarable
  Literals <- SomeLiterals
  MaxOperands = 3
  MaxNodes = 5
  MaxExponent = 3
  MaxNumerator = 64
  MaxDenominator = 8
INVARIANTS EvaluatedInOrder
CHECK_DEADLOCK FALSE
