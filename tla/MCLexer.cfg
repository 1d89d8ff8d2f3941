SPECIFICATION Spec
CONSTANTS
  LoneBackslash = FALSE
  MaxWidth = 3
  MaxDepth = 3
  MaxRun = 6
INVARIANTS InputContract
