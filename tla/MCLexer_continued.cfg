SPECIFICATION Spec
CONSTANTS
  LoneBackslash = TRUE
  MaxWidth = 3
  MaxDepth = 3
  MaxRun = 6
INVARIANTS LineMeasuresItself
