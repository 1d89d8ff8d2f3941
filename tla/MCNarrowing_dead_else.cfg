SPECIFICATION TSpec
CONSTANTS
  ClassNames <- NoNames
  Decls <- DeadElse
INVARIANTS DeadLoopArmsDecideNothing
