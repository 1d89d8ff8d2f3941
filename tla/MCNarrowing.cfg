SPECIFICATION TSpec
CONSTANTS
  ClassNames <- NoNames
  Decls <- AllDecls
INVARIANTS HiddenNeverRuns NeverFallsOffTheEnd ClearedLoopNeverBreaks DroppedEdgeNeverTaken
INVARIANTS SlotAdmitsEveryValue ReadHoldsWhatItClaims 
