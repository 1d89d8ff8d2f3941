SPECIFICATION Spec
CONSTANTS
  MaxBlocks = 2
  MaxFrames = 5
INVARIANTS SuitesMatchBlocks FailureIsReported RecoveryIsExact AcceptedIsComplete
