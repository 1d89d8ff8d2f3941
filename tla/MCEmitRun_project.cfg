SPECIFICATION Spec
CONSTANTS
  Paths = {"a_py", "b_py"}
  Targets = {"a.cpp", "b.cpp"}
  target <- TwoTargets
  rank <- ByName
  FaultSets <- SomeFaults
  MaxEdits = 1
  Failures <- AnyFailure
  Missing = Missing
  Foreign = Foreign
INVARIANTS ArtifactsComeFromAcceptedSources NewContentNeedsCleanRun HonestExit TargetsMatchInputs NoStaleTarget
PROPERTIES ForeignKept
