CONSTANTS
  ClassNames <- Keys
  Programs <- AllPrograms
  Table <- DisplayedClasses
  Operands <- SomeTypes
  MaxElements = 3
SPECIFICATION EitherSpec
INVARIANTS
  NamesFollowScopes
  ConstructorTurnsAwayNoPythonCall
  OverridesNarrow
  AttributesAdmitEveryStore
  ElementTypeAdmitsEveryElement
  AssignabilityIsTransitive
  NarrowerOperandIsTaken
CHECK_DEADLOCK FALSE
