SPECIFICATION Spec
CONSTANTS
  Atoms <- SomeAtoms
  Constructs <- SomeConstructs
  Forms <- SomeForms
  MaxEnclosures = 2
  MaxOfASlip = 1
INVARIANTS AcceptedIsPython RefusedByName NamesOfTypesAreMarked
CHECK_DEADLOCK FALSE
