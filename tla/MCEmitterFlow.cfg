SPECIFICATION Spec
CONSTANT Decls <- AllDecls
INVARIANTS BreakFindsItsFlag GlobalsOfDefsAreBoundAtTheEnd
PROPERTIES Implements
