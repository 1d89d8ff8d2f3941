------------------------ MODULE MCEmittedExpressions ------------------------
(***************************************************************************)
(* Instances of EmittedExpressions for TLC.  An int has 6 bits and a       *)
(* double 3, so that ints exist which no double represents; the widest     *)
(* power of two that fits has an odd exponent, as 2^63 has.                *)
(***************************************************************************)
EXTENDS EmittedExpressions

NoNames == <<>>
SomeLiterals == {bool_(TRUE), int_(3), int_(MaxInt), int_(MaxInt + 1), value("Float", 1, 2), str(1)}
SomeDefs == [f |-> <<of("Float"), of("Float")>>, g |-> <<of("Bool"), of("Int")>>]
SomeDeclarable == {of("Bool"), of("Int"), of("Float"), of("Str")}
=============================================================================
