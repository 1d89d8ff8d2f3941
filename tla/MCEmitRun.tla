------------------------------ MODULE MCEmitRun ------------------------------
(***************************************************************************)
(* Instances of EmitRun for TLC: a project of two files, with a target     *)
(* each, or of one.                                                        *)
(***************************************************************************)
EXTENDS EmitRun

TwoTargets == [p \in Paths |-> IF p = "a_py" THEN "a.cpp" ELSE "b.cpp"]
ByName == [p \in Paths |-> IF p = "a_py" THEN 1 ELSE 2]

\* A fault in each stage, and two in stages that follow each other.
SomeFaults == {{}, {"layout"}, {"parse"}, {"semantic", "codegen"}, {"codegen"}}
AnyFailure == {"read", "open", "remove", "kill"}
=============================================================================
