---------------------------- MODULE MCEmitterFlow ----------------------------
(***************************************************************************)
(* Instances of EmitterFlow for TLC: every body of at most size            *)
(* statements over the kinds and the guards of its declaration.            *)
(***************************************************************************)
EXTENDS EmitterFlow

Test(atom) == [negated |-> FALSE, atom |-> atom]

\* loops: nested loops with an else in a def, which read and assign one local.
LoopBodies ==
  [in_function |-> TRUE, names |-> {"local"}, unassigned |-> {"local"}, bools |-> {"local"},
   mutable |-> {}, values |-> {AnyTruth},
   kinds |-> {"Update", "Assign", "Break", "Continue", "If", "While"},
   guards |-> {Test("opaque")}, size |-> 5, stray |-> FALSE]

\* reads: the local is tested as well, and a return leaves.
Reads == [LoopBodies EXCEPT !.kinds = @ \union {"Return"}, !.guards = @ \union {Test("local")},
                            !.size = 4]

\* module: one global of a module, and a def that reads it.
Module ==
  [in_function |-> FALSE, names |-> {"global"}, unassigned |-> {"global"},
   bools |-> {"global"}, mutable |-> {}, values |-> {AnyTruth},
   kinds |-> {"Assign", "Call", "If", "While", "Break", "For"},
   guards |-> {Test("opaque")}, size |-> 4, stray |-> FALSE]

AllDecls == {LoopBodies, Reads, Module}
=============================================================================
