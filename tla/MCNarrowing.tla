---------------------------- MODULE MCNarrowing ----------------------------
(***************************************************************************)
(* Instances of Narrowing and Reachability for TLC: every body of at most  *)
(* size statements over the kinds, guards and values of its declaration.   *)
(***************************************************************************)
EXTENDS Narrowing

NoNames == <<>>

Test(atom) == [negated |-> FALSE, atom |-> atom]
Not(atom) == [negated |-> TRUE, atom |-> atom]

\* flow: every statement kind and every literal header, no tracked name, in a def and
\* in a module.
Flow(in_function) ==
  [in_function |-> in_function, names |-> {}, unassigned |-> {}, bools |-> {}, mutable |-> {},
   kinds |-> AllKinds \ ({"Call"} \union Stores), values |-> {AnyTruth},
   guards |-> {Test("opaque"), Test("False"), Not("False")},
   size |-> 4, stray |-> TRUE]

\* names: a while loop under a bool, which its body may rebind, or under a list, which
\* an expression in its body may empty.
Bool == [in_function |-> TRUE, names |-> {"name"}, unassigned |-> {}, bools |-> {"name"},
         mutable |-> {}, kinds |-> {"Return", "Break", "If", "While", "Assign"},
         values |-> {AnyTruth}, guards |-> {Test("name"), Not("name")},
         size |-> 5, stray |-> FALSE]
List == [Bool EXCEPT !.bools = {}, !.mutable = {"name"},
                     !.kinds = {"Break", "If", "While", "Expr"}]

\* types: a name stored with values of several types, on arms that meet, behind jumps and
\* in arms no run takes; in a def and in a module.
Typed == [in_function |-> TRUE, names |-> {"name"}, unassigned |-> {"name"}, bools |-> {},
          mutable |-> {}, kinds |-> {"Assign", "Expr", "If", "While"},
          values |-> {"Int", "Str", "NoneType"}, guards |-> {Test("opaque"), Test("False")},
          size |-> 4, stray |-> FALSE]
Arms == [Typed EXCEPT !.kinds = {"Declare", "Assign", "Expr", "If"}, !.values = {"Int", "Str"},
                      !.guards = {Test("opaque")}, !.size = 5]
Looping == [Arms EXCEPT !.kinds = {"Declare", "Assign", "Expr", "For", "Break", "Continue"},
                        !.size = 4]
Module == [Arms EXCEPT !.in_function = FALSE, !.values = {"Int", "Bool"},
                       !.guards = {Test("opaque"), Test("False")}, !.size = 4]

\* Dead arms: an else no run enters, behind a loop that is left by a break; arms of an if.
DeadElses == [Typed EXCEPT !.kinds = {"Assign", "Expr", "While", "Break"}, !.values = {"Int", "Str"},
                           !.guards = {Not("False")}, !.size = 5]
DeadElse == {DeadElses}
DeadArms == [Arms EXCEPT !.kinds = {"Assign", "Expr", "If"}, !.guards = {Test("False"), Not("False")}]

AllDecls == {Flow(TRUE), Flow(FALSE), Bool, List, Typed, Arms, Looping, Module, DeadElses, DeadArms}
=============================================================================
