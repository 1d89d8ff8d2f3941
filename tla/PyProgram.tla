----------------------------- MODULE PyProgram -----------------------------
(***************************************************************************)
(* A body of Python statements and its execution by CPython.               *)
(*                                                                         *)
(* The tree is the one the parser hands to the type checker and to the     *)
(* emitter (src/src/domain/ast/), reduced to what control flow can tell    *)
(* apart: the kind of a statement, the guard of an if or a while, the name *)
(* a statement binds or reads, and where the statement stands.  Nodes are  *)
(* numbered in source order, so an enclosing statement has a smaller       *)
(* number than everything inside it; node 0 is the body itself.            *)
(*                                                                         *)
(* Execution is Python's own (it is not code of the repository): the       *)
(* checker and the emitter are judged against it by the modules that       *)
(* extend this one.  A tree is grown one statement at a time, so that TLC  *)
(* visits every tree of at most decl.size nodes.                           *)
(***************************************************************************)
EXTENDS Naturals, Sequences, FiniteSets

CONSTANT
  Decls         \* the bodies a run considers, see decl

NoName == "-"
AnyTruth == "truth"    \* the value an assignment stores where only its truth is followed
Loops == {"While", "For"}
Compound == {"If"} \union Loops
Terminators == {"Return", "Break", "Continue"}
Readers == {"Expr", "Call", "Update"}      \* Call: of a def that reads the name
Stores == {"Assign", "Update", "Declare"}  \* Update: x = x + 1; Declare: x: object = 1
Binders == Stores \union {"For"}
AllKinds == Readers \union Binders \union Terminators \union Compound

ASSUME ProgramAssumption ==
  \A d \in Decls :
    /\ d.in_function \in BOOLEAN
    /\ d.size \in Nat \ {0}
    /\ NoName \notin d.names
    /\ d.names \intersect {"True", "False", "opaque"} = {}
    /\ d.unassigned \union d.bools \union d.mutable \subseteq d.names
    /\ d.bools \intersect d.mutable = {}
    /\ d.guards \subseteq [negated : BOOLEAN, atom : {"True", "False", "opaque"} \union d.names]
    /\ d.kinds \subseteq AllKinds
    /\ d.values = {AnyTruth} \/ (AnyTruth \notin d.values /\ "Update" \notin d.kinds)
    /\ d.stray \in BOOLEAN

VARIABLES
  decl,    \* what the body may be: in_function, a def's or a module's; names, the names
           \* it tracks, of which unassigned have no value when it starts, bools are
           \* declared bool, and mutable hold what may change its truth in place; kinds,
           \* guards and values, what its statements, headers and assignments may be (a
           \* guard is [negated, atom], the atom a literal, a name, or "opaque" for any
           \* other expression); size, bound: its statements; stray, may a terminator
           \* stand where CPython refuses to compile it
  tree,    \* the statements, in source order
  phase,   \* "parse" while the tree grows, "run" while it executes
  pc,      \* <<"exec", n>>: n is next; <<"done", n>>: n completed; or an end
  env      \* the value of every name, "unset" while it has none

progVars == <<decl, tree, phase, pc, env>>

InFunction == decl.in_function
Names == decl.names
Unassigned == decl.unassigned

-----------------------------------------------------------------------------
(* The tree.                                                               *)

Opaque == [negated |-> FALSE, atom |-> "opaque"]

Nodes == DOMAIN tree
Suite(t, u, a) == {m \in DOMAIN t : t[m].up = u /\ t[m].arm = a}
FirstOf(S) == CHOOSE m \in S : \A k \in S : m <= k
Later(t, n) == {m \in Suite(t, t[n].up, t[n].arm) : m > n}
Earlier(t, n) == {m \in Suite(t, t[n].up, t[n].arm) : m < n}

\* The loop a break or a continue placed in arm a of u belongs to.
LoopAt(u, a) == IF u = 0 THEN 0
                ELSE IF tree[u].kind \in Loops /\ a = "body" THEN u
                ELSE tree[u].loop

\* CPython's own rule: 'return' outside function, 'break' outside loop.
Legal(kind, loop) ==
  /\ kind = "Return" => InFunction
  /\ kind \in {"Break", "Continue"} => loop # 0

\* The last statement is a header still waiting for its suite.
SuiteDue == tree # <<>> /\ tree[Len(tree)].kind \in Compound

\* u is still open: nothing after it was placed outside it.
Open(u) == IF SuiteDue THEN u = Len(tree)
           ELSE u = 0 \/ \A m \in Nodes : u < m => u \in tree[m].within

\* Node 0 has a body only; an orelse comes after its body.
HasPlace(u, a) == IF u = 0 THEN a = "body"
                  ELSE /\ tree[u].kind \in Compound
                       /\ IF a = "body" THEN Suite(tree, u, "orelse") = {}
                                        ELSE Suite(tree, u, "body") # {}

AddStatement(kind, guard, name, value, u, a) ==
  LET loop == LoopAt(u, a)
  IN /\ phase = "parse"
     /\ Len(tree) + (IF kind \in Compound THEN 2 ELSE 1) <= decl.size
     /\ Open(u)
     /\ HasPlace(u, a)
     /\ decl.stray \/ Legal(kind, loop)
     /\ tree' = Append(tree, [kind |-> kind, guard |-> guard, name |-> name,
                              value |-> value, up |-> u, arm |-> a, loop |-> loop,
                              within |-> IF u = 0 THEN {} ELSE {u} \union tree[u].within])
     /\ UNCHANGED <<decl, phase, pc, env>>

\* The name an assignment or a for loop binds, the name an expression reads.
\* (NoName: a name the run does not track).
NamesFor(kind) == CASE kind \in Stores -> Names
                    [] kind = "For" -> IF Names = {} THEN {NoName} ELSE Names
                    [] kind = "Expr" -> IF Unassigned = {} THEN {NoName} ELSE Unassigned
                    [] kind = "Call" -> Unassigned
                    [] OTHER -> {NoName}

Parse ==
  \E kind \in decl.kinds, u \in 0..Len(tree), a \in {"body", "orelse"} :
    \E guard \in (IF kind \in {"If", "While"} THEN decl.guards ELSE {Opaque}),
       value \in (IF kind \in Binders THEN decl.values ELSE {AnyTruth}),
       name \in NamesFor(kind) :
      AddStatement(kind, guard, name, value, u, a)

\* The grammar wants a statement in every suite that is written down.
WholeProgram == tree # <<>> /\ ~SuiteDue

-----------------------------------------------------------------------------
(* Execution.                                                              *)

Truth == {"true", "false"}
Enter(u, a, otherwise) == LET s == Suite(tree, u, a)
                          IN IF s = {} THEN otherwise ELSE <<"exec", FirstOf(s)>>

\* Evaluating an arbitrary expression may change a mutable object, never what a
\* name is bound to: a nested function cannot rebind (global is not accepted).
MayMutate ==
  \E e \in [decl.mutable -> Truth] :
    env' = [x \in Names |-> IF x \in decl.mutable /\ env[x] # "unset" THEN e[x] ELSE env[x]]

Begin == /\ phase' = "run"
         /\ pc' = Enter(0, "body", <<"ended", 0>>)
         /\ env' \in [Names -> Truth \union {"unset"}]
         /\ \A x \in Names : env'[x] = "unset" <=> x \in Unassigned
         /\ UNCHANGED <<decl, tree>>

AtOneOf(kinds) == phase = "run" /\ pc[1] = "exec" /\ tree[pc[2]].kind \in kinds
At(kind) == AtOneOf({kind})
Goto(where) == pc' = where /\ UNCHANGED <<decl, tree, phase>>

\* Reading a name with no value raises NameError (UnboundLocalError in a def).
Unbound(x) == x \in Names /\ env[x] = "unset"
Raise == Goto(<<"raised", pc[2]>>) /\ UNCHANGED env

RunExpr == /\ AtOneOf({"Expr", "Call"})
           /\ IF Unbound(tree[pc[2]].name) THEN Raise
              ELSE Goto(<<"done", pc[2]>>) /\ MayMutate

Stored(n) == IF tree[n].value = AnyTruth THEN Truth ELSE {tree[n].value}
Bind(n) == \E v \in Stored(n) :
             env' = [x \in Names |-> IF x = tree[n].name THEN v ELSE env[x]]

\* The value is evaluated before the name is bound.
RunAssign == /\ AtOneOf(Stores)
             /\ LET n == pc[2]
                IN IF tree[n].kind = "Update" /\ Unbound(tree[n].name) THEN Raise
                   ELSE Bind(n) /\ Goto(<<"done", n>>)

RunReturn == /\ At("Return")
             /\ Goto(IF InFunction THEN <<"returned", pc[2]>> ELSE <<"done", pc[2]>>)
             /\ UNCHANGED env

RunBreak == /\ At("Break")
            /\ LET loop == tree[pc[2]].loop
               IN Goto(<<"done", IF loop # 0 THEN loop ELSE pc[2]>>)
            /\ UNCHANGED env

RunContinue == /\ At("Continue")
               /\ LET loop == tree[pc[2]].loop
                  IN Goto(IF loop # 0 THEN <<"exec", loop>> ELSE <<"done", pc[2]>>)
               /\ UNCHANGED env

Outcomes(g) == LET plain == CASE g.atom = "True" -> {TRUE}
                              [] g.atom = "False" -> {FALSE}
                              [] g.atom = "opaque" -> BOOLEAN
                              [] OTHER -> {env[g.atom] = "true"}
               IN {b # g.negated : b \in plain}

\* The header of an if, and of a while every time round.
RunTest(kind) ==
  /\ At(kind)
  /\ LET n == pc[2]
     IN IF Unbound(tree[n].guard.atom) THEN Raise
        ELSE \E b \in Outcomes(tree[n].guard) :
               /\ Goto(Enter(n, IF b THEN "body" ELSE "orelse", <<"done", n>>))
               /\ UNCHANGED env
RunIf == RunTest("If")
RunWhile == RunTest("While")

\* One step of the iterator: the target is bound, or the iterable is exhausted.
RunForNext ==
  /\ At("For")
  /\ Bind(pc[2])
  /\ Goto(Enter(pc[2], "body", <<"done", pc[2]>>))
RunForExhausted ==
  /\ At("For")
  /\ Goto(Enter(pc[2], "orelse", <<"done", pc[2]>>))
  /\ UNCHANGED env

\* After a statement: the next of its suite, or the end of the suite, which is
\* the end of an if or of a loop's else, and the next round of a loop's body.
RunNext ==
  /\ phase = "run" /\ pc[1] = "done"
  /\ LET n == pc[2]
         up == tree[n].up
         later == Later(tree, n)
     IN Goto(CASE later # {} -> <<"exec", FirstOf(later)>>
               [] later = {} /\ up = 0 -> <<"ended", 0>>
               [] later = {} /\ up # 0 /\ tree[up].kind \in Loops /\ tree[n].arm = "body"
                    -> <<"exec", up>>
               [] OTHER -> <<"done", up>>)
  /\ UNCHANGED env

Run == \/ RunExpr \/ RunAssign \/ RunReturn \/ RunBreak \/ RunContinue
       \/ RunIf \/ RunWhile \/ RunForNext \/ RunForExhausted \/ RunNext

Over == phase = "run" /\ pc[1] \in {"ended", "returned", "raised"}

ProgInit == /\ decl \in Decls
            /\ tree = <<>>
            /\ phase = "parse"
            /\ pc = <<"idle", 0>>
            /\ env = [x \in Names |-> "unset"]

\* The program as CPython takes it: written down, then run.
ProgNext == \/ Parse
            \/ phase = "parse" /\ WholeProgram /\ Begin
            \/ Run
ProgSpec == ProgInit /\ [][ProgNext]_progVars
=============================================================================
