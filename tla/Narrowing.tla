----------------------------- MODULE Narrowing -----------------------------
(***************************************************************************)
(* What the type checker believes a name holds, next to what it holds.     *)
(*                                                                         *)
(* TypeChecker gives every name of a body one declared type, taken from    *)
(* the first statement that binds it, and a current type at every point: a *)
(* store narrows the name to the type of what it stored, an if and a loop  *)
(* join the narrowings of the edges that meet behind them, and a suite     *)
(* that leaves restores what held where it left.  A read is typed by the   *)
(* narrowing, the C++ slot by the declared type: both must admit the       *)
(* object that is really there.                                            *)
(*                                                                         *)
(* The visit that Reachability models statement by statement does this on  *)
(* the way; TypeBody is its result, worked out at its end.  Every          *)
(* statement stands on a line of its own, its node is its line.            *)
(***************************************************************************)
EXTENDS Reachability, Types

VARIABLES
  typed,      \* what the visit made of the names of the body, <<>> before it
  again,      \* history: the loops whose body was entered more than once
  escaped     \* history: the names a jump carried past a join that leaves it out

typeVars == <<typed, again, escaped>>
allVars == <<vars, typeVars>>

\* A value is the kind of a constant.  A body whose values are followed is one CPython
\* compiles; it starts with no name bound, and none of its names is a bool or a container.
Constants == {"NoneType", "Bool", "Int", "Float", "Complex", "Str", "Bytes", "Ellipsis"}
ASSUME NarrowingAssumption ==
  \A d \in Decls : AnyTruth \notin d.values =>
    /\ d.values \subseteq Constants /\ ~d.stray
    /\ d.unassigned = d.names /\ d.bools = {} /\ d.mutable = {}

\* The type of the constant a statement stores; where only truth is followed, none.
type_of_value(n) == IF tree[n].value = AnyTruth THEN Unknown ELSE of(tree[n].value)
Annotation == Object

-----------------------------------------------------------------------------
(* Bindings.                                                               *)

Bindings == [status : {"unbound", "placeholder", "declared"}, type : AllTypes, bound_at : Nat,
             declared_at : Nat, order_exempt : BOOLEAN, partial_none : BOOLEAN]
NoBinding == [status |-> "unbound", type |-> Unknown, bound_at |-> 0, declared_at |-> 0,
              order_exempt |-> FALSE, partial_none |-> FALSE]
placeholder(position, provenance) ==
  [NoBinding EXCEPT !.status = "placeholder", !.bound_at = position, !.declared_at = provenance]
declared(type, line) ==
  [NoBinding EXCEPT !.status = "declared", !.type = type, !.bound_at = line, !.declared_at = line]
fill(binding, type) == [binding EXCEPT !.status = "declared", !.type = type]

\* Stored by every statement of the body, at any depth, that binds the name.
BindingsOf(x) == {n \in Nodes : tree[n].kind \in Binders /\ tree[n].name = x}
InDeadCode(n) == \E m \in {n} \union tree[n].within : InDeadArm(m)

\* Mutant: the first binding of all, be it in a dead arm.
pre_bind_at_first(x) ==
  IF BindingsOf(x) = {} THEN NoBinding
  ELSE placeholder(FirstOf(BindingsOf(x)), FirstOf(BindingsOf(x)))

\* The statement that fills the placeholder is the first one a dead arm does not hold,
\* unless it is annotated: that one decides wherever it stands.
pre_bind_function_body(x) ==
  LET live == {n \in BindingsOf(x) : tree[n].kind = "Declare" \/ ~InDeadCode(n)}
  IN IF BindingsOf(x) = {} THEN NoBinding
     ELSE placeholder(FirstOf(IF live # {} THEN live ELSE BindingsOf(x)),
                      FirstOf(BindingsOf(x)))

\* A module's annotations are bound before its body is visited.
collect_signatures(x) ==
  LET annotated == {n \in BindingsOf(x) : tree[n].kind = "Declare"}
  IN IF annotated = {} THEN NoBinding ELSE declared(Annotation, FirstOf(annotated))

\* Only a name some statement at the top of the module assigns has a placeholder.
pre_bind_assignment_targets(x) ==
  LET top_level == {n \in BindingsOf(x) : tree[n].kind = "Assign" /\ tree[n].up = 0}
  IN IF collect_signatures(x) # NoBinding THEN collect_signatures(x)
     ELSE IF top_level = {} THEN NoBinding
     ELSE placeholder(FirstOf(BindingsOf(x)), FirstOf(BindingsOf(x)))

fills_placeholder(binding, line) ==
  binding.status = "placeholder" /\ binding.bound_at = line /\ ~binding.order_exempt

has_prior_definition(binding, line) ==
  ~(binding.status = "placeholder" /\ binding.declared_at = line /\ ~binding.order_exempt)

seeds_partial_none(type, order_exempt) == type = NoneType /\ ~order_exempt

-----------------------------------------------------------------------------
(* Narrowings: the narrowed type of a name, NoType while it is not.        *)

NoType == of("-")
Narrowed(st, x, type) == [st EXCEPT !.narrowings[x] = type]
redeclare_narrowing(st, x) == [st EXCEPT !.narrowings[x] = NoType]
\* What a name is taken to hold.
current_type(narrowings, bindings, x) ==
  IF narrowings[x] # NoType THEN narrowings[x] ELSE bindings[x].type

collapse_object_union(type) ==
  IF type.kind = "Union" /\ Object \in ToSet(type.args) THEN Object ELSE type

\* An edge that has no narrowing for the name contributes its declared type.
join_narrowings(edges, bindings) ==
  LET joined(x) == collapse_object_union(
                     union_of([i \in DOMAIN edges |-> current_type(edges[i], bindings, x)]))
      narrowed(x) == /\ \E i \in DOMAIN edges : edges[i][x] # NoType
                     /\ bindings[x].status # "unbound"
                     /\ ~is_equivalent(joined(x), bindings[x].type, NoClasses)
  IN [x \in Names |-> IF narrowed(x) THEN joined(x) ELSE NoType]

-----------------------------------------------------------------------------
(* The visit.  st: the bindings, the narrowings, what every read was typed *)
(* as and the statements reported.                                         *)

TypesOf(what) == [what -> AllTypes \union {NoType}]
Visits == [bindings : [Names -> Bindings], narrowings : TypesOf(Names), claims : TypesOf(Nodes),
           reported : SUBSET Nodes]

\* A DiagnosticSuppression drops an incompatible assignment, never a NameError or a
\* redefinition.
report_suppressible(st, n) == IF n \in hidden THEN st ELSE [st EXCEPT !.reported = @ \union {n}]
report(st, n) == [st EXCEPT !.reported = @ \union {n}]

\* Mutant: the value that resolves a partial None is the declared type.
resolves_exactly(type) == type

\* x = None declares nothing: the first value that is something else does.
resolves_partial_none(type) == union_of(<<type, NoneType>>)

assign_name(st, n, order_exempt) ==
  LET x == tree[n].name
      type == type_of_value(n)
      binding == st.bindings[x]
      bound(b) == [st EXCEPT !.bindings[x] =
                     [b EXCEPT !.order_exempt = order_exempt,
                               !.partial_none = seeds_partial_none(type, order_exempt)]]
  IN IF binding.status = "unbound" THEN bound(declared(type, n))
     ELSE IF fills_placeholder(binding, n) THEN bound(fill(binding, type))
     ELSE IF binding.partial_none /\ type \notin {NoneType, Unknown}
     THEN Narrowed([st EXCEPT !.bindings[x] = declared(resolves_partial_none(type), n)], x, type)
     ELSE IF /\ Unknown \notin {type, binding.type}
             /\ ~is_subtype(type, binding.type, NoClasses) THEN report_suppressible(st, n)
     ELSE Narrowed(st, x, type)

\* A module's annotation was bound by collect_signatures, unless it was not the first.
bind_annotation(st, n) ==
  LET x == tree[n].name
      binding == st.bindings[x]
  IN CASE InFunction /\ ~has_prior_definition(binding, n) ->
            [st EXCEPT !.bindings[x] = fill(binding, Annotation)]
       [] ~InFunction /\ binding.declared_at = n -> st
       [] OTHER -> report(st, n)

\* A read is reported when its name has no value; what is done with the object it reads is
\* judged by the type the read claims.
type_of_name(st, n) ==
  LET x == tree[n].name
      binding == st.bindings[x]
  IN IF x = NoName THEN st
     ELSE IF \/ binding.status = "unbound"
             \/ ~binding.order_exempt /\ binding.bound_at >= n
     THEN report(st, n)
     ELSE [st EXCEPT !.claims[n] = current_type(st.narrowings, st.bindings, x)]

\* What is known of a suite, of w, the visits from a statement to the end of its suite.
check_suite(w, st, u, a) ==
  LET s == Suite(tree, u, a) IN IF s = {} THEN st ELSE w[FirstOf(s)][st]

Joined(st, edges) == [st EXCEPT !.narrowings = join_narrowings(edges, st.bindings)]

\* The edges of an if that come out of it; of an if none comes out of, both.
EdgesOf(n, body, orelse) ==
  IF DroppedArm(n, "body") = DroppedArm(n, "orelse") THEN <<body, orelse>>
  ELSE IF DroppedArm(n, "orelse") THEN <<body>> ELSE <<orelse>>

visit_if(w, st, n) ==
  LET after_body == check_suite(w, st, n, "body")
      after_orelse == check_suite(w, [after_body EXCEPT !.narrowings = st.narrowings], n, "orelse")
  IN Joined(after_orelse, EdgesOf(n, after_body.narrowings, after_orelse.narrowings))

TargetBound(st, n) ==
  IF tree[n].kind = "For" /\ tree[n].name # NoName THEN assign_name(st, n, TRUE) ELSE st

\* Mutant: the state before a for is taken with its target bound.
visit_loop_late(w, st, n) ==
  LET bound == TargetBound(st, n)
      after_body == check_suite(w, bound, n, "body")
  IN check_suite(w, Joined(after_body, <<bound.narrowings, after_body.narrowings>>), n, "orelse")

\* The body runs zero times or it ran to its end.
visit_loop(w, st, n) ==
  LET after_body == check_suite(w, TargetBound(st, n), n, "body")
  IN check_suite(w, Joined(after_body, <<st.narrowings, after_body.narrowings>>), n, "orelse")

\* ignored: the statements the visit passes over (none, but for LiveVerdicts).
visit(w, st, n, ignored) ==
  LET kind == IF n \in ignored THEN "Ignored" ELSE tree[n].kind
  IN CASE kind = "Assign" -> assign_name(st, n, FALSE)
       [] kind = "Declare" -> redeclare_narrowing(bind_annotation(st, n), tree[n].name)
       [] kind = "Expr" -> type_of_name(st, n)
       [] kind = "If" -> visit_if(w, st, n)
       [] kind \in Loops -> visit_loop(w, st, n)
       [] OTHER -> st

\* From n on.  What a suite narrows behind the statement where it leaves does not come out
\* of it.
VisitFrom(w, st, n, ignored) ==
  LET after == visit(w, st, n, ignored)
      later == Later(tree, n)
      rest == IF later = {} THEN after ELSE w[FirstOf(later)][after]
  IN IF answer[n].leaves[Place(InLoopBody(n), NoName)]
     THEN [rest EXCEPT !.narrowings = after.narrowings] ELSE rest

VisitsOf(ignored) ==
  LET visits[n \in Nodes] == [st \in Visits |-> VisitFrom(visits, st, n, ignored)] IN visits

Unvisited == [bindings |-> [x \in Names |-> IF InFunction THEN pre_bind_function_body(x)
                                            ELSE pre_bind_assignment_targets(x)],
              narrowings |-> [x \in Names |-> NoType],
              claims |-> [n \in Nodes |-> NoType], reported |-> {}]

Checked(ignored) == check_suite(VisitsOf(ignored), Unvisited, 0, "body")

-----------------------------------------------------------------------------
(* The check, then the run.                                                *)

TypeBody ==
  /\ phase = "run" /\ typed = <<>>
  /\ typed' = Checked({})
  /\ UNCHANGED <<vars, again, escaped>>

\* The names a round of a loop binds; a jump leaves its else out as well.
BoundByRound(loop) == BoundIn(tree, answer, loop, "body") \union {tree[loop].name}
BoundByLoop(loop) == answer[loop].binds
\* A store narrows, except the one that declares the name: behind a dead else, which
\* narrows what it stores, a name may be declared and stay narrowed to something else.
Settles(n) ==
  LET x == tree[n].name
      binding == Unvisited.bindings[x]
  IN x # NoName /\ fills_placeholder(binding, n) => binding.declared_at = n

\* Only a program that draws no diagnostic is compiled.
Accepted == typed # <<>> /\ typed.reported = {}

RunTyped ==
  /\ Accepted
  /\ Run /\ UNCHANGED <<checkVars, typed>>
  /\ LET n == pc[2]
         x == tree[n].name
         loop == tree[n].loop
         stores == \/ tree[n].kind \in Stores
                   \/ tree[n].kind = "For" /\ pc'[1] = "exec" /\ tree[pc'[2]].arm = "body"
         rounds == \/ pc[1] = "done" /\ pc'[1] = "exec" /\ pc'[2] = tree[n].up
                   \/ pc[1] = "exec" /\ tree[n].kind = "Continue"
     IN /\ again' = IF rounds THEN again \union {pc'[2]} ELSE again
        /\ escaped' = CASE pc[1] = "exec" /\ tree[n].kind \in {"Break", "Continue"} /\ loop # 0
                             -> escaped \union BoundByLoop(loop)
                        [] pc[1] = "exec" /\ stores ->
                             IF Settles(n) THEN escaped \ {x}
                             ELSE escaped \union {y \in {x} : env[y] # "unset"}
                        [] OTHER -> escaped

TInit == Init /\ typed = <<>> /\ again = {} /\ escaped = {}

TNext == \/ Parse /\ UNCHANGED <<checkVars, typeVars>>
         \/ Check /\ UNCHANGED typeVars
         \/ TypeBody
         \/ RunTyped
         \/ typed # <<>> /\ (Over \/ ~Accepted) /\ UNCHANGED allVars

TSpec == TInit /\ [][TNext]_allVars

-----------------------------------------------------------------------------
(* Properties.                                                             *)

Admits(type, value) == value # "unset" => is_subtype(of(value), type, NoClasses)
Following == AnyTruth \notin decl.values

\* In an accepted program a name holds, at every moment of every run, a value its
\* declared type admits, whatever loop, jump or dead arm it came through: the slot the
\* emitter declares with that type can hold it.
SlotAdmitsEveryValue ==
  Accepted /\ Following =>
    \A x \in Names : env[x] # "unset" =>
      /\ typed.bindings[x].status = "declared"
      /\ Admits(typed.bindings[x].type, env[x])

\* A read of an accepted program finds a value of the type it was given, on the first
\* round of every loop around it that stores the name; past a jump out of a loop that
\* stores it, once it is stored again by a statement that narrows it.  (visit(While)
\* accepts these exceptions but one: see Settles.)
ReadHoldsWhatItClaims ==
  /\ Accepted /\ Following /\ pc[1] = "exec"
  /\ tree[pc[2]].kind = "Expr" /\ tree[pc[2]].name # NoName
  => LET n == pc[2]
        x == tree[n].name
        settled == /\ x \notin escaped
                   /\ \A loop \in tree[n].within \intersect again : x \notin BoundByRound(loop)
    IN settled => Admits(typed.claims[n], env[x])

\* What a visit tells live code: which statements are reported, and the type of every read,
\* by which the statement it stands in draws a TypeError or not.
LiveVerdict(visited) ==
  [n \in {m \in Nodes : ~InDeadCode(m)} |-> <<n \in visited.reported, visited.claims[n]>>]
LiveVerdicts(without) == {LiveVerdict(visited) : visited \in {Checked(s) : s \in SUBSET without}}

\* A def in which no name ever holds None, before it is typed.
PlainDef == /\ InFunction /\ Following /\ phase = "run" /\ typed = <<>>
            /\ \A n \in Nodes : tree[n].value # "NoneType"
BoundAlive(x) == \E m \in BindingsOf(x) : ~InDeadCode(m)

\* An arm of an if no run takes, where the other arm is come out of.
Pruned(m) == LET up == tree[m].up
             IN /\ InDeadArm(m) /\ tree[up].kind = "If"
                /\ DroppedArm(up, "body") # DroppedArm(up, "orelse")
PrunedAssignments ==
  {n \in Nodes : /\ tree[n].kind = "Assign" /\ BoundAlive(tree[n].name)
                 /\ \E m \in {n} \union tree[n].within : Pruned(m)}

\* In a def, an arm of an if that no run takes decides nothing of the code that runs: live
\* statements draw the same errors, and live reads have the same types, whichever of its
\* assignments to a name that live code binds are written (pre_bind_function_body, and
\* the edges visit(If) drops).  The names of such a def hold no None.
PrunedArmsDecideNothing ==
  PlainDef => \A one, other \in LiveVerdicts(PrunedAssignments) : one = other

\* The same of the dead arms of a loop, of assignments to names the loop introduces: the
\* comment in visit(If) says that a read behind the loop has the type live code gives it.
IntroducedByDeadLoopArms ==
  {n \in Nodes : /\ tree[n].kind = "Assign" /\ BoundAlive(tree[n].name)
                 /\ \E m \in {n} \union tree[n].within : InDeadArm(m) /\ tree[tree[m].up].kind = "While"
                 /\ \A k \in BindingsOf(tree[n].name) : k < n => InDeadCode(k)}
DeadLoopArmsDecideNothing ==
  PlainDef => \A one, other \in LiveVerdicts(IntroducedByDeadLoopArms) : one = other
=============================================================================
