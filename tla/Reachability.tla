---------------------------- MODULE Reachability ----------------------------
(***************************************************************************)
(* What the type checker believes about control flow, next to what control *)
(* flow does.                                                              *)
(*                                                                         *)
(* TypeChecker answers three questions about a suite without running it:   *)
(* does a statement always leave (statement_always_leaves), can a break    *)
(* that leaves this loop be reached (contains_reachable_break), does a     *)
(* function body always return (always_returns).  On the answers it drops  *)
(* the diagnostics of code it takes for dead (check_suite and              *)
(* check_possibly_dead_suite, through DiagnosticSuppression), drops arms   *)
(* from the narrowing join of an if, and accepts a function without a      *)
(* final return.  A wrong answer is a program accepted that must not be.   *)
(*                                                                         *)
(* The three answers depend on the statement and what is inside it only,   *)
(* so `answer` tabulates them from the last statement to the first.        *)
(***************************************************************************)
EXTENDS PyProgram

VARIABLES
  answer,   \* node -> what the three questions answer for it
  hidden    \* the nodes visited while a DiagnosticSuppression was alive

checkVars == <<answer, hidden>>
vars == <<progVars, checkVars>>

-----------------------------------------------------------------------------
(* Guards.                                                                 *)

Invert(verdict) == CASE verdict = "AlwaysTrue" -> "AlwaysFalse"
                     [] verdict = "AlwaysFalse" -> "AlwaysTrue"
                     [] OTHER -> "Unknown"

literal_guard_verdict(g) ==
  LET plain == CASE g.atom = "True" -> "AlwaysTrue"
                 [] g.atom = "False" -> "AlwaysFalse"
                 [] OTHER -> "Unknown"
  IN IF g.negated THEN Invert(plain) ELSE plain

narrowing_guard_verdict(g, narrowed) ==
  IF g.atom # narrowed THEN "Unknown"
  ELSE IF g.negated THEN "AlwaysFalse" ELSE "AlwaysTrue"

guard_verdict(g, narrowed) ==
  IF literal_guard_verdict(g) # "Unknown" THEN literal_guard_verdict(g)
  ELSE narrowing_guard_verdict(g, narrowed)

LiveArm(verdict) == IF verdict = "AlwaysTrue" THEN "body" ELSE "orelse"
LiveArms(verdict) == CASE verdict = "AlwaysTrue" -> {"body"}
                       [] verdict = "AlwaysFalse" -> {"orelse"}
                       [] OTHER -> {"body", "orelse"}

-----------------------------------------------------------------------------
(* The three questions, asked of a suite: t the tree, v the answers.       *)

\* A place where a question is asked: is a loop around it, and the name a
\* `while name:` header narrowed to true.
Places == [in_loop : BOOLEAN, narrowed : Names \union {NoName}]
Place(in_loop, narrowed) == [in_loop |-> in_loop, narrowed |-> narrowed]

always_leaves_branch(t, v, u, a, place) == \E m \in Suite(t, u, a) : v[m].leaves[place]

\* The scan stops at the first statement that always leaves.
contains_reachable_break(t, v, u, a, narrowed) ==
  \E m \in Suite(t, u, a) :
    /\ v[m].breaks[narrowed]
    /\ \A k \in Earlier(t, m) : ~v[k].leaves[Place(TRUE, narrowed)]

always_returns(t, v, u, a) == \E m \in Suite(t, u, a) : v[m].returns

BoundIn(t, v, u, a) == UNION {v[m].binds : m \in Suite(t, u, a)}

(* The same, asked of a statement. *)

statement_binds(t, v, n) ==
  LET own == IF t[n].kind \in Binders THEN {t[n].name} ELSE {}
  IN own \union BoundIn(t, v, n, "body") \union BoundIn(t, v, n, "orelse")

\* Mutant: one arm is enough.
if_sometimes_leaves(t, v, n, place) ==
  \E a \in LiveArms(guard_verdict(t[n].guard, place.narrowed)) :
    always_leaves_branch(t, v, n, a, place)

if_always_leaves(t, v, n, place) ==
  LET verdict == guard_verdict(t[n].guard, place.narrowed)
      plain == Place(place.in_loop, NoName)
  IN IF verdict # "Unknown" THEN always_leaves_branch(t, v, n, LiveArm(verdict), place)
     ELSE \A a \in {"body", "orelse"} : always_leaves_branch(t, v, n, a, plain)

\* Mutant: a loop whose header is literally true is never left.
loop_leaves_whatever_breaks(t, v, n, place) ==
  \/ t[n].kind = "While" /\ literal_guard_verdict(t[n].guard) = "AlwaysTrue"
  \/ always_leaves_branch(t, v, n, "orelse", Place(place.in_loop, NoName))

loop_always_leaves(t, v, n, place) ==
  LET header == IF t[n].kind = "While" THEN literal_guard_verdict(t[n].guard) ELSE "Unknown"
      breakable == contains_reachable_break(t, v, n, "body", NoName)
  IN \/ header = "AlwaysTrue" /\ ~breakable
     \/ /\ header = "AlwaysFalse" \/ ~breakable
        /\ always_leaves_branch(t, v, n, "orelse", Place(place.in_loop, NoName))

statement_always_leaves(t, v, n, place) ==
  CASE t[n].kind = "Return" -> InFunction
    [] t[n].kind \in {"Break", "Continue"} -> place.in_loop
    [] t[n].kind = "If" -> if_always_leaves(t, v, n, place)
    [] t[n].kind \in Loops -> loop_always_leaves(t, v, n, place)
    [] OTHER -> FALSE

statement_breaks(t, v, n, narrowed) ==
  LET kind == t[n].kind
  IN \/ kind = "Break"
     \/ /\ kind = "If"
        /\ \E a \in LiveArms(guard_verdict(t[n].guard, narrowed)) :
             contains_reachable_break(t, v, n, a, narrowed)
     \/ kind \in Loops /\ contains_reachable_break(t, v, n, "orelse", NoName)

\* Mutant: the body may rebind the name.
loop_narrows_a_rebound_name(t, v, n) ==
  IF t[n].kind = "While" /\ ~t[n].guard.negated /\ t[n].guard.atom \in decl.bools
  THEN t[n].guard.atom ELSE NoName

\* Mutant: the name may be of a type whose truth value changes in place.
loop_narrows_a_mutable_name(t, v, n) ==
  IF /\ t[n].kind = "While" /\ ~t[n].guard.negated
     /\ t[n].guard.atom \in Names \ BoundIn(t, v, n, "body")
  THEN t[n].guard.atom ELSE NoName

loop_narrows_truthy(t, v, n) ==
  LET g == t[n].guard
  IN IF /\ t[n].kind = "While" /\ ~g.negated
        /\ g.atom \in decl.bools
        /\ g.atom \notin BoundIn(t, v, n, "body")
     THEN g.atom ELSE NoName

loop_else_always_returns(t, v, n, narrowed, body_never_runs) ==
  LET body_can_break == /\ ~body_never_runs
                        /\ contains_reachable_break(t, v, n, "body", narrowed)
  IN ~body_can_break /\ always_returns(t, v, n, "orelse")

statement_returns(t, v, n) ==
  LET kind == t[n].kind
      header == literal_guard_verdict(t[n].guard)
  IN \/ kind = "Return"
     \/ kind = "If" /\ \A a \in LiveArms(header) : always_returns(t, v, n, a)
     \/ /\ kind = "While" /\ header = "AlwaysTrue"
        /\ ~contains_reachable_break(t, v, n, "body", NoName)
     \/ kind \in Loops /\ loop_else_always_returns(t, v, n, loop_narrows_truthy(t, v, n),
                                                   kind = "While" /\ header = "AlwaysFalse")

Answer(t, v, n) ==
  [leaves  |-> [place \in Places |-> statement_always_leaves(t, v, n, place)],
   breaks  |-> [narrowed \in Names \union {NoName} |-> statement_breaks(t, v, n, narrowed)],
   returns |-> statement_returns(t, v, n),
   binds   |-> statement_binds(t, v, n)]

-----------------------------------------------------------------------------
(* The check.                                                              *)

\* The answers for statement n and those behind it.
Tabulated[n \in 1..Len(tree) + 1] ==
  IF n > Len(tree) THEN <<>>
  ELSE LET later == Tabulated[n + 1]
           here == Answer(tree, later, n)
       IN [m \in n..Len(tree) |-> IF m = n THEN here ELSE later[m]]

\* in_loop_body_ while the suite of n is checked.
InLoopBody(n) == tree[n].loop # 0

\* check_suite keeps a suppression from the first statement that always leaves to
\* the end of the suite.
BehindTerminator(v, n) ==
  \E m \in Earlier(tree, n) : v[m].leaves[Place(InLoopBody(n), NoName)]

\* check_possibly_dead_suite: an arm its literal header rules out.
InDeadArm(n) ==
  LET up == tree[n].up
  IN /\ up # 0
     /\ tree[up].kind \in {"If", "While"}
     /\ tree[n].arm \notin LiveArms(literal_guard_verdict(tree[up].guard))

\* Suppressions nest: whatever is inside a statement that is checked under one is
\* checked under it too.
Suppressed(v) == {n \in Nodes : \E m \in {n} \union tree[n].within :
                                  BehindTerminator(v, m) \/ InDeadArm(m)}

\* check_suite, from the module's body down: every statement is visited.
Check == /\ phase = "parse" /\ WholeProgram
         /\ answer' = Tabulated[1]
         /\ hidden' = Suppressed(answer')
         /\ Begin

Init == /\ ProgInit
        /\ answer = <<>>
        /\ hidden = {}

Next == \/ Parse /\ UNCHANGED checkVars
        \/ Check
        \/ Run /\ UNCHANGED checkVars
        \/ Over /\ UNCHANGED vars

Spec == Init /\ [][Next]_vars

-----------------------------------------------------------------------------
(* Properties.                                                             *)

\* A statement whose diagnostics were dropped is never executed: the suppression of
\* check_suite and check_possibly_dead_suite hides errors of dead code only.
HiddenNeverRuns == phase = "run" /\ pc[1] = "exec" => pc[2] \notin hidden

\* A function that is not reported as `missing return statement` never reaches the
\* end of its body (visit(FunctionDef), last step).  The emitter relies on it: it
\* writes no return of its own after the body of such a function.
NeverFallsOffTheEnd ==
  InFunction /\ phase = "run" /\ always_returns(tree, answer, 0, "body") => pc[1] # "ended"

\* A loop that contains_reachable_break clears is never left by a break, under the
\* narrowing its own header gives.
ClearedLoopNeverBreaks ==
  phase = "run" /\ pc[1] = "exec" /\ tree[pc[2]].kind = "Break" /\ tree[pc[2]].loop # 0 =>
    LET loop == tree[pc[2]].loop
    IN contains_reachable_break(tree, answer, loop, "body",
                                loop_narrows_truthy(tree, answer, loop))

\* visit(If) leaves an arm out of the narrowing join only if control never comes out
\* of that arm, whatever context it assumes for the terminators inside; of a program
\* that CPython compiles, since a stray terminator is taken to leave here.
DroppedArm(n, a) ==
  \/ a \notin LiveArms(literal_guard_verdict(tree[n].guard))
  \/ always_leaves_branch(tree, answer, n, a, Place(TRUE, NoName))
DroppedEdgeNeverTaken ==
  /\ phase = "run" /\ pc[1] = "done" /\ tree[pc[2]].up # 0 /\ Later(tree, pc[2]) = {}
  /\ \A n \in Nodes : Legal(tree[n].kind, tree[n].loop)
  => LET up == tree[pc[2]].up
    IN tree[up].kind = "If" => ~DroppedArm(up, tree[pc[2]].arm)
=============================================================================
