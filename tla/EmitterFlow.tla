----------------------------- MODULE EmitterFlow -----------------------------
(***************************************************************************)
(* The C++ that Emitter writes for a body of statements, and how it runs.  *)
(*                                                                         *)
(* Emitter first walks the body for reads of names that may have no value  *)
(* yet (check_definite_assignment): a C++ slot is declared once for the    *)
(* whole scope and default-constructs, where CPython raises.  It then      *)
(* writes the body: a while with an else becomes a loop and a flag named   *)
(* after the loop's depth, which a break sets to skip the else.            *)
(*                                                                         *)
(* The run below is the one of the emitted C++.  The contract of the       *)
(* repository (README.md) is that it is a run of the Python it was         *)
(* compiled from: Implements.                                              *)
(***************************************************************************)
EXTENDS PyProgram, Integers

VARIABLES
  emitted,        \* how many statements have been written
  loop_depth,     \* loop_depth_
  loop_has_else,  \* loop_has_else_
  outer,          \* the loops being written: what visit(While) restores after the body
  flag,           \* node -> the depth in the name of the flag a while declares, a break sets
  flags,          \* while node -> the value of the flag it declared
  assigned,       \* the slots the program has assigned (history)
  missed          \* <<n, env>>: the call at which Python would have raised (history)

emitVars == <<emitted, loop_depth, loop_has_else, outer, flag>>
vars == <<progVars, emitVars, flags, assigned, missed>>

\* What is emitted was accepted by the checker, which refuses a stray terminator; of its
\* values the truth is followed, and an annotated assignment is an assignment.
ASSUME EmitterAssumption ==
  \A d \in Decls : ~d.stray /\ d.values = {AnyTruth} /\ "Declare" \notin d.kinds

NoFlag == -1
HasElse(n) == Suite(tree, n, "orelse") # {}

-----------------------------------------------------------------------------
(* check_definite_assignment.                                              *)

\* collect_scope_variables: every name the scope assigns, at any depth.
scope_variables == {tree[n].name : n \in {m \in Nodes : tree[m].kind \in {"Assign", "Update"}}}

\* The names the check starts with: the parameters of a def, nothing in a module.
bound_on_entry == IF InFunction THEN Names \ Unassigned ELSE {}

ReadOk(name, bound) == name \in scope_variables => name \in bound
GuardName(n) == IF tree[n].guard.atom \in Names THEN tree[n].guard.atom ELSE NoName

\* What the walk of a suite or of a statement comes to: may it go on, does it always
\* leave, what is bound.
Walked(ok, leaves, bound) == [ok |-> ok, leaves |-> leaves, bound |-> bound]

\* What is known of a suite, of w, the walks from a statement to the end of its suite.
check_suite(w, u, a, bound) ==
  LET s == Suite(tree, u, a)
  IN IF s = {} THEN Walked(TRUE, FALSE, bound) ELSE w[FirstOf(s)][bound]

\* An arm that always leaves contributes nothing to intersect.
merge_arms(body, orelse) ==
  Walked(body.ok /\ orelse.ok, body.leaves /\ orelse.leaves,
         CASE body.leaves -> orelse.bound
           [] ~body.leaves /\ orelse.leaves -> body.bound
           [] OTHER -> body.bound \intersect orelse.bound)

\* Mutant: the else of a loop runs unless the body leaves, so what it binds is bound.
loop_binds_its_else(bound, body, orelse) ==
  Walked(body.ok /\ orelse.ok, FALSE, orelse.bound)

\* A body may run zero times, and an else is skipped by a break.
loop_binds_nothing(bound, body, orelse) == Walked(body.ok /\ orelse.ok, FALSE, bound)

check_statement(w, n, bound) ==
  LET kind == tree[n].kind
      body == check_suite(w, n, "body", bound)
      orelse == check_suite(w, n, "orelse", bound)
      tested == ReadOk(GuardName(n), bound)
  IN CASE kind = "Expr" -> Walked(ReadOk(tree[n].name, bound), FALSE, bound)
       [] kind = "Assign" -> Walked(TRUE, FALSE, bound \union {tree[n].name})
       [] kind = "Update" -> Walked(ReadOk(tree[n].name, bound), FALSE,
                                    bound \union {tree[n].name})
       [] kind \in Terminators -> Walked(TRUE, TRUE, bound)
       [] kind = "If" -> IF tested THEN merge_arms(body, orelse)
                         ELSE Walked(FALSE, FALSE, bound)
       [] kind = "While" -> IF tested THEN loop_binds_nothing(bound, body, orelse)
                            ELSE Walked(FALSE, FALSE, bound)
       [] OTHER -> Walked(TRUE, FALSE, bound)

\* From n on: a suite is walked up to what always leaves, or fails.
walk[n \in Nodes] ==
  [bound \in SUBSET Names |->
     LET first == check_statement(walk, n, bound)
         rest == Later(tree, n)
     IN IF first.leaves \/ ~first.ok \/ rest = {} THEN first
        ELSE walk[FirstOf(rest)][first.bound]]

check_definite_assignment(u, a, bound) == check_suite(walk, u, a, bound)

\* module_unbound_: what the module body may not have assigned by its end.  A def that
\* reads one of them is refused, wherever it is called from.
module_unbound(end) == scope_variables \ end.bound
names_read_by_defs == {tree[n].name : n \in {m \in Nodes : tree[m].kind = "Call"}}

-----------------------------------------------------------------------------
(* The walk that writes the body.                                          *)

runUnchanged == UNCHANGED <<decl, tree, pc, env, flags, assigned, missed>>

\* The checker has reported a name bound nowhere before the emitter is asked.
NamesDefined ==
  \A n \in Nodes : LET read == {GuardName(n)} \union
                               (IF tree[n].kind \in Readers THEN {tree[n].name} ELSE {})
                   IN read \intersect Unassigned \subseteq scope_variables

Prepared == /\ flag' = [n \in Nodes |-> NoFlag]
            /\ runUnchanged /\ UNCHANGED <<emitted, loop_depth, loop_has_else, outer>>

\* Mutant: only what no statement assigns is withheld from the functions.
CheckReadsOfScopeOnly ==
  /\ phase = "parse" /\ WholeProgram /\ NamesDefined
  /\ LET walked == check_definite_assignment(0, "body", bound_on_entry)
     IN phase' = IF walked.ok THEN "emit" ELSE "refused"
  /\ Prepared

CheckReads ==
  /\ phase = "parse" /\ WholeProgram /\ NamesDefined
  /\ LET walked == check_definite_assignment(0, "body", bound_on_entry)
     IN phase' = IF walked.ok /\ names_read_by_defs \intersect module_unbound(walked) = {}
                 THEN "emit" ELSE "refused"
  /\ Prepared

Due(n) == phase = "emit" /\ n = emitted + 1 /\ n \in Nodes
InBodyOf(n, u) == \/ tree[n].up = u /\ tree[n].arm = "body"
                  \/ \E m \in tree[n].within : tree[m].up = u /\ tree[m].arm = "body"

\* The next statement belongs to the body visit(While) is in, if to any.
InCurrentBody == outer # <<>> => /\ emitted < Len(tree)
                                 /\ InBodyOf(emitted + 1, outer[Len(outer)].loop)

\* Mutant: loop_has_else_ is not saved.
LeaveLoopBodyKeepingFlag ==
  /\ phase = "emit" /\ ~InCurrentBody
  /\ loop_depth' = loop_depth - 1
  /\ outer' = SubSeq(outer, 1, Len(outer) - 1)
  /\ runUnchanged /\ UNCHANGED <<phase, emitted, flag, loop_has_else>>

LeaveLoopBody ==
  /\ phase = "emit" /\ ~InCurrentBody
  /\ loop_has_else' = outer[Len(outer)].loop_has_else
  /\ loop_depth' = loop_depth - 1
  /\ outer' = SubSeq(outer, 1, Len(outer) - 1)
  /\ runUnchanged /\ UNCHANGED <<phase, emitted, flag>>

EmitWhile(n) ==
  /\ Due(n) /\ InCurrentBody /\ tree[n].kind = "While"
  /\ emitted' = n
  /\ flag' = [flag EXCEPT ![n] = IF HasElse(n) THEN loop_depth ELSE NoFlag]
  /\ outer' = Append(outer, [loop |-> n, loop_has_else |-> loop_has_else])
  /\ loop_has_else' = HasElse(n)
  /\ loop_depth' = loop_depth + 1
  /\ runUnchanged /\ UNCHANGED phase

EmitBreak(n) ==
  /\ Due(n) /\ InCurrentBody /\ tree[n].kind = "Break"
  /\ emitted' = n
  /\ flag' = [flag EXCEPT ![n] = IF loop_has_else THEN loop_depth - 1 ELSE NoFlag]
  /\ runUnchanged /\ UNCHANGED <<phase, loop_depth, loop_has_else, outer>>

\* visit(For) refuses: nothing is emitted.
RefuseFor(n) ==
  /\ Due(n) /\ InCurrentBody /\ tree[n].kind = "For"
  /\ phase' = "refused"
  /\ runUnchanged /\ UNCHANGED emitVars

EmitPlain(n) ==
  /\ Due(n) /\ InCurrentBody /\ tree[n].kind \notin {"While", "Break", "For"}
  /\ emitted' = n
  /\ runUnchanged /\ UNCHANGED <<phase, loop_depth, loop_has_else, outer, flag>>

-----------------------------------------------------------------------------
(* The emitted program.                                                    *)

progUnchanged == UNCHANGED <<decl, tree, phase, emitVars>>
CppGoto(where) == pc' = where /\ progUnchanged

\* The slots are default-constructed; the parameters have their arguments.
CppBegin ==
  /\ phase = "emit" /\ emitted = Len(tree) /\ outer = <<>>
  /\ phase' = "run"
  /\ pc' = Enter(0, "body", <<"ended", 0>>)
  /\ env' \in [Names -> Truth]
  /\ \A x \in Unassigned : env'[x] = "false"
  /\ assigned' = Names \ Unassigned
  /\ flags' = [n \in Nodes |-> FALSE]
  /\ UNCHANGED <<decl, tree, emitVars, missed>>

\* A name counts as unset in Python until its slot has been assigned.
PyEnv == IF missed # <<>> THEN missed[2]
         ELSE [x \in Names |-> IF x \in assigned THEN env[x] ELSE "unset"]

\* A read of a slot is never an error, be it by a def that is called before the global
\* it reads has been assigned: there Python raises and the C++ goes on.
CppExpr == /\ AtOneOf({"Expr", "Call"})
           /\ LET n == pc[2]
                  early == tree[n].kind = "Call" /\ tree[n].name \notin assigned
              IN missed' = IF missed = <<>> /\ early THEN <<n, PyEnv>> ELSE missed
           /\ CppGoto(<<"done", pc[2]>>)
           /\ UNCHANGED <<env, flags, assigned>>

CppAssign == /\ AtOneOf({"Assign", "Update"})
             /\ \E v \in Truth : env' = [env EXCEPT ![tree[pc[2]].name] = v]
             /\ assigned' = assigned \union {tree[pc[2]].name}
             /\ CppGoto(<<"done", pc[2]>>)
             /\ UNCHANGED <<flags, missed>>

CppReturn == /\ At("Return")
             /\ CppGoto(<<"returned", pc[2]>>)
             /\ UNCHANGED <<env, flags, assigned, missed>>

\* { bool _cy_broke_d = false; while (...) {
CppEnterLoop == /\ At("While")
                /\ CppGoto(<<"test", pc[2]>>)
                /\ flags' = [flags EXCEPT ![pc[2]] = FALSE]
                /\ UNCHANGED <<env, assigned, missed>>

CppBranch(n, otherwise) ==
  \E b \in Outcomes(tree[n].guard) :
    CppGoto(IF b THEN Enter(n, "body", otherwise) ELSE otherwise)

CppIf == /\ At("If")
         /\ CppBranch(pc[2], Enter(pc[2], "orelse", <<"done", pc[2]>>))
         /\ UNCHANGED <<env, flags, assigned, missed>>

CppTest == /\ phase = "run" /\ pc[1] = "test"
           /\ CppBranch(pc[2], <<"after", pc[2]>>)
           /\ UNCHANGED <<env, flags, assigned, missed>>

\* } if (!_cy_broke_d) { the else }
AfterLoop(n) == IF HasElse(n) /\ ~flags[n] THEN Enter(n, "orelse", <<"done", n>>)
                ELSE <<"done", n>>
CppAfter == /\ phase = "run" /\ pc[1] = "after"
            /\ CppGoto(AfterLoop(pc[2]))
            /\ UNCHANGED <<env, flags, assigned, missed>>

\* The flag a break names is the one of the innermost block that declares the name.
Declarers(n) == {m \in tree[n].within : tree[m].kind = "While" /\ flag[m] = flag[n]}
Declarer(n) == CHOOSE m \in Declarers(n) : \A k \in Declarers(n) : k <= m

CppBreak == /\ At("Break")
            /\ LET n == pc[2]
               IN flags' = IF flag[n] = NoFlag THEN flags
                           ELSE [flags EXCEPT ![Declarer(n)] = TRUE]
            /\ CppGoto(<<"after", tree[pc[2]].loop>>)
            /\ UNCHANGED <<env, assigned, missed>>

CppContinue == /\ At("Continue")
               /\ CppGoto(<<"test", tree[pc[2]].loop>>)
               /\ UNCHANGED <<env, flags, assigned, missed>>

CppNext ==
  /\ phase = "run" /\ pc[1] = "done"
  /\ LET n == pc[2]
         up == tree[n].up
         later == Later(tree, n)
     IN CppGoto(CASE later # {} -> <<"exec", FirstOf(later)>>
                  [] later = {} /\ up = 0 -> <<"ended", 0>>
                  [] later = {} /\ up # 0 /\ tree[up].kind = "While" /\ tree[n].arm = "body"
                       -> <<"test", up>>
                  [] OTHER -> <<"done", up>>)
  /\ UNCHANGED <<env, flags, assigned, missed>>

Init == /\ ProgInit
        /\ emitted = 0 /\ loop_depth = 0 /\ loop_has_else = FALSE
        /\ outer = <<>> /\ flag = <<>>
        /\ flags = <<>> /\ assigned = {} /\ missed = <<>>

Emit == \/ LeaveLoopBody
        \/ \E n \in Nodes : EmitWhile(n) \/ EmitBreak(n) \/ RefuseFor(n) \/ EmitPlain(n)

CppRun == \/ CppExpr \/ CppAssign \/ CppReturn \/ CppEnterLoop \/ CppIf \/ CppTest
          \/ CppAfter \/ CppBreak \/ CppContinue \/ CppNext

Finished == \/ phase = "refused"
            \/ phase = "parse" /\ WholeProgram /\ ~NamesDefined
            \/ Over

Next == \/ Parse /\ UNCHANGED <<emitVars, flags, assigned, missed>>
        \/ CheckReads
        \/ Emit
        \/ CppBegin
        \/ CppRun
        \/ Finished /\ UNCHANGED vars

Spec == Init /\ [][Next]_vars

-----------------------------------------------------------------------------
(* Properties.                                                             *)

\* The run of the emitted program is a run of the Python: the same statements in the
\* same order on the same values, and no read of a name CPython would raise for.
\* It ends where Python raises for a def that is called too early.
PyPhase == IF phase \in {"emit", "refused"} THEN "parse" ELSE phase
PyPc == CASE missed # <<>> -> <<"raised", missed[1]>>
          [] missed = <<>> /\ pc[1] = "test" -> <<"exec", pc[2]>>
          [] missed = <<>> /\ pc[1] = "after" -> AfterLoop(pc[2])
          [] OTHER -> pc
Py == INSTANCE PyProgram WITH
  decl <- decl, tree <- tree, phase <- PyPhase, pc <- PyPc, env <- PyEnv
Implements == Py!ProgSpec

\* A break names a flag only if its own loop declared one of that name, and an inner
\* loop does not hide it: otherwise the C++ does not compile, or skips another's else.
BreakFindsItsFlag ==
  phase \in {"emit", "run"} =>
    \A n \in 1..emitted : tree[n].kind = "Break" =>
      IF HasElse(tree[n].loop) THEN Declarers(n) # {} /\ Declarer(n) = tree[n].loop
      ELSE flag[n] = NoFlag

\* What a def reads has a value by the time the module's body has ended, whichever way
\* the body went (module_unbound_).
GlobalsOfDefsAreBoundAtTheEnd ==
  phase = "run" /\ pc[1] = "ended" => names_read_by_defs \subseteq assigned
=============================================================================
