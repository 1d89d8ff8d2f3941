------------------------- MODULE EmittedExpressions -------------------------
(***************************************************************************)
(* The C++ that emitter_expressions.cpp writes for expressions and         *)
(* emitter_statements.cpp for straight-line statements, what it computes   *)
(* with the runtime library, and what CPython computes.                    *)
(*                                                                         *)
(* Expressions are built bottom up.  An operand on the stack records the   *)
(* type the checker gives it (the TypeMap), the C++ type of the text       *)
(* emitted for it, what CPython makes of it and every outcome the C++ may  *)
(* have.  An outcome is a value and the trace of the calls made on the     *)
(* way.  Its marks name the known divergences it has met: a double rounded *)
(* once too often, a name read under a narrowing, two effects in one call, *)
(* and the literal 2^63, alone and under the minus that traps on it.       *)
(* A program the checker reports or the emitter refuses writes no C++:     *)
(* there the guards stop.                                                  *)
(***************************************************************************)
EXTENDS OperatorRules, PythonNumbers

CONSTANTS
  Names,             \* variables
  Defs,              \* from the name of a def f(p: S) -> T to <<S, T>>; it prints its
                     \* name and returns p
  Declarable,        \* the types a variable may be declared with
  Literals,          \* literals, as values
  MaxOperands,       \* bound: operands on the stack
  MaxNodes,          \* bound: nodes of a program
  MaxExponent,       \* bound: exponents of **
  MaxNumerator,      \* bound: of a double that is computed with
  MaxDenominator     \* bound: of a double that is computed with

VARIABLES
  operands,          \* the operands emitted and not yet used
  slots,             \* Names -> what is known of the variable and what it holds
  nodes,             \* nodes so far
  phase              \* "running"; "done" after an uncaught exception
  
vars == <<operands, slots, nodes, phase>>

\* The types the emitter writes in C++.
Scalars == {of(kind) : kind \in {"Bool", "Int", "Float", "Str", "NoneType"}}

ASSUME BoundsAssumption ==
  /\ {MaxOperands, MaxNodes, MaxExponent} \subseteq Nat
  /\ {MaxNumerator, MaxDenominator} \subseteq Nat \ {0}

\* A def returns its parameter, which the checker lets through only where T takes an S.
ASSUME DefsAssumption ==
  /\ Declarable \subseteq Scalars
  /\ \A f \in DOMAIN Defs :
       {Defs[f][1], Defs[f][2]} \subseteq Scalars /\ is_subtype(Defs[f][1], Defs[f][2], NoClasses)

\* A literal has no sign, and that of a float is the nearest double.
ASSUME LiteralsAssumption ==
  \A v \in Literals :
    \/ v \in {bool_(TRUE), bool_(FALSE), none}
    \/ v.n \in Nat /\ v \in {int_(v.n), str(v.n)}
    \/ v.n \in Nat /\ v.d \in Nat \ {0} /\ v = Round(v.n, v.d)

\* The doubles that are computed with stay clear of the infinities and of the subnormal
\* numbers, which Round leaves out.
ASSUME RangeAssumption ==
  LET digits == TwoTo[Significand]
      most == TwoTo[ExponentRange]
  IN /\ 4 * (MaxNumerator * MaxNumerator) < digits * most
     /\ 4 * (MaxNumerator * MaxDenominator) < digits * most
     /\ digits * (MaxNumerator * MaxDenominator) <= most
     /\ digits * (MaxDenominator * MaxDenominator) <= most
     /\ Power(MaxNumerator, MaxExponent) < digits * most
     /\ digits * Power(MaxDenominator, MaxExponent) <= most

cpp_type_name(type) ==
  CASE type.kind = "Bool" -> "py::bool_" [] type.kind = "Int" -> "py::int_"
    [] type.kind = "Float" -> "py::float_" [] type.kind = "Str" -> "py::str"
    [] type.kind = "NoneType" -> "py::none_t" [] OTHER -> "nullopt"
Representable(type) == cpp_type_name(type) # "nullopt"
IllFormed == "ill-formed"

-----------------------------------------------------------------------------
(* Outcomes.                                                               *)

Outcome(trace, v) == [trace |-> trace, value |-> v]

\* first is evaluated before second; a failure ends the program there.
Then(first, second, Op(_, _)) ==
  IF Failed(first.value) THEN first
  ELSE Outcome(first.trace \o second.trace,
               IF Failed(second.value) THEN second.value ELSE Op(first.value, second.value))

\* Two arguments of a C++ call: either may be evaluated first.
AsArguments(lefts, rights, Op(_, _)) ==
  {Then(pair[1], pair[2], Op) : pair \in lefts \X rights}
  \union {Then(pair[2], pair[1], LAMBDA y, x : Op(x, y)) : pair \in lefts \X rights}

Mapped(outcome, Op(_)) ==
  IF Failed(outcome.value) THEN outcome ELSE Outcome(outcome.trace, Op(outcome.value))

Effects(outcome) == outcome.trace # <<>> \/ Failed(outcome.value)

-----------------------------------------------------------------------------
(* The overloads of the runtime library, on the C++ types of the arguments.*)

Numeric == {"py::int_", "py::float_"}
Comparable == Numeric \union {"py::bool_"}

BinaryOverload(op, l, r) ==
  LET numbers == {l, r} \subseteq Numeric
      power == op = "**" /\ l \in Numeric /\ r = "py::int_"
      arithmetic == op \notin {"**", "/"} /\ numbers
      text == \/ op = "+" /\ {l, r} = {"py::str"}
              \/ op = "*" /\ {l, r} = {"py::str", "py::int_"}
  IN CASE power -> l
       [] op = "/" /\ numbers -> "py::float_"
       [] arithmetic -> IF "py::float_" \in {l, r} THEN "py::float_" ELSE "py::int_"
       [] text -> "py::str"
       [] OTHER -> IllFormed

UnaryOverload(op, t) ==
  IF op = "not" THEN "py::bool_" ELSE IF t \in Numeric THEN t ELSE IllFormed

CompareOverload(l, r) ==
  IF {l, r} \subseteq Comparable \/ {l, r} = {"py::str"} THEN "py::bool_" ELSE IllFormed

\* and_ and or_ take the type of the first argument; the second's must be the same.
LogicOverload(l, r) == IF l = r THEN l ELSE IllFormed

-----------------------------------------------------------------------------
(* Widening: a call of the runtime library around the text of a value.     *)

numeric_widening_function(from, to) ==
  LET ranks == <<numeric_rank(from.kind), numeric_rank(to.kind)>>
  IN IF 0 \in {ranks[1], ranks[2]} \/ ranks[1] >= ranks[2] THEN "nullptr"
     ELSE IF to.kind = "Int" THEN "py::to_int" ELSE "py::to_float"

Wrapped(e, widen) ==
  CASE widen = "py::to_int" ->
         [e EXCEPT !.cpp = IF e.cpp \in {"py::bool_", "py::int_"} THEN "py::int_" ELSE IllFormed,
                   !.runs = {Mapped(r, to_int) : r \in e.runs}]
    [] widen = "py::to_float" ->
         [e EXCEPT !.cpp = IF e.cpp \in Comparable THEN "py::float_" ELSE IllFormed,
                   !.runs = {Mapped(r, to_float) : r \in e.runs}]
    [] OTHER -> e

\* Mutant of OperandWidened: the operand as it is.
OperandUnwidened(e, result) == e

OperandWidened(e, result) ==
  IF e.type.kind = "Bool" /\ result.kind # "Bool" THEN Wrapped(e, "py::to_int") ELSE e

\* A value that neither has the slot's type nor widens to it is refused.
ValueFits(e, target) ==
  numeric_widening_function(e.type, target) # "nullptr"
    \/ cpp_type_name(e.type) = cpp_type_name(target)

ValueWidened(e, target) == Wrapped(e, numeric_widening_function(e.type, target))
Stores(e, target) == ValueWidened(e, target).cpp = cpp_type_name(target)

-----------------------------------------------------------------------------
(* Expressions.                                                            *)

NoSlot == [declared |-> Unknown]
IsBound(x) == slots[x] # NoSlot

Init ==
  /\ operands = <<>>
  /\ slots = [x \in Names |-> NoSlot]
  /\ nodes = 0
  /\ phase = "running"

Top(k) == operands[Len(operands) - k]

\* The last count operands become the one node e.
Replace(count, e) ==
  /\ nodes < MaxNodes
  /\ Abs(e.py.value.n) <= MaxNumerator /\ e.py.value.d <= MaxDenominator
  /\ nodes' = nodes + 1
  /\ operands' = Append(SubSeq(operands, 1, Len(operands) - count), e)
  /\ UNCHANGED <<slots, phase>>

\* 2^63 has no place but under a minus.
Ready(count) ==
  /\ phase = "running"
  /\ Len(operands) >= count
  /\ \A i \in DOMAIN operands : "limit" \notin operands[i].marks

\* An integer literal that is too large for int64_t wraps where the C++ converts it.
Literal(v) ==
  LET fits == v.tag # "Int" \/ v.n <= MaxInt
  IN [type |-> of(v.tag), cpp |-> cpp_type_name(of(v.tag)), py |-> Outcome(<<>>, v),
      runs |-> {Outcome(<<>>, IF fits THEN v ELSE int_(MinInt))},
      bare_int |-> v.tag = "Int", marks |-> IF fits THEN {} ELSE {"limit"}]

Constant ==
  /\ Ready(0) /\ Len(operands) < MaxOperands
  /\ \E v \in Literals :
       /\ v.tag = "Int" => v.n <= MaxInt + 1
       /\ Replace(0, Literal(v))

Name ==
  /\ Ready(0) /\ Len(operands) < MaxOperands
  /\ \E x \in Names :
       /\ IsBound(x)
       /\ Representable(slots[x].read)
       /\ Replace(0, [type |-> slots[x].read, cpp |-> cpp_type_name(slots[x].declared),
                      py |-> Outcome(<<>>, slots[x].py), runs |-> {Outcome(<<>>, slots[x].cpp)},
                      bare_int |-> FALSE,
                      marks |-> slots[x].marks \union
                                  (IF slots[x].read = slots[x].declared THEN {}
                                   ELSE {"narrowed"})])

Node(type, cpp, py, runs, marks) ==
  [type |-> type, cpp |-> cpp, py |-> py, runs |-> runs, bare_int |-> FALSE, marks |-> marks]

UnaryRun(op, v) ==
  CASE op = "not" -> bool_(~truthy(v)) [] op = "-" -> neg(v) [] op = "+" -> pos(v)

UnaryOp ==
  /\ phase = "running" /\ operands # <<>>
  /\ \E op \in {"+", "-", "not"} :
       LET e == Top(0)
           result == unary_result(op, e.type)
           operand == IF op = "not" THEN e ELSE OperandWidened(e, result.type)
       IN /\ "limit" \in e.marks => op = "-"
          /\ result.status = "Ok" /\ (op = "not" \/ Representable(result.type))
          /\ Replace(1, Node(result.type, UnaryOverload(op, operand.cpp),
                             Mapped(e.py, LAMBDA v : PyUnary(op, v)),
                             {Mapped(r, LAMBDA v : UnaryRun(op, v)) : r \in operand.runs},
                             IF "limit" \in e.marks THEN {"trapped"} ELSE e.marks))

BinaryRun(op, a, b) ==
  CASE op = "+" -> add(a, b) [] op = "-" -> sub(a, b) [] op = "*" -> mul(a, b)
    [] op = "/" -> truediv(a, b) [] op = "//" -> floordiv(a, b) [] op = "%" -> mod(a, b)
    [] op = "**" -> pow(a, b)

\* Where a double in between is known to be rounded once more than in CPython.
RoundedTwice(op, a, b) ==
  /\ ~Failed(a) /\ ~Failed(b) /\ b.n # 0
  /\ \/ op = "/" /\ BothIntegral(a, b) /\ ~(Exact(a.n, 1) /\ Exact(b.n, 1))
     \/ /\ op = "//" /\ ~BothIntegral(a, b)
        /\ LET x == as_double(a)
               y == as_double(b)
           IN ~Exact(x.n * y.d * (IF y.n < 0 THEN -1 ELSE 1), x.d * Abs(y.n))

PairMarks(l, r) ==
  l.marks \union r.marks
    \union (IF Effects(l.py) /\ Effects(r.py) THEN {"unsequenced"} ELSE {})

BinOp ==
  /\ Ready(2)
  /\ \E op \in {"+", "-", "*", "/", "//", "%", "**"} :
       LET l == Top(1)
           r == Top(0)
           result == binary_result(op, l.type, r.type)
           lw == OperandWidened(l, result.type)
           rw == OperandWidened(r, result.type)
           marks == IF RoundedTwice(op, l.py.value, r.py.value) THEN {"rounded"} ELSE {}
       IN /\ result.status = "Ok" /\ Representable(result.type)
          /\ op = "%" => l.type.kind # "Str"
          /\ op = "**" => /\ r.bare_int /\ r.py.value.n <= MaxExponent
                          /\ Representable(l.type)
          /\ Replace(2, Node(result.type, BinaryOverload(op, lw.cpp, rw.cpp),
                             Then(l.py, r.py, LAMBDA a, b : PyBinary(op, a, b)),
                             AsArguments(lw.runs, rw.runs, LAMBDA a, b : BinaryRun(op, a, b)),
                             PairMarks(l, r) \union marks))

comparison_operands_are_runtime_comparable(left, right) ==
  \/ {left.kind, right.kind} \subseteq {"Bool", "Int", "Float"}
  \/ {left.kind, right.kind} = {"Str"}

CompareRun(op, l, r, a, b) ==
  IF op = "<" THEN bool_(compare(a, l.cpp, b, r.cpp) = -1)
  ELSE bool_(compare(a, l.cpp, b, r.cpp) = 0)

Compare ==
  /\ Ready(2)
  /\ \E op \in {"<", "=="} :
       LET l == Top(1)
           r == Top(0)
           result == comparison_result(op, l.type, r.type)
       IN /\ result.status = "Ok"
          /\ comparison_operands_are_runtime_comparable(l.type, r.type)
          /\ Replace(2, Node(result.type, CompareOverload(l.cpp, r.cpp),
                             Then(l.py, r.py, LAMBDA a, b : PyCompare(op, a, b)),
                             AsArguments(l.runs, r.runs, LAMBDA a, b : CompareRun(op, l, r, a, b)),
                             PairMarks(l, r)))

\* a < b == c in one lambda: b is evaluated once, c only if a < b.
Links(a, b, c, First(_, _), Second(_, _)) ==
  LET link == Then(a, b, First)
  IN IF Failed(link.value) \/ ~truthy(link.value) THEN link
     ELSE Then(Outcome(link.trace, b.value), c, Second)

CompareChain ==
  /\ Ready(3)
  /\ LET a == Top(2)
         b == Top(1)
         c == Top(0)
         results == {comparison_result("<", a.type, b.type), comparison_result("==", b.type, c.type)}
         overloads == {CompareOverload(a.cpp, b.cpp), CompareOverload(b.cpp, c.cpp)}
     IN /\ \A result \in results : result.status = "Ok"
        /\ comparison_operands_are_runtime_comparable(a.type, b.type)
        /\ comparison_operands_are_runtime_comparable(b.type, c.type)
        /\ Replace(3, Node(of("Bool"),
                           IF IllFormed \in overloads THEN IllFormed ELSE "py::bool_",
                           Links(a.py, b.py, c.py, LAMBDA v, w : PyCompare("<", v, w),
                                 LAMBDA v, w : PyCompare("==", v, w)),
                           {Links(run[1], run[2], run[3],
                                  LAMBDA v, w : CompareRun("<", a, b, v, w),
                                  LAMBDA v, w : CompareRun("==", b, c, v, w))
                              : run \in a.runs \X b.runs \X c.runs},
                           a.marks \union b.marks \union c.marks))

Logic(op, l, r) ==
  IF Failed(l.value) \/ truthy(l.value) = (op = "or") THEN l
  ELSE Outcome(l.trace \o r.trace, r.value)

PyLogic(op, l, r) ==
  CASE Failed(l.value) -> l
    [] l.value.n # 0 /\ op = "or" -> l
    [] l.value.n = 0 /\ op = "and" -> l
    [] OTHER -> Outcome(l.trace \o r.trace, r.value)

BoolOp ==
  /\ Ready(2)
  /\ \E op \in {"and", "or"} :
       LET l == Top(1)
           r == Top(0)
           result == boolop_result(<<l.type, r.type>>)
       IN /\ result.status = "Ok" /\ Representable(result.type)
          /\ Replace(2, Node(result.type, LogicOverload(l.cpp, r.cpp), PyLogic(op, l.py, r.py),
                             {Logic(op, pair[1], pair[2]) : pair \in l.runs \X r.runs},
                             l.marks \union r.marks))

\* f(e), where def f(p: S) -> T prints and returns p.
Call ==
  /\ Ready(1)
  /\ \E f \in DOMAIN Defs :
       LET e == Top(0)
           argument == ValueWidened(e, Defs[f][1])
           Calls(o) == IF Failed(o.value) THEN o ELSE Outcome(Append(o.trace, f), o.value)
       IN /\ is_subtype(e.type, Defs[f][1], NoClasses)
          /\ ValueFits(e, Defs[f][1])
          /\ Replace(1, Node(Defs[f][2],
                             IF Stores(e, Defs[f][1]) THEN cpp_type_name(Defs[f][2]) ELSE IllFormed,
                             Calls(e.py), {Calls(r) : r \in argument.runs}, e.marks))

-----------------------------------------------------------------------------
(* Statements.                                                             *)

\* What x holds once e is stored in its slot; an exception ends the program.
Store(x, e, declared, read) ==
  LET stored == {r.value : r \in ValueWidened(e, declared).runs}
  IN /\ Ready(1) /\ Len(operands) = 1
     /\ operands' = <<>>
     /\ IF Failed(e.py.value) \/ \E v \in stored : Failed(v)
        THEN phase' = "done" /\ UNCHANGED <<slots, nodes>>
        ELSE /\ \E v \in stored :
                  slots' = [slots EXCEPT ![x] =
                              [declared |-> declared, read |-> read, py |-> e.py.value, cpp |-> v,
                               compiles |-> Stores(e, declared),
                               marks |-> e.marks \ {"unsequenced"}]]
             /\ UNCHANGED <<nodes, phase>>

AnnAssign ==
  \E x \in Names, T \in Declarable :
    /\ Len(operands) = 1 /\ ~IsBound(x)
    /\ is_subtype(Top(0).type, T, NoClasses)
    /\ ValueFits(Top(0), T)
    /\ Store(x, Top(0), T, T)

\* The first assignment declares the slot; a later one also narrows what a read of the
\* name is taken to be.
Assign ==
  \E x \in Names :
    /\ Len(operands) = 1 /\ Top(0).type # NoneType
    /\ LET e == Top(0)
           declared == IF IsBound(x) THEN slots[x].declared ELSE e.type
       IN /\ is_subtype(e.type, declared, NoClasses)
          /\ ValueFits(e, declared)
          /\ Store(x, e, declared, e.type)

\* print(e) or print(d, e).
ExprStmt ==
  /\ Ready(1) /\ Len(operands) <= 2
  /\ operands' = <<>>
  /\ phase' = IF \E i \in DOMAIN operands : Failed(operands[i].py.value) THEN "done" ELSE phase
  /\ UNCHANGED <<slots, nodes>>

Next ==
  \/ Constant \/ Name \/ UnaryOp \/ BinOp \/ Compare \/ CompareChain \/ BoolOp \/ Call
  \/ AnnAssign \/ Assign \/ ExprStmt

Spec == Init /\ [][Next]_vars

-----------------------------------------------------------------------------
(* Properties.                                                             *)

Operands == {operands[i] : i \in DOMAIN operands}
SetSlots == {slots[x] : x \in {y \in Names : IsBound(y)}}

\* The text written for an expression has the C++ type the checker's type spells, and a
\* slot takes the text stored in it, as long as no name is read that an assignment has
\* narrowed: no third state between refused and compiled.
CompilesUnlessNarrowed ==
  /\ \A e \in Operands : "narrowed" \notin e.marks => e.cpp = cpp_type_name(e.type)
  /\ \A s \in SetSlots : "narrowed" \notin s.marks => s.compiles

\* What the compiled program computes is the object CPython computes, of the same class,
\* after the same calls, or the same failure: over the edges of int64_t, ints that no
\* double represents, bools, strings, short circuits and chains.
ComputesWhatPythonComputes ==
  \A e \in Operands :
    e.marks \intersect {"limit", "trapped", "rounded", "unsequenced"} = {} => e.runs = {e.py}

\* The same where both operands have effects.
EvaluatedInOrder ==
  \A e \in Operands :
    e.marks \intersect {"limit", "trapped", "rounded"} = {} => e.runs = {e.py}

\* The checker's type of an expression or a name admits the class the object really has,
\* whatever was declared, widened or narrowed on the way.
TypesTellTheClass ==
  /\ \A e \in Operands :
       Failed(e.py.value) \/ is_subtype(of(e.py.value.tag), e.type, NoClasses)
  /\ \A s \in SetSlots :
       is_subtype(of(s.py.tag), s.read, NoClasses) /\ is_subtype(s.read, s.declared, NoClasses)

\* An annotation constrains and does not coerce: a slot of a wider type holds the object
\* that was stored, not a conversion of it.
SlotsHoldTheObject == \A s \in SetSlots : "rounded" \notin s.marks => s.cpp = s.py
=============================================================================
