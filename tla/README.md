# Cythonpp in TLA+

Cythonpp compiles Python written under `mypy --strict` to one C++ file per source. Its
contract (`src/README.md:17-21`) is that a compiled program does what the same script does
under CPython, and that a program the compiler is not sure of is refused. The models here ask
where that contract is hard to keep: in what the checker believes about control flow and about
types, in what it declares for classes, in the lowering of Python statements and expressions to
C++ slots, loops and operators, in the runtime's arithmetic, in the block structure recovered
from whitespace, and in what a run leaves on disk when something fails.

Source paths below are those of the repository, which lies under `src/`: its C++ sources are
in `src/src/`, the runtime library in `src/runtime/`.

## Inventory

The compiler is a sequence of passes without threads. What makes it hard is not concurrency
but facts computed in one place and relied on in another.

| Component | State | Operations | Hard behaviour | What makes it correct |
|---|---|---|---|---|
| Scanner `domain/lexer/lexer.cpp` | cursor, `at_line_start_`, `line_has_content_`, bracket and annotation context | one per kind of token; start and end of line; `finish` | blank lines, comments, joined lines, unmatched brackets | tokens measure the line they stand on; a NEWLINE ends exactly the lines with content |
| `ScanContext` | bracket stack, lambda depths, annotation and block-header flags | `observe` per token | which colon opens an annotation | a name in an annotation, and no other, is read as a type |
| `IndentationPass` | stack of levels, pending measurement, diagnostics | one per token kind, `close_line`, `flush` | recovery after an inconsistent dedent, tabs | balanced output; one reading of an accepted text |
| `TokenStream`, `StatementParser`, `ExpressionParser` | cursor, tree under construction | one per grammar rule, `synchronize`, `skip_unexpected_block` | resynchronizing once per error | progress; no statement lost that was right |
| `DiagnosticSink` | diagnostics, suppression depth | `report`, push and pop of a suppression | nested regions | only diagnostics of dead code are dropped |
| `TypeChecker`: control flow | loop and function flags | the three control-flow questions, suites under suppression | mutually recursive questions about a tree | nothing it takes for dead runs |
| `TypeChecker`: names and narrowing | scopes, `NarrowingMap`, placeholders, partial `None`s | declaration and store of a name, snapshot, join, restore | joins behind arms that leave, loops typed once, dead arms | a slot admits what is stored in it, a read holds what it claims |
| `ClassTable`, `TypeChecker`: classes | entries, aliases, shadowed names, members, methods | collect, validate, read a body, declare a member, look up, constructor's band | classes of functions, several bases, order of declarations | a name stands for the class Python finds; attributes admit what is stored |
| `type_compatibility`, `operator_rules` | none | assignability, equivalence, join, one rule per operator | unions, aliases, builtin bases, `None` | the relations are what their users take them for |
| `Emitter`: statements | output, `bound_`, `module_unbound_`, `loop_depth_`, `loop_has_else_` | one visit per node; `check_definite_assignment` | a C++ slot default-constructs where Python raises; loops with else | the emitted program runs as the Python runs |
| `Emitter`: expressions | the operands' texts and C++ types | one visit per node, widening | one C++ expression of one type, evaluated in Python's order | the text compiles, and computes what Python computes |
| Runtime `src/runtime/cythonpp` | none | arithmetic, comparison, truth, printing | overflow, floor division, modulo, mixed comparison, tags | Python's results or a trap |
| `CompilePipeline` | the modules' artifacts, one verdict | `compile_one`, `compile_file`, `compile_directory` | a stage after a failed stage | errors are real, output comes from sound input |
| `CliAdapter`, file adapters | files on disk, exit status | `run`, `write_emitted_sources`, `remove_stale_target_if_ours` | failed reads and writes, kills, stale targets, the user's own files | targets match sources, the user's files survive, the exit status is true |

Passes call each other in one direction (pipeline -> scanner -> indentation -> parser ->
checker -> emitter -> writer) and share a `DiagnosticSink` per module. Three connections run
across: the emitter leaves out a final return because the checker has asked for one
(`always_returns`); it writes an expression at the types the checker noted in the `TypeMap`; and
everything after the checker relies on its diagnostics not having been suppressed in code that
does run.

`PROJECT.json` lists the components with their status, and under `hazards` what a test of
this code would hardly reach, each at its line.

## Modules

| Module | Models | Extends |
|---|---|---|
| `PyProgram` | A body of statements as the parser builds it, and its execution by CPython | |
| `PyProgramProofs` | Induction over its trees, and what the place of a statement says of its surroundings | `PyProgram`, `TLAPS` |
| `Reachability` | The control-flow questions of `type_checker.cpp` and what is done with the answers | `PyProgram` |
| `Types` | `type.h` and `type_compatibility.cpp`: types, assignability, equivalence, join | |
| `Narrowing` | Declarations, stores, reads and joins of names in `type_checker.cpp`, `narrowing_map.cpp` and `scope_stack.cpp` | `Reachability`, `Types` |
| `NarrowingProofs` | Proofs about it and about `Reachability` | `Narrowing`, `PyProgramProofs`, `SequenceTheorems` |
| `OperatorRules` | `operator_rules.cpp` | `Types` |
| `Display` | `type_of_list`: the fold over a display | `OperatorRules` |
| `ClassTable` | `class_table.cpp/.h`, `class_lookup.h`, rows of `builtin_class_table.h` | `Types` |
| `ClassBodies` | The checker's passes over classes, and Python's reading of the same program | `ClassTable` |
| `RuntimeNumbers` | `int_.h`, `float_.h`, `bool_.h`, `compare.h`, `logic.h`, `str.h` | |
| `PythonNumbers` | Python's arithmetic on the same values | `RuntimeNumbers` |
| `EmittedExpressions` | `emitter_expressions.cpp` and straight-line statements of `emitter_statements.cpp`, run in C++ and in Python | `OperatorRules`, `PythonNumbers` |
| `EmittedExpressionsProofs` | Proofs about it, and about the arithmetic it rests on | `EmittedExpressions`, `TLAPS` |
| `EmitterFlow` | `check_definite_assignment`, the lowering of statements and loops, the emitted program's run; implements `PyProgram` | `PyProgram` |
| `EmitterFlowProofs` | Proofs about it, the refinement among them | `EmitterFlow`, `PyProgramProofs` |
| `BlockLayout` | What a reader of Python's block structure is promised | |
| `IndentationPass` | `indentation_pass.cpp`; implements `BlockLayout` twice | |
| `IndentationPassProofs` | Proofs about it | `IndentationPass`, `TLAPS` |
| `Lexer` | How `lexer.cpp` divides a text into lines | |
| `LexerProofs` | Proofs about it | `Lexer`, `TLAPS` |
| `StatementParser` | Statements, suites and recovery of `statement_parser.cpp`, over the token cursor | |
| `StatementParserProofs` | Proofs about it | `StatementParser`, `TLAPS` |
| `ExpressionParser` | `expression_parser.cpp`, `precedence_table.cpp`, `assignability.cpp` | |
| `LineParser` | Simple statements and headers of `statement_parser.cpp` | `ExpressionParser` |
| `ScanContext` | `scan_context.cpp` | |
| `PythonGrammar` | Python's grammar over the same tokens | |
| `LogicalLines` | Lines of text, as scanned and parsed, next to Python's reading | `LineParser`, `ScanContext`, instance of `PythonGrammar` |
| `EmitRun` | `compile_pipeline.cpp`, `cli_adapter.cpp` and the file adapters, over successive runs | |
| `EmitRunProofs` | Proofs about it | `EmitRun`, `TLAPS` |
| `MC*` | Instances for TLC | the module of that name; `MCClassBodies` extends `Display` too |

### PyProgram

`decl` says whether the body is a def's or a module's, which names are followed, which kinds
of statement and which values it is made of, and how large it may be; it is chosen once out of
`Decls`. `tree` is a sequence of statement records in source order with the number of the
enclosing statement (`up`), the arm it stands in, and its loop. A statement is reduced to its
kind, its guard, the name it binds or reads, and the value it stores. `Parse` adds one statement
where the grammar allows one, so TLC visits every tree up to the declaration's size. The second
half of the module is Python, not the repository: `pc` and `env` execute the tree, with an
arbitrary outcome for every opaque guard and every iterable. `Update` is `x = x + 1`, `Declare`
is `x: object = 1` and `Call` is the call of a def that reads the name. `Readers` raise on a
name that has no value.

### Reachability

Three mutually recursive questions are asked of a tree: `statement_always_leaves`,
`contains_reachable_break`, `always_returns`. Each answer depends on a statement and what is
inside it only, so `Tabulated`, a recursive function, computes them from the last statement to
the first; recursion becomes a look into the table. `Check` is `check_suite` over the whole
tree: it tabulates, and records in `hidden` the statements visited under a
`DiagnosticSuppression`. After that the tree is executed. The properties compare each belief
with the execution: nothing hidden runs, a function that is not reported for a missing return
does not end without one, a loop cleared of breaks is not left by one, and an arm dropped from
the join of an `if` is not come out of.

### Types, OperatorRules and Display

A type is the record of `type.h`: kind, class name, arguments. `is_subtype`, `is_equivalent`
and `join` are translated clause by clause; a class table is what `ClassLookup` promises them,
bases and aliases, so that the relations stay independent of how the table is filled. An
operator's rule answers `Ok` with a type, `NotApplicable` or `Unsupported`, as `RuleResult` does,
and only the second becomes a TypeError. `Display` types the elements of a display one by one.
Its properties hold the parts against each other: the joined type admits every element in
whatever order, assignability is transitive through unions, the numeric tower, base chains that
end in a builtin, aliases and callables, and a narrower operand is taken wherever a wider one is.

### Narrowing

`TypeBody` is the visit of a body that `Reachability` has checked: which statement declares a
name (`pre_declared_` bindings and their placeholders), what a store does to the declared type
and to the narrowing, how the edges of `if`, `while` and `for` are joined, what a suite that
leaves restores, and what a partial `None` becomes. Then the body runs. `SlotAdmitsEveryValue`
says that the declared type, which is the C++ slot's, admits every object an execution stores;
`ReadHoldsWhatItClaims` that the narrowed type admits every object an execution reads;
`PrunedArmsDecideNothing` that an arm of an `if` which no run takes says nothing about the code
that runs: whichever of its assignments are written, live statements draw the same reports and
live reads have the same types. By the type of a read the statement it stands in draws a
TypeError or none, so the errors of the operators are compared with the rest.

The body of a loop is typed once, for its first round, and an edge a jump adds behind a loop is
left out of the join; `visit(While)` accepts both. The histories `again` and `escaped` say which
names this is about, and `ReadHoldsWhatItClaims` speaks of the others. `Settles` makes one more
exception: the assignment that fills a name's placeholder sets no narrowing, and so ends none
that the dead `else` of a loop has left behind. That one nothing accepts: it is the run
`dead_else`.

### ClassTable and ClassBodies

A program is a sequence of lines, `class` and `def` opening a block that `end` closes.
`collect_classes` declares the module's classes, `read_class_bodies` reads their bodies, then
`check_class`, `check_def`, `check_annotation`, `check_assignment`, `check_self_assignment`,
`check_self_annotation` and `check_end` visit the lines in order; a class of a function is
declared when its line is checked and taken back at the function's end. `reports` holds what was
reported, `stored` the stores into attributes that were let through. `NamesFollowScopes` compares
what a class name stands for at every line with Python's scopes; `AttributesAdmitEveryStore` and
`OverridesNarrow` what attributes and methods were declared at with what is stored and
overridden; `ConstructorTurnsAwayNoPythonCall` the constructor a call is checked against with
the one Python finds along its MRO.

### EmittedExpressions, RuntimeNumbers and PythonNumbers

Expressions are built bottom up on a stack. An operand carries the checker's type, the C++ type
of its text, what CPython makes of it, and the set of outcomes the C++ may have; where the
order of two arguments is unspecified in C++ both orders are in the set. `AnnAssign`, `Assign`
and `ExprStmt` use an operand up. The arguments of the `print(d, e)` of `ExprStmt` are those of
one C++ call too; no property looks at the order in which they are evaluated. A value keeps its
class as a tag in a slot of a wider type, as `numeric_tag.h` does. `MaxInt` and `Significand`
are parameters: an int of 6 bits and a double of 3 have the same edges as those of 64 and 53,
and TLC reaches them. Marks on an operand name the known divergences it has met; the properties
pass over the marked ones, and for one of them a run states the property without the exception
and shows the violation.

### EmitterFlow

`check_definite_assignment` is the walk that decides which reads are safe; `EmitWhile`,
`LeaveLoopBody` and `EmitBreak` are `visit(While)` and `visit(Break)` with `loop_depth_`,
`loop_has_else_` and the flag `_cy_broke_<depth>`; the `Cpp` actions run what was written, slots
default-constructed and reads unchecked. `Implements` says that this run, with a slot counted
as unset until it is assigned, is a run of `PyProgram`: the same statements on the same values,
and never past a read CPython would raise for. The refinement mapping hides the emitter's
phases and the loop's test and after-loop points. `EmitterAssumption`
says what is emitted at all: bodies the checker let through, which have no stray `return`,
`break` or `continue`; of a value its truth is followed; an annotated assignment is an
assignment. The walk of the reads is a recursive function, `walk`, from a statement to the end
of its suite.

### IndentationPass and BlockLayout

One action per kind of token, in any order, because the pass promises balance for any input.
`BlockLayout` is the reading by someone with one idea of how wide a tab is. `ColReadingSpec`
and `AltReadingSpec` map the pass's two measures onto it: text that draws no diagnostic has the
same meaning under both.

### Lexer

A character stands for what the scanner tells apart at a line's edge. `run` and `measuring` are
what `IndentationPass` makes of the tokens so far, `own` the indentation CPython gives the line.
`InputContract` is what `IndentationPass` relies on: its measurement is the line's own
(`LineMeasuresItself`), and both agree on where a line ends. With `LoneBackslash` a line may
hold nothing but a backslash, which is where the contract fails.

### StatementParser

A recursive-descent parser is a pushdown machine: `stack` holds its calls in progress and
`mode` the point the innermost one is at, so that a statement that fails unwinds through the
same callers as in the code. Tokens are chosen when the cursor reaches them, among those that
`IndentationPass` can put after the last one; a run therefore covers streams of any length, and
only the nesting is bounded. An expression is one token, or one that no rule accepts.
`line`, `errors`, `discarded` and a frame's
`reported` are histories for the properties: `SuitesMatchBlocks` says that after any recovery a
list reads at the depth of its own block; `FailureIsReported` that every silent `return nullptr`
is "already reported"; `RecoveryIsExact` that a failed line draws one diagnostic and recovery
throws away the rest of that line and nothing else, and that the guard at the end of
`parse_statement_list` never has to act on the streams of the lexer; `AcceptedIsComplete` that an
accepted text lost nothing.

### ExpressionParser, LineParser, ScanContext, PythonGrammar and LogicalLines

What `StatementParser` takes as one token is opened up here, within one logical line. A rule of
the recursive descent is an operator of the text and the cursor; it returns a tree or the
complaint it reported, and the cursor. A token is its type; of the twelve binary operators there
are four, of three levels, `T` is a name the scanner marked as a type's, and the complaints
that name a construct are told apart. `ScanContext` folds `observe` over the tokens before a
name. `PythonGrammar` is written the other way round, from the text to its parts, and gives the
set of trees a text has; it looks nothing ahead and reports nothing. `LogicalLines` builds the
texts: an expression is enclosed in one construct after the other, is put in a place of a
statement, and the line may then lose, double or swap a token. `AcceptedIsPython` says that
what the parser accepts has, in Python, the tree the parser built; `RefusedByName` that Python
it does not read is refused with the name of a construct in it; `NamesOfTypesAreMarked` that the
scanner, which has no parser, knows the names of annotations. These modules use `RECURSIVE`, as
the parser does, and have no theorems.

### EmitRun

A source text is a version and the set of stages that find an error in it. A run compiles its
inputs in order, then reconciles each target; the user edits sources at any time and touches
targets between runs; reads, opens, removals and writes fail, and `Kill` strikes anywhere. A
target is missing, foreign, or an artifact that records the text it was emitted from, whether
its marker line is there, and whether it is whole.

## Runs

| Run | Checks | Bounds |
|---|---|---|
| `checker` | what is believed about control flow and about the types of names, against every execution, and what dead arms say of live code | ten kinds of body, of 4 or 5 statements each; one name, values of two or three types |
| `classes` | names, attributes, overriding, constructors of classes; assignability, joins and operator rules over the elements of displays | four families of programs: up to 3 classes in a chain with 2 declarations each, diamonds, builtin bases, functions two deep; displays of 3 out of 35 types |
| `expr` | emitted expressions and straight-line statements, against CPython's values | 5 nodes, 3 operands, 2 variables, 2 defs; ints of 6 bits, doubles of 3 |
| `flow` | lowering of nested loops with else, reads of a local and of a global | 5 statements, 4 where `return` or globals come in |
| `indentation` | balance, order of the stack, both readings | columns to 10, 4 levels |
| `lexer` | line structure | width 3, 3 brackets, runs of 6 |
| `parser` | recovery: depth, reports, what is thrown away | 2 nested blocks, 5 calls in progress, streams of any length |
| `lines` | expressions, simple statements, headers and the marks of types, against Python's grammar | every construct in every other and in each of 20 places; slips in lines with one construct |
| `emit_project` | everything a run leaves behind | 2 files, 1 edit each, 5 sets of faults |

Why these are enough. The questions about a tree look at a statement, its suites and their
order: four statements hold a loop with a body and an else next to another statement, five hold
a loop inside the body or the else of a loop and a break in it, which is the deepest shape any
of the rules distinguishes. One tracked name is enough because no rule relates two. Two types a
name may hold make a join that is a union, the third, `None`, one that waits for its type;
dead arms that say something of live code need an assignment in the arm, one behind it and a
read: with the `if` that is four statements, and five with the `break` before a loop's `else`.
A display is checked in `classes` where there is no program. Its types have one of each kind
that a clause of the relations names, and two wherever a clause compares two (unions in both
orders, aliases, classes that share two bases), nested less than the `MaxNesting` of `Types`,
which is where its relations stop to recurse; three elements are what a fold needs to come out
differently by order, and what transitivity needs.
The families of `classes` put each of the ways to declare an attribute before and after each
other, in one class and along a chain; a diamond is the smallest hierarchy in which searching in
depth and searching in Python's order differ; a class hidden by a function within a function is
the deepest case the guards restore. In `expr` five nodes hold an operator on operators, a
chained comparison of three literals, and a store whose name is read again; with 6 bits there
are ints that a double of 3 bits cannot represent, quotients whose floor lies a rounding away,
and an overflow for every operator. A column of 10 is past one tab stop, so that a tab counts 8,
7 or 1, and four levels give a dedent that pops two of them above the sentinel. In `lexer` a
line's own width is 0 to 3, so two lines of different indentation meet. In `parser` two nested
blocks give a recovery that skips a block within a block it is not to leave, and five calls
hold an `if` with an `elif` in a suite of another statement. In `lines` two constructs around a
name put each operator on either side of each other one, and each clause and bracket in every
position of another; the marks of types and the choice of a rule look at one bracket and its
parent, or at one token ahead, so a third level repeats the second. Two files are the fewest for
which one can fail and the other not; one edit lets the text change between the run that wrote a
target and the run that judges it; the sets of faults put one in each stage and two in stages
that follow each other, so that each gate has something to hold back.

Three further runs are expected to fail, each on what a document or comment of the repository
says of the program (`findings` in `PROJECT.json`): `argument_order`, `continued` and
`dead_else`. All three were seen on the compiler itself. The output of `f() + g()` comes in
g++'s order of evaluation. After

    if flag:
        x = 1
        \

    y = 2

the assignment to `y` is compiled as part of the `if`. And of

    def f() -> None:
        while True:
            break
        else:
            x = "s"
        x = 1
        print(x + 1)

the compiler says that `str` and `int` cannot be added, in code that cannot go wrong: the `else`
is visited behind the loop's join (`type_checker.cpp:3927`) and narrows `x`, and the assignment
that fills the placeholder of `x` (`1885-1906`) leaves it narrowed. The comment at `3826-3832`
says that this read is an `int`. `DeadLoopArmsDecideNothing` is `PrunedArmsDecideNothing` asked
of the arms of loops.

### Fairness

No property is a liveness property, and no specification assumes fairness. The program is
sequential and waits for nothing: its passes are loops over tokens, over a tree or over the
modules of a run, each of which advances in every branch, so a statement that they end would
hold by construction. What can end too early, a run that fails or is killed, is in `EmitRun` as
a step that may come at any time.

## Known divergences

Places where the models and CPython part, met while modelling. A property that would trip over
one names it as an exception; what is not in `findings` is not contradicted by any document.

- Types: the C++ type a display gets depends on where a `None` stands among its elements; an
  index typed as a union of ints, or as a class on `int`, is a TypeError.
- Names: an assignment in an arm no run takes resolves a name bound to `None` (so the dead code
  does decide what the live code's slot holds). The dead `else` of a loop narrows a name past the
  assignment that declares it (`dead_else`). An `if` none of whose arms is come out of joins
  both of them all the same (`type_checker.cpp:3846-3850`); the code behind it is dead.
- Classes: lookup is depth first (`class_table.h:131-134`, `:515`), which in a diamond answers
  with the common base's method where a sibling overrides it, and bases Python has no order for
  are accepted. A builtin base before the class whose `__init__` Python finds makes the checker
  look at the builtin's arguments. A class-body assignment of an inherited attribute is compared
  with the base's declaration or with a method's store, not with both; an attribute of the
  second base is not compared; overriding methods are not compared; reading an attribute of
  self above its first store is `Unknown`; a local class may be used above its definition.
- Expressions: `-9223372036854775808` traps, the literal being one past the largest int before
  the minus is taken; the quotient of two ints past 2^53 is rounded twice; the floor of a
  float quotient is taken after rounding (`1.0 // 0.1`). The arguments of one `print` are those
  of one C++ call, evaluated in any order, as the operands of `+` are.
- Slots: after `w: float = 2.5` and `w = 3`, a read of `w` is typed and emitted as an `int`, and
  the C++ written for `v = w` gives an `int_` slot a `float_`, which does not compile
  (`type_checker.cpp:1988`; `emitter_statements.cpp:484-490` rules such a state out).
- Commas: `ends_a_sequence` (`expression_parser.cpp:71-77`) holds "where no further element can
  begin" but leaves out `;`, `=`, `:` and `+=`: `a, = z` and `for i in 1,:` are refused with
  "expected an expression". `x = y = 1` is refused as malformed, not by name; `[a, b] = z` is
  refused although Python takes a list for a target.
- Parameters: one without a default after one with a default is accepted. The grammar of
  `PythonGrammar` does not forbid it either: CPython does so in a rule apart.
- Loops: a loop's body is typed for its first round, and a `break` past a store is not joined.
- Runs: a file that cannot be read ends a run before another module's stale target is removed
  (`compile_pipeline.cpp:99`); a write that fails when the stream is closed is not noticed
  (`filesystem_output_writer.cpp:13`); no run has such a write, and the theorem about targets has
  it as a hypothesis. A target torn inside its first line is not recognised as generated.
- Globals: a def that reads a global, called before the assignment, reads a slot that has no
  value yet (`emitter_module.cpp:109`); the check is that no def of the module does so once the
  module has run.

## Proofs

TLAPS proves, for every value of the constants:

- `IndentationPassProofs`: the inductive invariant `IInv` and from it type correctness,
  `StackOrdered`, `Balanced`, `LineStandsAtItsLevel` (proved, and in no run) and both readings
  as refinements of `BlockLayout`. `Balanced` alone is not inductive: that a dedent returns as
  many DEDENTs as levels it pops is only useful when the balance is the depth of the stack
  (`BalanceIsDepth`); that the pop loop stops at the sentinel needs the order of columns; and
  the second reading needs the order in the other measure, which holds while nothing has been
  reported (`AltOrdered`), with a line never wider in that measure than in the first
  (`InBounds`).
- `LexerProofs`: `InputContract`, and that a NEWLINE closes a line with a token. `IInv` ties
  the scanner's flags and its bracket depth to what `IndentationPass` makes of the tokens so
  far: both agree on where a line begins and ends (`LinesAgree`), a bracket is open only on a
  line with a token (`BracketsInLines`), and whitespace is kept for the line it begins and for no
  other (`Measured`). The theorem has the hypothesis
  `~LoneBackslash`, that a backslash ends a line with a token on it; the run `continued` shows
  that without it the contract fails.
- `StatementParserProofs`: all four safety properties of `StatementParser`. What is proved about
  a recursive descent is an invariant over its calls in progress: a suite's list is one block
  deeper than the call that opened it and every other call in its caller's block (`Nested`), so
  that a failure, in whatever depth, unwinds to a list that stands where the cursor does
  (`Aligned`), but for the blocks recovery has still to skip. `FailureIsReported` needs that an
  error is known to every caller above it (`Traced`) and that a call with nothing to show has
  been told of one (`Accounted`); `RecoveryIsExact`, where in a line each `mode` has the cursor
  (`InPlace`, `LineKnown`).
- `EmitRunProofs`: `IInv` and from it type correctness, `ArtifactsComeFromAcceptedSources`,
  `NewContentNeedsCleanRun`, `HonestExit`, `NoInventedErrors`, `NoStaleTarget` and
  `ForeignKept`. The invariant ties each module's result to the text that was read
  (`Results`), the set still to do to the phase (`Progress`), and the verdict to the exit
  status (`EndedWell`); without `Results` nothing connects what is written to what was checked.
  `TargetsMatchInputs` follows under two hypotheses that the run's constants meet: inputs have
  targets of their own (`OwnTargets`), and no write is cut short (`WritesAreWhole`). Where
  inputs share a target and are written one after the other (`OneAfterTheOther`), it holds the
  whole translation of one of them.
- `NarrowingProofs`, control flow: all four properties of `Reachability`. `Tabulated` is shown
  to be a fixpoint of the checker's recursion (`TableOK`, `Answers`), so that the questions can
  be reasoned about clause by clause. The invariant of the run says of the place control is at
  that every statement around it is live (`Reached`), that the names its headers narrow are
  true (`Holding`), and that what has just completed was not said to leave (`Completed`). That
  the names stay true needs that a narrowed name is bound nowhere in its suite
  (`HeldIsNotBound`), and that a break that runs was found, an induction from the break out to
  its loop (`BreaksAreFound`).
- `NarrowingProofs`, types: `SlotAdmitsEveryValue` and `PrunedArmsDecideNothing`. A run of
  `TSpec` is a run of `Spec`, so what is proved of control flow holds of it. The first rests on
  the types a visit makes being well formed, on which `is_subtype` is the relation `Covers`, and
  on the visit being a walk from line to line: what stands behind a statement (`Behind`) is
  visited with what it left (`Own`, `End`). Then every store of live code is admitted by what the
  visit says at the end (`AllAdmit`, `Admitting`), and the run keeps that true (`TypedInv`). The
  second puts two visits side by side, of the same tree with and without some assignments of the
  arm: their bindings are equal and stay so everywhere (`InAccord`), and their narrowings are
  equal wherever no pruned arm is being visited (`Alike`), since the arm adds no edge to the join
  behind its `if`.
- `EmitterFlowProofs`: `BreakFindsItsFlag`, `GlobalsOfDefsAreBoundAtTheEnd`, and the refinement
  `Implements`: the C++ written for a body is a run of the Python. Three invariants carry it.
  While the body is written, the stack of loops being written is the chain of loops around the
  next statement, and a flag has the number of loops around its own (`EmitInv`), so no loop
  between a break and its own declares a flag of that name. While the program runs, there is for
  every statement around the place it is at a set of names the walk took for bound there, all of
  which have been assigned (`OnTrack`, `Follows`, `Held`): so a read has a value, and at the end
  of the body so has everything `module_unbound_` does not withhold. And the flags of the loops
  whose bodies are being run are down (`FlagsDown`), so an else that Python runs is run. Then
  every step of the output is a step of the Python, or one only the C++ has: setting up a flag,
  coming to a loop's end, and whatever follows a call for which Python has raised.
- `PyProgramProofs`: what the two above share. The library's induction theorems take an
  operator, which the provers cannot instantiate; `WFMin`, that a set of naturals has a least
  element, does not. What is to be shown of every statement is shown of the set of statements it
  fails for, or holds for (`LeastNatural`, `Downward`), so inductions over a tree are within
  reach where they are over the numbers of its statements.
- `EmittedExpressionsProofs`, the arithmetic: floor division, modulo, `**` and the comparison of
  an int with a double as the runtime computes them are Python's, for every width of the int.
  From `Euclid`, what `\div` and `%` are of a positive divisor, follows that a quotient with a
  remainder in range is unique; hence what C++'s truncation is in each sign of the operands
  (`Truncation`), and that the one step by which `int_.h` corrects it is Python's floor
  (`CorrectedQuotient`, `CorrectedRemainder`). `FloorInWidth` shows that only the most negative
  value by -1 leaves the width, which is the one case the code traps. `IntPowIsPower`: the loop
  of `pow` keeps result, factor and what remains together (`Squaring`), and no square is taken
  on the way to a power in range that is out of it. The comparison is exact because it is never
  made on a rounded int. Of the doubles: a quotient has one exponent that `Fits` it, does not
  change with the way it is written (`RoundSame`), and is rounded to a double (`RoundFacts`); a
  remainder of two doubles is one (`RemainderDigits`); and where the quotient is a double, the
  floor the runtime takes of it is CPython's, computed from the remainder
  (`ExactFloorDivision`).
- `EmittedExpressionsProofs`, the expressions: all four safety properties of
  `EmittedExpressions`. `TypedInv` says of every operand and slot that its type admits the class
  of its object and, unless a narrowed name was read, spells the C++ type of its text. It is
  inductive only with two things the properties do not say: that a C++ bool holds a bool, without
  which nothing is known of `and_`'s result, and that the slot's three types admit one another.
  `RightInv` says what the runs of an operand are: where its numbers are exact, each ends in
  CPython's object or in a failure; where it has none of the marks, each is CPython's. The first
  half is needed for the second: a trap in one operand says nothing of the value of the other.
  Operator by operator it is shown that the overload chosen computes CPython's result
  (`AdditionAgrees` to `CompareAgrees`), and that two runs may change places unless both have an
  effect (`JoinedEither`).

They assume what the modules' `ASSUME`s say of the constants: positive bounds, targets and
ranks defined for every path, sentinel values that are not files, positive widths, declarations
whose guards and kinds are those of `PyProgram`, and `EmitterAssumption`. `EmittedExpressions`
has four: its bounds are numbers (`BoundsAssumption`), its functions and annotations are of the
five scalar types and return what they take (`DefsAssumption`), its literals are objects
(`LiteralsAssumption`), and its numerators and denominators are small enough for the exponents
of a double (`RangeAssumption`): overflow to infinity and subnormal numbers are not modelled.

Only model-checked: `ReadHoldsWhatItClaims`, and everything of `Display`, `ClassBodies` and
`LogicalLines`. The grammar of `LogicalLines` and its parser are `RECURSIVE` operators that call
each other, and `ClassTable` and `ClassBodies` have such operators for the walk over the bases
and for Python's MRO; the prover cannot reason about those. `Display`'s relations are functions,
but what is claimed of them holds by an induction over the depth of arbitrary types.
`ReadHoldsWhatItClaims` needs an invariant that follows a narrowing through the rounds of loops
and past the jumps its histories record.

## Not modelled

- Calls of builtins and of methods, comprehensions, lambdas, f-strings, slices: their typing
  (`expression_typer_calls.cpp`, `builtin_call_table.cpp`) is tables without state, and their
  emission is a refusal.
- Guards that narrow (`isinstance`, `is None`, truth), narrowed attribute paths, nested
  functions' merges; overloads, decorators, imports, signatures.
- The order of evaluation across statements of different modules, and name mangling.
- Infinities, NaN, the sign of zero, subnormal doubles; printing of numbers; the contents of
  strings.
- Printing of trees and diagnostics' wording, the keyword and operator tables, and the corpus
  script: no state of their own.
- Starred and list targets, keyword arguments of classes, steps of slices and rules CPython
  applies after parsing, in `PythonGrammar`: the parser refuses the first four.
- Form feeds and carriage returns in `Lexer`. The order in which a directory is walked is taken
  as the paths' order, which the pipeline's map imposes anyway.

## Plan

Written so far, in this order: `Reachability`, `IndentationPass` with proofs, `EmitRun` with
proofs, `EmitterFlow`, `Lexer`, `StatementParser`, `Types` with `OperatorRules` and `Display`,
`Narrowing`, `RuntimeNumbers` and `EmittedExpressions`,
`ClassTable` and `ClassBodies`, `LogicalLines` with the expression parser and `ScanContext`;
then proofs about `StatementParser`, `Lexer`, `Reachability`, `EmitterFlow`,
`EmittedExpressions` and `Narrowing`. Left:

1. Narrowing by guards, and of attribute paths.
2. Builtin and method calls, as operators checked against Python's signatures.
3. Proofs: `ReadHoldsWhatItClaims`, with the history it needs along loops and jumps, and the
   relations of `Display`, by induction over the depth of a type.
