-------------------------- MODULE StatementParser --------------------------
(***************************************************************************)
(* StatementParser: statements, suites and recovery.                       *)
(*                                                                         *)
(* A recursive-descent parser as a pushdown machine: `stack` holds the     *)
(* calls in progress and `mode` where the innermost one is.  The tokens    *)
(* are read lazily: `next` is chosen among the tokens the lexer and the    *)
(* indentation pass can put after `prev`, so a run covers streams of every *)
(* length.  Tokens are kept as far as recovery tells them apart:           *)
(*   "expr"  a well-formed expression, or the rest of a well-formed header *)
(*           (the target and the iterable of a for, a parameter list)      *)
(*   "junk"  a token no rule accepts here: an unsupported keyword, a stray *)
(*           closer, an operator                                           *)
(*   "if"; "loop": while and for, which take an else; "def": def and       *)
(*           class, which do not                                           *)
(* Comments are trivia: the cursor and at_statement_boundary skip them.    *)
(***************************************************************************)
EXTENDS Naturals, Sequences

CONSTANTS
  MaxBlocks,   \* bound: nested blocks of the text
  MaxFrames    \* bound: calls in progress (an elif chain nests one call each)

ASSUME ParserAssumption == MaxBlocks \in Nat \ {0} /\ MaxFrames \in Nat \ {0}

VARIABLES
  prev, next,  \* the token before the cursor ("word" for any inside a line), the one at it
  block,       \* how many blocks the tokens before the cursor have left open
  stack,       \* the calls: [rule, block, empty, reported]
  mode,        \* where the innermost call is
  moved,       \* has the cursor moved since parse_statement_list took `before`
  line,        \* history: "clean", or what became of the line at the cursor
  errors,      \* history: has any diagnostic been reported
  discarded    \* history: has recovery thrown away any token

stream == <<prev, next, block, moved, discarded>>
vars == <<stream, stack, mode, line, errors>>

-----------------------------------------------------------------------------
(* The stream, as IndentationPass leaves it: balanced, INDENT and DEDENT   *)
(* only at the start of a line, every line with a token of its own and     *)
(* closed by a NEWLINE, which the lexer invents before the end of the file.*)

Compound == {"if", "loop", "def"}
Clauses == {"else", "elif"}
LineTokens == Compound \union Clauses \union {"expr", "junk", "return", ":", "=", ";"}
Boundary == {"NEWLINE", "INDENT", "DEDENT"}

Follows(token, open) ==
  LineTokens \union
  (CASE token \in {"start", "NEWLINE"} -> {t \in {"INDENT"} : open < MaxBlocks}
                                         \union {t \in {"DEDENT"} : open > 0}
                                         \union {t \in {"EOF"} : open = 0}
    [] token = "DEDENT" -> {IF open > 0 THEN "DEDENT" ELSE "EOF"}
    [] token = "INDENT" -> {}
    [] OTHER -> {"NEWLINE"})

Shift == CASE next = "INDENT" -> block + 1
           [] next = "DEDENT" -> block - 1
           [] OTHER -> block

\* tokens_.advance(); at the end of the file it does nothing.
Advance ==
  IF next = "EOF" THEN UNCHANGED <<prev, next, block, moved, line>>
  ELSE /\ prev' = IF next \in LineTokens THEN "word" ELSE next
       /\ block' = Shift
       /\ next' \in {t \in Follows(next, Shift) : t = "elif" => Len(stack) < MaxFrames}
       /\ moved' = TRUE
       /\ line' = IF next \in Boundary THEN "clean" ELSE line

\* A token a rule of the grammar takes, and one that recovery throws away.
Take == Advance /\ UNCHANGED <<errors, discarded>>
Discard == Advance /\ discarded' = TRUE /\ UNCHANGED errors
Stay == UNCHANGED <<stream, line, errors>>

Top == stack[Len(stack)]
Below == SubSeq(stack, 1, Len(stack) - 1)
InList == Top.rule = "list"
WithTop(field, value) == [stack EXCEPT ![Len(stack)] = [@ EXCEPT ![field] = value]]
Call(rule, open) == Append(stack, [rule |-> rule, block |-> open, empty |-> TRUE,
                                   reported |-> FALSE])

Goto(m) == mode' = <<m>> /\ UNCHANGED stack
At(m) == mode = <<m>>

\* sink_.report_error: once here, it lies within every call in progress.
Report(here) ==
  /\ errors' = TRUE
  /\ stack' = [i \in DOMAIN stack |-> [stack[i] EXCEPT !.reported = TRUE]]
  /\ line' = IF ~here THEN line ELSE IF line = "clean" THEN "reported" ELSE "twice"
  /\ UNCHANGED stream

Fail(m) == Report(TRUE) /\ mode' = <<m>>

-----------------------------------------------------------------------------
(* parse_module and parse_statement_list.                                  *)

\* The end of the list: DEDENT or the end of the file.  A suite takes its DEDENT; the
\* module's loop takes whatever it stopped at and goes on.
EndOfList ==
  /\ At("statements") /\ next \in {"DEDENT", "EOF"}
  /\ IF Len(stack) > 1
     THEN /\ stack' = Below
          /\ mode' = IF Top.empty THEN <<"null">> ELSE <<"suite_ok">>
          /\ Take
     ELSE IF next = "EOF" THEN Goto("done") /\ Stay
          ELSE Goto("statements") /\ Discard

\* Mutant: an unexpected block is skipped without a word.
UnexpectedIndentSilently == /\ At("statements") /\ next = "INDENT"
                            /\ mode' = <<"skip", 0, "statements">>
                            /\ UNCHANGED stack /\ Stay

UnexpectedIndent == /\ At("statements") /\ next = "INDENT"
                    /\ Report(FALSE)
                    /\ mode' = <<"skip", 0, "statements">>

ParseCompound == /\ At("statements") /\ next \in Compound
                 /\ stack' = Call(next, block)
                 /\ mode' = <<"header">>
                 /\ Take

\* A simple statement is next; an empty logical line, which no lexer writes, is passed.
ParseLine == /\ At("statements") /\ next \in (LineTokens \ Compound) \union {"NEWLINE"}
             /\ IF next = "NEWLINE" THEN Goto("statements") /\ Take
                ELSE /\ Goto("simple")
                     /\ moved' = FALSE
                     /\ UNCHANGED <<prev, next, block, discarded, line, errors>>

\* The progress guard at the end of an iteration.
ProgressGuard == /\ At("guard")
                 /\ Goto("statements")
                 /\ IF moved THEN Stay ELSE Discard

-----------------------------------------------------------------------------
(* parse_simple_statement_line, parse_simple_statement.                    *)

EndsAStatement == {"NEWLINE", ";", "EOF"}

ParseExpression(from, to) == At(from) /\ next = "expr" /\ Take /\ Goto(to)
NoExpression(from) == At(from) /\ next # "expr" /\ Fail("line_failed")

\* return, or the leading expression of a statement; anything else is rejected.
ParseSimple == \/ At("simple") /\ next = "return" /\ Take /\ Goto("return")
               \/ ParseExpression("simple", "target")
RejectSimple == At("simple") /\ next \notin {"expr", "return"} /\ Fail("line_failed")

ParseReturn == \/ At("return") /\ next \in EndsAStatement /\ Goto("simple_ok") /\ Stay
               \/ At("return") /\ next \notin EndsAStatement /\ Goto("value") /\ Stay

\* A target that is not assignable is reported at the operator.
ParseAssignment == \/ At("target") /\ next = "=" /\ Take /\ Goto("value")
                   \/ At("target") /\ next = ":" /\ Take /\ Goto("annotation")
                   \/ At("target") /\ next \in {"=", ":"} /\ Fail("line_failed")
                   \/ At("annotated") /\ next = "=" /\ Take /\ Goto("value")
NoAssignment == \/ At("target") /\ next \notin {"=", ":"} /\ Goto("simple_ok") /\ Stay
                \/ At("annotated") /\ next # "=" /\ Goto("simple_ok") /\ Stay
ParseOperand == \/ ParseExpression("value", "simple_ok")
                \/ ParseExpression("annotation", "annotated")
                \/ NoExpression("value")
                \/ NoExpression("annotation")

NextSimple == \/ At("simple_ok") /\ next = ";" /\ Take /\ Goto("semicolon")
              \/ At("semicolon") /\ next \notin EndsAStatement /\ Goto("simple") /\ Stay
EndOfLine ==
  /\ \/ At("simple_ok") /\ next # ";"
     \/ At("semicolon") /\ next \in EndsAStatement
  /\ CASE next = "NEWLINE" -> Take /\ Goto("line_ok")
       [] next = "EOF" -> Stay /\ Goto("line_ok")
       [] OTHER -> Fail("line_failed")

\* Back in the caller: the list that owns the line, or the suite that is this line.
LineReturns ==
  \/ At("line_ok") /\ InList /\ stack' = WithTop("empty", FALSE) /\ mode' = <<"guard">> /\ Stay
  \/ At("line_ok") /\ ~InList /\ Goto("suite_ok") /\ Stay
  \/ At("line_failed") /\ InList /\ mode' = <<"synchronize", "guard">> /\ UNCHANGED stack /\ Stay
  \/ At("line_failed") /\ ~InList /\ Goto("null") /\ Stay

-----------------------------------------------------------------------------
(* parse_if, parse_while, parse_for, parse_function_def, parse_class_def.  *)

\* What is left of the header can still be wrong once its first tokens are read.
ParseHeader == At("header") /\ next = "expr" /\ Take
               /\ \E m \in {"suite", "malformed"} : Goto(m)
HeaderFails == ((At("header") /\ next # "expr") \/ At("malformed")) /\ Fail("null")

\* parse_suite: ':', then a block or the rest of the line.
SuiteColon == \/ At("suite") /\ next = ":" /\ Take /\ Goto("suite_body")
              \/ At("suite") /\ next # ":" /\ Fail("null")
SuiteBody == \/ At("suite_body") /\ next = "NEWLINE" /\ Take /\ Goto("block")
             \/ At("suite_body") /\ next # "NEWLINE" /\ Goto("simple") /\ Stay
\* Mutant: a missing block is an empty suite like any other.
SuiteBlockSilently ==
  \/ /\ At("block") /\ next = "INDENT"
     /\ stack' = Call("list", Shift)
     /\ mode' = <<"statements">>
     /\ Take
  \/ At("block") /\ next # "INDENT" /\ Goto("null") /\ Stay

SuiteBlock == \/ /\ At("block") /\ next = "INDENT"
                 /\ stack' = Call("list", Shift)
                 /\ mode' = <<"statements">>
                 /\ Take
              \/ At("block") /\ next # "INDENT" /\ Report(FALSE) /\ mode' = <<"null">>

\* After a suite: an elif is an if of its own, nested in this one's else.
SuiteReturns ==
  \/ /\ At("suite_ok") /\ Top.rule = "if" /\ next = "elif"
     /\ stack' = Append(WithTop("rule", "elif"), [Top EXCEPT !.reported = FALSE])
     /\ mode' = <<"header">>
     /\ Take
  \/ /\ At("suite_ok") /\ Top.rule \in {"if", "loop"} /\ next = "else"
     /\ stack' = WithTop("rule", "orelse")
     /\ mode' = <<"suite">>
     /\ Take
  \/ /\ At("suite_ok")
     /\ ~(Top.rule = "if" /\ next = "elif")
     /\ ~(Top.rule \in {"if", "loop"} /\ next = "else")
     /\ stack' = Below /\ mode' = <<"ok">> /\ Stay

\* The statement, or null, goes to the if whose elif it is, or to its list.
StatementReturns ==
  \/ At("ok") /\ ~InList /\ stack' = Below /\ UNCHANGED mode /\ Stay
  \/ At("ok") /\ InList /\ stack' = WithTop("empty", FALSE) /\ mode' = <<"guard">> /\ Stay
  \/ At("null") /\ ~InList /\ stack' = Below /\ UNCHANGED mode /\ Stay

-----------------------------------------------------------------------------
(* Recovery.                                                               *)

\* Mutant: a failed compound statement never stopped in the middle of its line.
always_at_boundary == TRUE

at_statement_boundary == prev \in {"start"} \union Boundary

\* A compound statement was dropped: the rest of its line, its block, and its else and
\* elif clauses go with it.
Recover == /\ At("null") /\ InList
           /\ mode' = IF at_statement_boundary THEN <<"orphan_block">>
                      ELSE <<"synchronize", "orphan_block">>
           /\ UNCHANGED stack /\ Stay
OrphanBlock == /\ At("orphan_block")
               /\ mode' = IF next = "INDENT" THEN <<"skip", 0, "orphan_clause">>
                          ELSE <<"orphan_clause">>
               /\ UNCHANGED stack /\ Stay
OrphanClause == \/ /\ At("orphan_clause") /\ next \in Clauses
                   /\ mode' = <<"synchronize", "orphan_block">>
                   /\ line' = "orphan"
                   /\ UNCHANGED <<stack, stream, errors>>
                \/ At("orphan_clause") /\ next \notin Clauses /\ Goto("guard") /\ Stay

synchronize ==
  /\ mode[1] = "synchronize"
  /\ UNCHANGED stack
  /\ IF next \in {"INDENT", "DEDENT", "EOF"} THEN mode' = <<mode[2]>> /\ Stay
     ELSE /\ Discard
          /\ mode' = IF next = "NEWLINE" THEN <<mode[2]>> ELSE mode

\* Mutant: the block ends at the first DEDENT.
skip_to_first_dedent ==
  /\ mode[1] = "skip"
  /\ mode' = IF next = "DEDENT" THEN <<mode[3]>> ELSE [mode EXCEPT ![2] = 1]
  /\ UNCHANGED stack
  /\ Discard

skip_unexpected_block ==
  /\ mode[1] = "skip"
  /\ LET depth == CASE next = "INDENT" -> mode[2] + 1
                    [] next = "DEDENT" -> mode[2] - 1
                    [] OTHER -> mode[2]
     IN mode' = IF depth = 0 THEN <<mode[3]>> ELSE [mode EXCEPT ![2] = depth]
  /\ UNCHANGED stack
  /\ Discard

-----------------------------------------------------------------------------
Init == /\ prev = "start" /\ next \in Follows("start", 0) /\ block = 0
        /\ stack = <<[rule |-> "list", block |-> 0, empty |-> TRUE, reported |-> FALSE]>>
        /\ mode = <<"statements">>
        /\ moved = FALSE /\ line = "clean"
        /\ errors = FALSE /\ discarded = FALSE

Next == \/ EndOfList \/ UnexpectedIndent \/ ParseCompound \/ ParseLine \/ ProgressGuard
        \/ ParseSimple \/ RejectSimple \/ ParseReturn \/ ParseAssignment \/ NoAssignment
        \/ ParseOperand \/ NextSimple \/ EndOfLine \/ LineReturns
        \/ ParseHeader \/ HeaderFails \/ SuiteColon \/ SuiteBody \/ SuiteBlock
        \/ SuiteReturns \/ StatementReturns
        \/ Recover \/ OrphanBlock \/ OrphanClause \/ synchronize \/ skip_unexpected_block
        \/ At("done") /\ UNCHANGED vars

Spec == Init /\ [][Next]_vars

-----------------------------------------------------------------------------
(* Properties.                                                             *)

TypeOK ==
  /\ prev \in Boundary \union {"start", "word"}
  /\ next \in LineTokens \union Boundary \union {"EOF"}
  /\ block \in 0..MaxBlocks
  /\ \A i \in DOMAIN stack :
       /\ stack[i].rule \in {"list", "elif", "orelse"} \union Compound
       /\ stack[i].block \in 0..MaxBlocks
  /\ stack # <<>> /\ stack[1].rule = "list"
  /\ line \in {"clean", "reported", "twice", "orphan"}
  /\ {moved, errors, discarded} \subseteq BOOLEAN

\* Whatever was reported and thrown away before, a statement list reads at the depth of
\* its own block, and a suite that ends is back at the depth of its header: a clause
\* goes to the header it is aligned with, and no suite swallows the text behind it.
SuitesMatchBlocks ==
  mode[1] \in {"statements", "guard", "orphan_block", "orphan_clause", "suite_ok"} =>
    block = Top.block

\* The statement loop always stands at the start of a line: no statement is read out of
\* the middle of one that was given up (parse_statement_list, reject).
StatementsStartLines ==
  At("statements") /\ next \in LineTokens => prev \in {"start"} \union Boundary

\* A rule that fails, and a suite without a statement, has been reported: the callers
\* that return null silently, "already reported", lose nothing without a diagnostic.
FailureIsReported ==
  At("line_failed") \/ (At("null") /\ ~InList) => Top.reported

\* A line gets one diagnostic at most: the rules unwind without a second message.
OneDiagnosticPerLine == line # "twice"

\* synchronize throws away a line that was reported, or the clause of a statement that
\* was, never the line after it.
OnlyFailedLinesAreDiscarded ==
  mode[1] = "synchronize" /\ next \notin {"INDENT", "DEDENT", "EOF"} =>
    line \in {"reported", "orphan"}

\* A text without a diagnostic is in the tree to its last token.
AcceptedIsComplete == discarded => errors

\* On the streams of the lexer the progress guard of parse_statement_list has nothing to
\* do: every way round the loop moves the cursor.
ProgressGuardIsIdle == At("guard") => moved

\* After an error the parser takes up the text where a line starts, having thrown away
\* what it complained of and nothing else, with one diagnostic a line and a cursor that
\* moves on every way round the loop.
RecoveryIsExact ==
  /\ TypeOK
  /\ StatementsStartLines
  /\ OnlyFailedLinesAreDiscarded
  /\ OneDiagnosticPerLine
  /\ ProgressGuardIsIdle
=============================================================================
