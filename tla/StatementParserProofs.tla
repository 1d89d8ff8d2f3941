----------------------- MODULE StatementParserProofs -----------------------
(***************************************************************************)
(* Proofs about StatementParser, for streams of every length and every     *)
(* bound on their nesting: suites are read at the depth of their blocks,   *)
(* whatever was thrown away before them, a failure is never silent, and    *)
(* recovery takes a failed line and nothing else.                          *)
(***************************************************************************)
EXTENDS StatementParser, TLAPS

Rules == {"list", "elif", "orelse"} \union Compound
Frames == [rule : Rules, block : 0..MaxBlocks, empty : BOOLEAN, reported : BOOLEAN]

\* The modes by the place of the cursor: in the middle of a line, or where one starts.
InLine == {"return", "target", "annotation", "annotated", "value", "simple_ok", "semicolon",
           "header", "malformed", "suite", "suite_body"}
AtLineStart == {"statements", "guard", "orphan_block", "orphan_clause", "done",
                "line_ok", "suite_ok", "ok", "block"}
PlainModes == InLine \union AtLineStart \union {"simple", "line_failed", "null"}

\* The modes of a list of statements, and those of a compound statement.
OfLists == {"statements", "guard", "orphan_block", "orphan_clause", "done", "synchronize", "skip"}
OfCompounds == {"header", "malformed", "suite", "suite_body", "block", "suite_ok"}

-----------------------------------------------------------------------------
(* The inductive invariant.                                                *)

Skipping == \E d \in Nat, to \in {"statements", "orphan_clause"} : mode = <<"skip", d, to>>
Synchronizing == \E to \in {"guard", "orphan_block"} : mode = <<"synchronize", to>>
ModeOK == (\E m \in PlainModes : mode = <<m>>) \/ Skipping \/ Synchronizing

\* The token at the cursor is one that can follow the token before it.
StreamOK ==
  /\ prev \in Boundary \union {"start", "word"} /\ block \in 0..MaxBlocks
  /\ next \in Follows(prev, block)

\* Calls nest as the blocks do: a suite's list is one block deeper than its header, any
\* other call is in the block of its caller; who called has been told of every error.
Nested(outer, inner) ==
  /\ inner.block = IF inner.rule = "list" THEN outer.block + 1 ELSE outer.block
  /\ inner.rule = "list" => outer.rule # "list"
  /\ inner.reported => outer.reported
StackOK(calls) ==
  /\ calls \in Seq(Frames) /\ calls # <<>>
  /\ calls[1].rule = "list" /\ calls[1].block = 0
  /\ \A i \in 1..(Len(calls) - 1) : Nested(calls[i], calls[i + 1])
Traced(calls, reported) == \A i \in 1..Len(calls) : calls[i].reported => reported

\* The innermost call is in the block at the cursor, the blocks being skipped apart.
Aligned == block = IF mode[1] = "skip" THEN Top.block + mode[2] ELSE Top.block

InCaller == /\ mode[1] \in OfLists => InList
            /\ mode[1] \in OfCompounds => ~InList

\* Where in a line the cursor is.  Only what begins a line on its own fails at its start.
InPlace ==
  /\ mode[1] \in InLine => prev = "word"
  /\ mode[1] \in AtLineStart => at_statement_boundary
  /\ mode[1] \in {"simple", "line_failed"} /\ ~InList => prev = "word"
  /\ mode[1] = "simple" => next \in LineTokens
  /\ mode[1] \in {"line_failed", "synchronize"} => next \in LineTokens \union {"NEWLINE"}
  /\ mode[1] = "skip" /\ mode[2] = 0 => next = "INDENT"

\* What is known of the line at the cursor.
LineKnown ==
  line = CASE mode[1] = "line_failed" -> "reported"
           [] mode[1] = "null" -> (IF at_statement_boundary THEN "clean" ELSE "reported")
           [] mode[1] = "synchronize" -> (IF line = "orphan" THEN "orphan" ELSE "reported")
           [] OTHER -> "clean"

\* A call that has nothing to show for itself has been told of an error.
Accounted ==
  /\ mode[1] \in {"line_failed", "null", "orphan_block", "orphan_clause", "synchronize", "skip"}
       => Top.reported
  /\ mode[1] = "guard" => Top.reported \/ ~Top.empty
  /\ mode[1] = "statements" /\ Len(stack) > 1 => Top.reported \/ ~Top.empty \/ prev = "INDENT"

\* The cursor has moved, except where a line or the text begins.
Moving ==
  /\ prev = "word" => moved
  /\ mode[1] \in {"guard", "orphan_block", "orphan_clause", "null", "ok", "suite_ok", "line_ok",
                "block"} => moved

IInv ==
  /\ ModeOK /\ StreamOK /\ StackOK(stack) /\ Traced(stack, errors)
  /\ Aligned /\ InCaller /\ InPlace /\ LineKnown /\ Accounted /\ Moving
  /\ {moved, errors, discarded} \subseteq BOOLEAN
  /\ discarded => errors

-----------------------------------------------------------------------------
(* The calls in progress: what a call, a return and a report do to them.   *)

LEMMA CallsShape ==
  ASSUME NEW calls, StackOK(calls)
  PROVE  /\ Len(calls) \in Nat /\ Len(calls) >= 1 /\ DOMAIN calls = 1..Len(calls)
         /\ \A i \in 1..Len(calls) : calls[i] \in Frames
         /\ calls[Len(calls)].rule # "list" => Len(calls) > 1
<1>1. calls \in Seq(Frames) /\ calls # <<>> /\ calls[1].rule = "list"
  BY DEF StackOK
<1>2. Len(calls) \in Nat /\ Len(calls) >= 1 /\ DOMAIN calls = 1..Len(calls)
  BY <1>1
<1>3. \A i \in 1..Len(calls) : calls[i] \in Frames
  BY <1>1, <1>2
<1>4. QED
  BY <1>1, <1>2, <1>3

\* A call within the innermost one.
LEMMA Pushed ==
  ASSUME NEW calls, StackOK(calls), NEW f \in Frames, Nested(calls[Len(calls)], f),
         NEW e, Traced(calls, e), f.reported => e
  PROVE  LET t == Append(calls, f)
         IN /\ StackOK(t) /\ Traced(t, e)
            /\ Len(t) = Len(calls) + 1 /\ t[Len(t)] = f
<1> DEFINE t == Append(calls, f)
<1>1. /\ Len(calls) \in Nat /\ Len(calls) >= 1 /\ calls \in Seq(Frames)
      /\ \A i \in 1..Len(calls) : calls[i] \in Frames
  BY CallsShape DEF StackOK
<1>2. /\ t \in Seq(Frames) /\ Len(t) = Len(calls) + 1 /\ t[Len(t)] = f
      /\ \A i \in 1..Len(calls) : t[i] = calls[i]
  BY <1>1
<1>3. \A i \in 1..(Len(t) - 1) : Nested(t[i], t[i + 1])
  <2>1. SUFFICES ASSUME NEW i \in 1..Len(calls) PROVE Nested(t[i], t[i + 1])
    BY <1>1, <1>2
  <2>2. CASE i = Len(calls)
    BY <1>1, <1>2, <2>2
  <2>3. CASE i # Len(calls)
    <3>1. i \in 1..(Len(calls) - 1) /\ i + 1 \in 1..Len(calls)
      BY <1>1, <2>3
    <3>2. QED
      BY <1>2, <3>1 DEF StackOK
  <2>4. QED
    BY <2>2, <2>3
<1>4. StackOK(t)
  <2>1. t # <<>> /\ t[1] = calls[1]
    BY <1>1, <1>2
  <2>2. QED
    BY <1>2, <1>3, <2>1 DEF StackOK
<1>5. Traced(t, e)
  BY <1>1, <1>2 DEF Traced
<1>6. QED
  BY <1>2, <1>4, <1>5

\* The innermost call returns.
LEMMA Popped ==
  ASSUME NEW calls, StackOK(calls), Len(calls) > 1, NEW e, Traced(calls, e)
  PROVE  LET t == SubSeq(calls, 1, Len(calls) - 1)
         IN /\ StackOK(t) /\ Traced(t, e)
            /\ Len(t) = Len(calls) - 1
            /\ t[Len(t)] \in Frames /\ Nested(t[Len(t)], calls[Len(calls)])
<1> DEFINE n == Len(calls) - 1
           t == SubSeq(calls, 1, n)
<1>1. /\ Len(calls) \in Nat /\ calls \in Seq(Frames) /\ n \in 1..Len(calls)
      /\ \A i \in 1..Len(calls) : calls[i] \in Frames
  BY CallsShape DEF StackOK
<1>2. /\ t \in Seq(Frames) /\ Len(t) = n
      /\ \A i \in 1..n : t[i] = calls[i]
  BY <1>1
<1>3. \A i \in 1..(n - 1) : Nested(t[i], t[i + 1])
  <2>1. SUFFICES ASSUME NEW i \in 1..(n - 1) PROVE Nested(t[i], t[i + 1])
    OBVIOUS
  <2>2. i \in 1..n /\ i + 1 \in 1..n /\ i \in 1..(Len(calls) - 1)
    BY <1>1
  <2>3. QED
    BY <1>2, <2>2 DEF StackOK
<1>4. StackOK(t)
  <2>1. Len(t) # 0 /\ 1 \in 1..n
    BY <1>1, <1>2
  <2>2. t # <<>>
    <3>1. Len(<<>>) = 0
      OBVIOUS
    <3>2. QED
      BY <2>1, <3>1, Zenon
  <2>3. t[1] = calls[1]
    BY <1>2, <2>1
  <2>4. QED
    BY <1>2, <1>3, <2>2, <2>3 DEF StackOK
<1>5. Traced(t, e)
  BY <1>1, <1>2 DEF Traced
<1>6. Nested(calls[n], calls[n + 1])
  BY <1>1 DEF StackOK
<1>7. QED
  BY <1>1, <1>2, <1>4, <1>5, <1>6

\* The innermost call goes on with another rule, or with a statement more.
LEMMA Replaced ==
  ASSUME NEW calls, StackOK(calls), NEW e, Traced(calls, e), NEW g \in Frames,
         g.block = calls[Len(calls)].block, g.reported = calls[Len(calls)].reported,
         g.rule = "list" <=> calls[Len(calls)].rule = "list"
  PROVE  LET t == [calls EXCEPT ![Len(calls)] = g]
         IN StackOK(t) /\ Traced(t, e) /\ Len(t) = Len(calls) /\ t[Len(t)] = g
<1> DEFINE n == Len(calls)
           t == [calls EXCEPT ![n] = g]
<1>1. /\ n \in Nat /\ n >= 1 /\ calls \in Seq(Frames)
      /\ \A i \in 1..n : calls[i] \in Frames
  BY CallsShape DEF StackOK
<1>2. /\ t \in Seq(Frames) /\ Len(t) = n
      /\ \A i \in 1..n : t[i] = IF i = n THEN g ELSE calls[i]
  BY <1>1
<1>3. \A i \in 1..(n - 1) : Nested(t[i], t[i + 1])
  <2>1. SUFFICES ASSUME NEW i \in 1..(n - 1) PROVE Nested(t[i], t[i + 1])
    OBVIOUS
  <2>2. /\ i \in 1..n /\ i + 1 \in 1..n /\ t[i] = calls[i]
        /\ t[i + 1] = IF i + 1 = n THEN g ELSE calls[i + 1]
    BY <1>1, <1>2
  <2>3. Nested(calls[i], calls[i + 1])
    BY DEF StackOK
  <2>4. QED
    BY <2>2, <2>3 DEF Nested
<1>4. StackOK(t)
  <2>1. t # <<>>
    BY <1>1, <1>2
  <2>2. t[1].rule = "list" /\ t[1].block = 0
    BY <1>1, <1>2 DEF StackOK
  <2>3. QED
    BY <1>2, <1>3, <2>1, <2>2 DEF StackOK
<1>5. Traced(t, e)
  BY <1>1, <1>2 DEF Traced
<1>6. QED
  BY <1>1, <1>2, <1>4, <1>5

\* A report reaches every call in progress.
LEMMA Told ==
  ASSUME NEW calls, StackOK(calls)
  PROVE  LET t == [i \in DOMAIN calls |-> [calls[i] EXCEPT !.reported = TRUE]]
         IN /\ StackOK(t) /\ Traced(t, TRUE) /\ Len(t) = Len(calls)
            /\ t[Len(t)] = [calls[Len(calls)] EXCEPT !.reported = TRUE]
<1> DEFINE n == Len(calls)
           t == [i \in DOMAIN calls |-> [calls[i] EXCEPT !.reported = TRUE]]
<1>1. /\ n \in Nat /\ n >= 1 /\ DOMAIN calls = 1..n
      /\ \A i \in 1..n : calls[i] \in Frames
  BY CallsShape
<1>2. \A i \in 1..n : /\ t[i] = [calls[i] EXCEPT !.reported = TRUE] /\ t[i] \in Frames
                       /\ t[i].rule = calls[i].rule /\ t[i].block = calls[i].block
                       /\ t[i].reported = TRUE
  BY <1>1 DEF Frames
<1>3. t \in Seq(Frames) /\ Len(t) = n
  BY <1>1, <1>2
<1>4. \A i \in 1..(n - 1) : Nested(t[i], t[i + 1])
  <2>1. SUFFICES ASSUME NEW i \in 1..(n - 1) PROVE Nested(t[i], t[i + 1])
    OBVIOUS
  <2>2. i \in 1..n /\ i + 1 \in 1..n /\ Nested(calls[i], calls[i + 1])
    BY <1>1 DEF StackOK
  <2>3. QED
    BY <1>2, <2>2 DEF Nested
<1>5. StackOK(t)
  <2>1. t # <<>>
    BY <1>1, <1>3
  <2>2. t[1].rule = "list" /\ t[1].block = 0
    BY <1>1, <1>2 DEF StackOK
  <2>3. QED
    BY <1>3, <1>4, <2>1, <2>2 DEF StackOK
<1>6. QED
  BY <1>1, <1>2, <1>3, <1>5 DEF Traced

-----------------------------------------------------------------------------
(* The stream.                                                             *)

\* What the token at the cursor can be.
LEMMA Cursor ==
  ASSUME StreamOK
  PROVE  /\ prev = "word" => next \in LineTokens \union {"NEWLINE"}
         /\ prev = "INDENT" => next \in LineTokens
         /\ at_statement_boundary => next \in LineTokens \union {"INDENT", "DEDENT", "EOF"}
         /\ prev = "word" \/ at_statement_boundary
         /\ next = "EOF" => block = 0
         /\ next = "DEDENT" => block > 0
         /\ next = "INDENT" => block < MaxBlocks
<1>1. prev \in {"start", "NEWLINE", "INDENT", "DEDENT", "word"} /\ next \in Follows(prev, block)
  BY DEF StreamOK, Boundary
<1>2. CASE prev \in {"start", "NEWLINE"}
  <2>1. /\ next \in LineTokens \union {"INDENT", "DEDENT", "EOF"}
        /\ next = "INDENT" => block < MaxBlocks
        /\ next = "DEDENT" => block > 0
        /\ next = "EOF" => block = 0
    BY <1>1, <1>2 DEF Follows, LineTokens, Compound, Clauses
  <2>2. QED
    BY <1>2, <2>1 DEF at_statement_boundary, Boundary
<1>3. CASE prev = "DEDENT"
  <2>1. next \in LineTokens \union {IF block > 0 THEN "DEDENT" ELSE "EOF"}
    BY <1>1, <1>3 DEF Follows
  <2>2. block \in Nat
    BY ParserAssumption DEF StreamOK
  <2>3. \/ next \in LineTokens
        \/ next = "DEDENT" /\ block > 0
        \/ next = "EOF" /\ block = 0
    BY <2>1, <2>2
  <2>4. QED
    BY <1>3, <2>3 DEF at_statement_boundary, Boundary, LineTokens, Compound, Clauses
<1>4. CASE prev = "INDENT"
  <2>1. next \in LineTokens
    BY <1>1, <1>4 DEF Follows
  <2>2. QED
    BY <1>4, <2>1 DEF at_statement_boundary, Boundary, LineTokens, Compound, Clauses
<1>5. CASE prev = "word"
  <2>1. next \in LineTokens \union {"NEWLINE"}
    BY <1>1, <1>5 DEF Follows
  <2>2. QED
    BY <1>5, <2>1 DEF at_statement_boundary, Boundary, LineTokens, Compound, Clauses
<1>6. QED
  BY <1>1, <1>2, <1>3, <1>4, <1>5

\* The cursor moves past a token.
LEMMA Moved ==
  ASSUME StreamOK, Advance, next # "EOF"
  PROVE  /\ StreamOK'
         /\ prev' = IF next \in LineTokens THEN "word" ELSE next
         /\ block' = Shift
         /\ moved' = TRUE
         /\ line' = IF next \in Boundary THEN "clean" ELSE line
<1>1. /\ prev' = (IF next \in LineTokens THEN "word" ELSE next)
      /\ block' = Shift /\ moved' = TRUE
      /\ line' = (IF next \in Boundary THEN "clean" ELSE line)
      /\ next' \in Follows(next, Shift)
  BY DEF Advance
<1>2. next \in LineTokens \union Boundary
  BY Cursor DEF Boundary
<1>3. block \in 0..MaxBlocks /\ block' \in 0..MaxBlocks
  BY <1>1, Cursor, ParserAssumption DEF StreamOK, Shift
<1>4. prev' \in Boundary \union {"start", "word"}
  BY <1>1, <1>2
<1>5. next' \in Follows(prev', block')
  BY <1>1, <1>2 DEF Follows, LineTokens, Boundary, Compound, Clauses
<1>6. QED
  BY <1>1, <1>3, <1>4, <1>5 DEF StreamOK

-----------------------------------------------------------------------------
(* Steps that leave the calls as they are.                                 *)

\* A token of a line is taken.
LEMMA TakesAWord ==
  ASSUME IInv, NEW m \in InLine, next \in LineTokens, Take, Goto(m),
         line = "clean", mode[1] # "skip", m \in OfCompounds => ~InList
  PROVE  IInv'
<1> USE DEF IInv
<1>1. /\ StreamOK' /\ prev' = "word" /\ block' = block /\ moved' = TRUE /\ line' = "clean"
  BY Moved DEF Take, Shift, LineTokens, Boundary, Compound, Clauses
<1>2. UNCHANGED <<stack, errors, discarded>> /\ mode' = <<m>>
  BY DEF Take, Goto
<1>3. mode'[1] = m
  BY <1>2
<1>4. ModeOK'
  BY <1>2 DEF ModeOK, PlainModes
<1>5. Aligned' /\ InCaller'
  BY <1>1, <1>2, <1>3 DEF Aligned, InCaller, InList, Top, InLine, OfCompounds, OfLists
<1>6. InPlace' /\ LineKnown' /\ Accounted' /\ Moving'
  BY <1>1, <1>2, <1>3 DEF InPlace, LineKnown, Accounted, Moving, InLine, AtLineStart
<1>7. QED
  BY <1>1, <1>2, <1>4, <1>5, <1>6

\* Nothing is read: the innermost call goes on elsewhere.
LEMMA GoesOn ==
  ASSUME IInv, NEW m \in PlainModes, Stay, Goto(m), mode[1] # "skip",
         (InCaller /\ InPlace /\ LineKnown /\ Accounted /\ Moving)'
  PROVE  IInv'
<1> USE DEF IInv
<1>1. UNCHANGED <<stream, line, errors, stack>> /\ mode' = <<m>>
  BY DEF Stay, Goto
<1>2. mode'[1] = m /\ m # "skip"
  BY <1>1 DEF PlainModes, InLine, AtLineStart
<1>3. ModeOK'
  BY <1>1 DEF ModeOK
<1>4. StreamOK'
  BY <1>1 DEF StreamOK, stream
<1>5. Aligned'
  BY <1>1, <1>2 DEF Aligned, Top, stream
<1>6. QED
  BY <1>1, <1>3, <1>4, <1>5 DEF stream

\* A report, of the line at the cursor or not.
LEMMA Reported ==
  ASSUME IInv, NEW here \in BOOLEAN, Report(here)
  PROVE  /\ StackOK(stack') /\ Traced(stack', errors') /\ errors' = TRUE
         /\ Top' = [Top EXCEPT !.reported = TRUE]
         /\ Top'.rule = Top.rule /\ Top'.block = Top.block /\ Top'.empty = Top.empty
         /\ Top'.reported = TRUE /\ InList' = InList
         /\ Len(stack') = Len(stack) /\ UNCHANGED stream /\ StreamOK'
<1>1. stack' = [i \in DOMAIN stack |-> [stack[i] EXCEPT !.reported = TRUE]]
  BY DEF Report
<1>2. /\ StackOK(stack') /\ Traced(stack', TRUE) /\ Len(stack') = Len(stack)
      /\ stack'[Len(stack')] = [stack[Len(stack)] EXCEPT !.reported = TRUE]
  BY <1>1, Told DEF IInv
<1>3. Top \in Frames
  BY CallsShape DEF IInv, Top
<1>4. errors' = TRUE /\ UNCHANGED stream
  BY DEF Report
<1>5. Top' = [Top EXCEPT !.reported = TRUE]
  BY <1>2 DEF Top
<1>6. /\ Top'.rule = Top.rule /\ Top'.block = Top.block /\ Top'.empty = Top.empty
      /\ Top'.reported = TRUE
  BY <1>3, <1>5 DEF Frames
<1>7. StreamOK'
  BY <1>4 DEF IInv, StreamOK, stream
<1>8. QED
  BY <1>2, <1>4, <1>5, <1>6, <1>7 DEF InList

\* A rule fails.
LEMMA Fails ==
  ASSUME IInv, NEW m \in {"line_failed", "null"}, Fail(m), line = "clean", mode[1] # "skip",
         m = "line_failed" => next \in LineTokens \union {"NEWLINE"},
         m = "null" \/ ~InList => prev = "word"
  PROVE  IInv'
<1>1. Report(TRUE) /\ mode' = <<m>>
  BY DEF Fail
<1>2. /\ StackOK(stack') /\ Traced(stack', errors') /\ errors' = TRUE
      /\ Top'.block = Top.block /\ Top'.reported = TRUE /\ InList' = InList
      /\ UNCHANGED stream /\ StreamOK'
  BY <1>1, Reported
<1>3. mode'[1] = m /\ line' = "reported"
  BY <1>1 DEF Report
<1>4. ModeOK'
  BY <1>1 DEF ModeOK, PlainModes
<1>5. Aligned' /\ InCaller'
  BY <1>2, <1>3 DEF IInv, Aligned, InCaller, OfLists, OfCompounds, stream
<1>6. InPlace' /\ LineKnown' /\ Accounted' /\ Moving'
  BY <1>2, <1>3
     DEF IInv, InPlace, LineKnown, Accounted, Moving, InLine, AtLineStart, stream,
         at_statement_boundary, Boundary
<1>7. QED
  BY <1>2, <1>4, <1>5, <1>6 DEF IInv, stream

-----------------------------------------------------------------------------
(* parse_simple_statement_line and parse_simple_statement.                 *)

\* In the middle of a line, with nothing reported.
LEMMA GoesOnInLine ==
  ASSUME IInv, NEW m \in InLine \ OfCompounds, Stay, Goto(m), mode[1] \in InLine
  PROVE  IInv'
<1>1. UNCHANGED <<stream, line, errors, stack>> /\ mode' = <<m>>
  BY DEF Stay, Goto
<1>2. mode'[1] = m /\ prev = "word" /\ line = "clean" /\ moved = TRUE /\ mode[1] # "skip"
  BY <1>1 DEF IInv, InPlace, LineKnown, Moving, InLine
<1>3. (InCaller /\ InPlace /\ LineKnown /\ Accounted /\ Moving)'
  BY <1>1, <1>2 DEF InCaller, InPlace, LineKnown, Accounted, Moving, InLine, AtLineStart,
                    OfLists, OfCompounds, stream
<1>4. QED
  BY <1>2, <1>3, GoesOn DEF PlainModes

LEMMA SimpleStatementsPreserve ==
  ASSUME IInv,
         \/ ParseSimple \/ RejectSimple \/ ParseReturn \/ ParseAssignment \/ NoAssignment
         \/ ParseOperand \/ NextSimple
  PROVE  IInv'
<1>1. mode[1] \in {"simple"} \union (InLine \ OfCompounds)
  <2>1. \E m \in {"simple", "return", "target", "annotated", "annotation", "value", "simple_ok",
                  "semicolon"} : At(m)
    BY DEF ParseSimple, RejectSimple, ParseReturn, ParseAssignment, NoAssignment, ParseOperand,
           NextSimple, ParseExpression, NoExpression
  <2>2. QED
    BY <2>1 DEF At, InLine, OfCompounds
<1>2. /\ line = "clean" /\ mode[1] # "skip"
      /\ mode[1] # "simple" => prev = "word"
      /\ next \in LineTokens \union {"NEWLINE"}
      /\ ~InList => prev = "word"
  BY <1>1, Cursor DEF IInv, LineKnown, InPlace, InLine, OfCompounds
<1>3. CASE \E m \in InLine \ OfCompounds : next \in LineTokens /\ Take /\ Goto(m)
  BY <1>2, <1>3, TakesAWord
<1>4. CASE \E m \in InLine \ OfCompounds : mode[1] \in InLine /\ Stay /\ Goto(m)
  BY <1>4, GoesOnInLine
<1>5. CASE Fail("line_failed")
  BY <1>2, <1>5, Fails
<1>6. CASE At("semicolon") /\ next \notin EndsAStatement /\ Goto("simple") /\ Stay
  <2>1. UNCHANGED <<stream, line, errors, stack>> /\ mode' = <<"simple">> /\ prev = "word"
    BY <1>2, <1>6 DEF Stay, Goto, At
  <2>2. next \in LineTokens /\ moved = TRUE
    BY <1>2, <1>6, <2>1 DEF EndsAStatement, IInv, Moving
  <2>3. (InCaller /\ InPlace /\ LineKnown /\ Accounted /\ Moving)'
    BY <1>2, <2>1, <2>2 DEF InCaller, InPlace, LineKnown, Accounted, Moving, InLine, AtLineStart,
                            OfLists, OfCompounds, stream
  <2>4. QED
    BY <1>2, <1>6, <2>3, GoesOn DEF PlainModes
<1>7. next \in {"expr", "return", "=", ":", ";"} => next \in LineTokens
  BY DEF LineTokens
<1>8. {"return", "target", "value", "simple_ok", "annotation", "annotated", "semicolon"}
        \subseteq InLine \ OfCompounds
  BY DEF InLine, OfCompounds
<1>9. CASE ParseSimple \/ RejectSimple
  BY <1>3, <1>5, <1>7, <1>8, <1>9 DEF ParseSimple, RejectSimple, ParseExpression
<1>10. CASE ParseReturn \/ NoAssignment
  BY <1>4, <1>8, <1>10 DEF ParseReturn, NoAssignment, At
<1>11. CASE ParseAssignment
  BY <1>3, <1>5, <1>7, <1>8, <1>11 DEF ParseAssignment
<1>12. CASE ParseOperand
  BY <1>3, <1>5, <1>7, <1>8, <1>12 DEF ParseOperand, ParseExpression, NoExpression
<1>13. CASE NextSimple
  BY <1>3, <1>6, <1>7, <1>8, <1>13 DEF NextSimple
<1>14. QED
  BY <1>9, <1>10, <1>11, <1>12, <1>13

\* A NEWLINE is taken: the next line is new.
LEMMA TakesNewline ==
  ASSUME IInv, next = "NEWLINE", Take
  PROVE  /\ StreamOK' /\ prev' = "NEWLINE" /\ at_statement_boundary'
         /\ UNCHANGED <<block, errors, discarded>> /\ moved' = TRUE /\ line' = "clean"
<1>1. next \notin LineTokens /\ next \in Boundary
  BY DEF LineTokens, Boundary, Compound, Clauses
<1>2. QED
  BY <1>1, Moved DEF IInv, Take, Shift, at_statement_boundary

LEMMA EndOfLinePreserves ==
  ASSUME IInv, EndOfLine
  PROVE  IInv'
<1>1. /\ mode[1] \in {"simple_ok", "semicolon"} /\ prev = "word" /\ line = "clean"
      /\ next \in LineTokens \union {"NEWLINE"}
  <2>1. mode[1] \in {"simple_ok", "semicolon"}
    <3>1. At("simple_ok") \/ At("semicolon")
      BY DEF EndOfLine
    <3>2. QED
      BY <3>1 DEF At
  <2>2. prev = "word" /\ line = "clean"
    BY <2>1 DEF IInv, InPlace, LineKnown, InLine
  <2>3. QED
    BY <2>1, <2>2, Cursor DEF IInv
<1>2. CASE next = "NEWLINE"
  <2>1. Take /\ Goto("line_ok")
    BY <1>2 DEF EndOfLine
  <2>2. /\ StreamOK' /\ at_statement_boundary' /\ UNCHANGED <<block, errors, discarded>>
        /\ moved' = TRUE /\ line' = "clean"
    BY <1>2, <2>1, TakesNewline
  <2>3. mode' = <<"line_ok">> /\ mode'[1] = "line_ok" /\ UNCHANGED stack
    BY <2>1 DEF Goto
  <2>4. ModeOK'
    BY <2>3 DEF ModeOK, PlainModes, AtLineStart
  <2>5. Aligned' /\ InCaller'
    BY <1>1, <2>2, <2>3 DEF IInv, Aligned, Top, InCaller, OfLists, OfCompounds
  <2>6. InPlace' /\ LineKnown' /\ Accounted' /\ Moving'
    BY <2>2, <2>3 DEF InPlace, LineKnown, Accounted, Moving, InLine
  <2>7. QED
    BY <2>2, <2>3, <2>4, <2>5, <2>6 DEF IInv
<1>3. CASE next # "NEWLINE"
  <2>1. next # "EOF"
    BY <1>1, <1>3 DEF LineTokens, Compound, Clauses
  <2>2. QED
    BY <1>1, <1>3, <2>1, Fails DEF EndOfLine
<1>4. QED
  BY <1>2, <1>3

\* A list has a statement more.
LEMMA StatementDone ==
  ASSUME IInv, InList, stack' = WithTop("empty", FALSE)
  PROVE  /\ StackOK(stack') /\ Traced(stack', errors) /\ ~Top'.empty
         /\ Top'.block = Top.block /\ InList'
<1> DEFINE g == [Top EXCEPT !.empty = FALSE]
<1>1. Top \in Frames
  BY CallsShape DEF IInv, Top
<1>2. /\ g \in Frames /\ g.block = Top.block /\ g.reported = Top.reported
      /\ g.rule = Top.rule /\ ~g.empty
  BY <1>1 DEF Frames
<1>3. stack' = [stack EXCEPT ![Len(stack)] = g]
  BY DEF WithTop, Top
<1> HIDE DEF g
<1>4. /\ StackOK(stack) /\ Traced(stack, errors)
      /\ g.block = stack[Len(stack)].block /\ g.reported = stack[Len(stack)].reported
      /\ g.rule = "list" <=> stack[Len(stack)].rule = "list"
  BY <1>2 DEF IInv, Top
<1>5. LET t == [stack EXCEPT ![Len(stack)] = g]
      IN StackOK(t) /\ Traced(t, errors) /\ t[Len(t)] = g
  BY <1>2, <1>4, Replaced, Zenon
<1>6. StackOK(stack') /\ Traced(stack', errors) /\ stack'[Len(stack')] = g
  BY <1>3, <1>5, Zenon
<1>7. QED
  BY <1>2, <1>6 DEF Top, InList

\* Back in the list that owns the line, or in the suite that is the line.
LEMMA LineReturnsPreserves ==
  ASSUME IInv, LineReturns
  PROVE  IInv'
<1> USE DEF IInv
<1>1. CASE At("line_ok") /\ InList /\ stack' = WithTop("empty", FALSE) /\ mode' = <<"guard">> /\ Stay
  <2>1. /\ mode[1] = "line_ok" /\ mode' = <<"guard">> /\ mode'[1] = "guard"
        /\ UNCHANGED <<stream, line, errors>>
    BY <1>1 DEF At, Stay
  <2>2. at_statement_boundary /\ line = "clean" /\ moved
    BY <2>1 DEF InPlace, LineKnown, Moving, AtLineStart
  <2>3. /\ StackOK(stack') /\ Traced(stack', errors) /\ ~Top'.empty
        /\ Top'.block = Top.block /\ InList'
    BY <1>1, StatementDone
  <2>4. UNCHANGED <<prev, next, block, moved, discarded>>
    BY <2>1 DEF stream
  <2>7. ModeOK' /\ StreamOK'
    BY <2>1 DEF ModeOK, PlainModes, AtLineStart, StreamOK, stream
  <2>8. Aligned' /\ InCaller'
    BY <2>1, <2>3, <2>4 DEF Aligned, InCaller, OfLists, OfCompounds
  <2>9. InPlace' /\ LineKnown' /\ Accounted' /\ Moving'
    BY <2>1, <2>2, <2>3, <2>4 DEF InPlace, LineKnown, Accounted, Moving, InLine, AtLineStart,
                                  at_statement_boundary
  <2>10. QED
    BY <2>1, <2>3, <2>4, <2>7, <2>8, <2>9
<1>2. CASE At("line_ok") /\ ~InList /\ Goto("suite_ok") /\ Stay
  <2>1. mode[1] = "line_ok" /\ mode'[1] = "suite_ok" /\ UNCHANGED <<stream, line, errors, stack>>
    BY <1>2 DEF At, Goto, Stay
  <2>2. at_statement_boundary /\ line = "clean" /\ moved
    BY <2>1 DEF InPlace, LineKnown, Moving, AtLineStart
  <2>3. (InCaller /\ InPlace /\ LineKnown /\ Accounted /\ Moving)'
    BY <1>2, <2>1, <2>2 DEF InCaller, InPlace, LineKnown, Accounted, Moving, InLine, AtLineStart,
                            OfLists, OfCompounds, stream, InList, Top, at_statement_boundary
  <2>4. QED
    BY <1>2, <2>1, <2>3, GoesOn DEF PlainModes, AtLineStart
<1>3. CASE At("line_failed") /\ InList /\ mode' = <<"synchronize", "guard">> /\ UNCHANGED stack /\ Stay
  <2>1. mode[1] = "line_failed" /\ mode'[1] = "synchronize" /\ UNCHANGED <<stream, line, errors, stack>>
    BY <1>3 DEF At, Stay
  <2>2. /\ line = "reported" /\ Top.reported /\ next \in LineTokens \union {"NEWLINE"}
        /\ prev = "word" => moved
    BY <2>1 DEF InPlace, LineKnown, Moving, Accounted
  <2>3. ModeOK' /\ StreamOK'
    BY <1>3, <2>1 DEF ModeOK, Synchronizing, StreamOK, stream
  <2>4. Aligned' /\ InCaller'
    BY <1>3, <2>1 DEF Aligned, InCaller, InList, Top, OfLists, OfCompounds, stream
  <2>5. InPlace' /\ LineKnown' /\ Accounted' /\ Moving'
    BY <2>1, <2>2 DEF InPlace, LineKnown, Accounted, Moving, InLine, AtLineStart, stream, Top
  <2>6. QED
    BY <2>1, <2>3, <2>4, <2>5 DEF stream
<1>4. CASE At("line_failed") /\ ~InList /\ Goto("null") /\ Stay
  <2>1. mode[1] = "line_failed" /\ mode'[1] = "null" /\ UNCHANGED <<stream, line, errors, stack>>
    BY <1>4 DEF At, Goto, Stay
  <2>2. line = "reported" /\ Top.reported /\ prev = "word" /\ moved
    BY <1>4, <2>1 DEF InPlace, LineKnown, Moving, Accounted
  <2>3. (InCaller /\ InPlace /\ LineKnown /\ Accounted /\ Moving)'
    BY <2>1, <2>2 DEF InCaller, InPlace, LineKnown, Accounted, Moving, InLine, AtLineStart,
                      OfLists, OfCompounds, stream, Top, at_statement_boundary, Boundary
  <2>4. QED
    BY <1>4, <2>1, <2>3, GoesOn DEF PlainModes
<1>5. QED
  BY <1>1, <1>2, <1>3, <1>4 DEF LineReturns

-----------------------------------------------------------------------------
(* Compound statements.                                                    *)

\* The header, the colon and what follows it on the line.
LEMMA HeadersPreserve ==
  ASSUME IInv, ParseHeader \/ HeaderFails \/ SuiteColon \/ SuiteBody
  PROVE  IInv'
<1>1. \E m \in {"header", "malformed", "suite", "suite_body"} : At(m)
  BY DEF ParseHeader, HeaderFails, SuiteColon, SuiteBody
<1>2. /\ mode[1] \in {"header", "malformed", "suite", "suite_body"}
      /\ mode[1] # "skip"
  BY <1>1 DEF At
<1>3. prev = "word" /\ line = "clean" /\ moved = TRUE /\ ~InList
  BY <1>2 DEF IInv, InPlace, LineKnown, Moving, InCaller, InLine, OfCompounds
<1>4. next \in LineTokens \union {"NEWLINE"}
  BY <1>3, Cursor DEF IInv
<1>5. next \in {"expr", ":"} => next \in LineTokens
  BY DEF LineTokens
<1>6. CASE ParseHeader
  <2>1. PICK m \in {"suite", "malformed"} : Goto(m)
    BY <1>6 DEF ParseHeader
  <2>2. m \in InLine /\ Take /\ next \in LineTokens
    BY <1>5, <1>6 DEF ParseHeader, InLine
  <2>3. QED
    BY <1>2, <1>3, <2>1, <2>2, TakesAWord
<1>7. CASE HeaderFails \/ (At("suite") /\ next # ":" /\ Fail("null"))
  BY <1>2, <1>3, <1>7, Fails DEF HeaderFails
<1>8. CASE At("suite") /\ next = ":" /\ Take /\ Goto("suite_body")
  BY <1>2, <1>3, <1>5, <1>8, TakesAWord DEF InLine
<1>9. CASE At("suite_body") /\ next = "NEWLINE" /\ Take /\ Goto("block")
  <2>1. /\ StreamOK' /\ at_statement_boundary' /\ UNCHANGED <<block, errors, discarded>>
        /\ moved' = TRUE /\ line' = "clean"
    BY <1>9, TakesNewline
  <2>2. mode' = <<"block">> /\ mode'[1] = "block" /\ UNCHANGED stack
    BY <1>9 DEF Goto
  <2>3. ModeOK'
    BY <2>2 DEF ModeOK, PlainModes, AtLineStart
  <2>4. Aligned' /\ InCaller'
    BY <1>2, <1>3, <2>1, <2>2 DEF IInv, Aligned, Top, InList, InCaller, OfLists, OfCompounds
  <2>5. InPlace' /\ LineKnown' /\ Accounted' /\ Moving'
    BY <2>1, <2>2 DEF InPlace, LineKnown, Accounted, Moving, InLine
  <2>6. QED
    BY <2>1, <2>2, <2>3, <2>4, <2>5 DEF IInv
<1>10. CASE At("suite_body") /\ next # "NEWLINE" /\ Goto("simple") /\ Stay
  <2>1. mode'[1] = "simple" /\ UNCHANGED <<stream, line, errors, stack>> /\ next \in LineTokens
    BY <1>4, <1>10 DEF Goto, Stay
  <2>2. (InCaller /\ InPlace /\ LineKnown /\ Accounted /\ Moving)'
    BY <1>3, <2>1 DEF InCaller, InPlace, LineKnown, Accounted, Moving, InLine, AtLineStart,
                      OfLists, OfCompounds, stream
  <2>3. QED
    BY <1>2, <1>10, <2>2, GoesOn DEF PlainModes
<1>11. QED
  BY <1>6, <1>7, <1>8, <1>9, <1>10 DEF SuiteColon, SuiteBody

\* A call in the block of its caller, or of a list in the block that begins.
LEMMA Calls ==
  ASSUME IInv, NEW rule \in Rules, NEW b \in 0..MaxBlocks, stack' = Call(rule, b),
         b = IF rule = "list" THEN Top.block + 1 ELSE Top.block,
         rule = "list" => ~InList
  PROVE  /\ StackOK(stack') /\ Traced(stack', errors)
         /\ Top'.rule = rule /\ Top'.block = b
<1> DEFINE f == [rule |-> rule, block |-> b, empty |-> TRUE, reported |-> FALSE]
<1>1. f \in Frames /\ f.rule = rule /\ f.block = b /\ f.reported = FALSE
  BY DEF Frames
<1>2. StackOK(stack) /\ Traced(stack, errors) /\ stack' = Append(stack, f)
  BY DEF IInv, Call
<1> HIDE DEF f
<1>3. Nested(stack[Len(stack)], f) /\ (f.reported => errors)
  BY <1>1 DEF Nested, Top, InList
<1>4. LET t == Append(stack, f) IN StackOK(t) /\ Traced(t, errors) /\ t[Len(t)] = f
  BY <1>1, <1>2, <1>3, Pushed, Zenon
<1>5. StackOK(stack') /\ Traced(stack', errors) /\ Top' = f
  BY <1>2, <1>4, Zenon DEF Top
<1>6. QED
  BY <1>1, <1>5

\* The innermost call returns to its caller.
LEMMA Returns ==
  ASSUME IInv, stack' = Below, Len(stack) > 1 \/ ~InList
  PROVE  /\ StackOK(stack') /\ Traced(stack', errors)
         /\ Top' \in Frames /\ Nested(Top', Top) /\ Top \in Frames
<1>1. StackOK(stack) /\ Traced(stack, errors) /\ Len(stack) > 1 /\ Top \in Frames
  BY CallsShape DEF IInv, InList, Top
<1>2. LET t == SubSeq(stack, 1, Len(stack) - 1)
      IN /\ StackOK(t) /\ Traced(t, errors) /\ t[Len(t)] \in Frames
         /\ Nested(t[Len(t)], stack[Len(stack)])
  BY <1>1, Popped, Zenon
<1>3. QED
  BY <1>1, <1>2, Zenon DEF Below, Top

LEMMA SuiteBlockPreserves ==
  ASSUME IInv, SuiteBlock
  PROVE  IInv'
<1>1. mode[1] = "block"
  <2>1. At("block")
    BY DEF SuiteBlock
  <2>2. QED
    BY <2>1 DEF At
<1>2. /\ at_statement_boundary /\ line = "clean" /\ moved = TRUE /\ ~InList
      /\ block = Top.block
  BY <1>1 DEF IInv, InPlace, LineKnown, Moving, InCaller, Aligned, AtLineStart, OfCompounds
<1>3. CASE next = "INDENT" /\ stack' = Call("list", Shift) /\ mode' = <<"statements">> /\ Take
  <2>1. next \notin LineTokens /\ next \in Boundary /\ next # "EOF"
    BY <1>3 DEF LineTokens, Boundary, Compound, Clauses
  <2>2. /\ StreamOK' /\ prev' = "INDENT" /\ block' = block + 1 /\ line' = "clean" /\ moved' = TRUE
        /\ Shift = block + 1 /\ UNCHANGED <<errors, discarded>>
    BY <1>3, <2>1, Moved DEF IInv, Take, Shift
  <2>3. Shift \in 0..MaxBlocks /\ "list" \in Rules
    BY <2>2 DEF StreamOK, Rules
  <2>4. StackOK(stack') /\ Traced(stack', errors) /\ Top'.rule = "list" /\ Top'.block = block + 1
    BY <1>2, <1>3, <2>2, <2>3, Calls
  <2>5. mode'[1] = "statements" /\ ModeOK'
    BY <1>3 DEF ModeOK, PlainModes, AtLineStart
  <2>6. Aligned' /\ InCaller'
    BY <2>2, <2>4, <2>5 DEF Aligned, InCaller, InList, OfLists, OfCompounds
  <2>7. InPlace' /\ LineKnown' /\ Accounted' /\ Moving'
    BY <2>2, <2>5 DEF InPlace, LineKnown, Accounted, Moving, InLine, AtLineStart,
                      at_statement_boundary, Boundary
  <2>8. QED
    BY <2>2, <2>4, <2>5, <2>6, <2>7 DEF IInv
<1>4. CASE At("block") /\ next # "INDENT" /\ Report(FALSE) /\ mode' = <<"null">>
  <2>1. /\ StackOK(stack') /\ Traced(stack', errors') /\ errors' = TRUE
        /\ Top'.block = Top.block /\ Top'.reported = TRUE
        /\ UNCHANGED stream /\ StreamOK'
    BY <1>4, Reported
  <2>2. mode'[1] = "null" /\ line' = line /\ ModeOK'
    BY <1>4 DEF Report, ModeOK, PlainModes
  <2>3. UNCHANGED <<prev, next, block, moved, discarded>>
    BY <2>1 DEF stream
  <2>4. Aligned' /\ InCaller'
    BY <1>2, <2>1, <2>2, <2>3 DEF Aligned, InCaller, OfLists, OfCompounds
  <2>5. InPlace' /\ LineKnown' /\ Accounted' /\ Moving'
    BY <1>2, <2>1, <2>2, <2>3 DEF InPlace, LineKnown, Accounted, Moving, InLine, AtLineStart,
                                  at_statement_boundary
  <2>6. QED
    BY <2>1, <2>2, <2>3, <2>4, <2>5 DEF IInv
<1>5. QED
  BY <1>3, <1>4 DEF SuiteBlock

\* A clause is read by the statement it belongs to.
LEMMA ClausePreserves ==
  ASSUME IInv, At("suite_ok"), next \in Clauses, Take,
         NEW m \in {"header", "suite"}, mode' = <<m>>,
         StackOK(stack'), Traced(stack', errors), ~InList', Top'.block = Top.block
  PROVE  IInv'
<1>1. mode[1] = "suite_ok" /\ line = "clean" /\ block = Top.block
  BY DEF At, IInv, LineKnown, Aligned
<1>2. next \in LineTokens
  BY DEF LineTokens
<1>3. /\ StreamOK' /\ prev' = "word" /\ block' = block /\ moved' = TRUE /\ line' = "clean"
      /\ UNCHANGED <<errors, discarded>>
  BY <1>1, <1>2, Moved DEF IInv, Take, Shift, LineTokens, Boundary, Compound, Clauses
<1>4. mode'[1] = m /\ ModeOK'
  BY DEF ModeOK, PlainModes, InLine
<1>5. Aligned' /\ InCaller'
  BY <1>1, <1>3, <1>4 DEF Aligned, InCaller, OfLists, OfCompounds
<1>6. InPlace' /\ LineKnown' /\ Accounted' /\ Moving'
  BY <1>3, <1>4 DEF InPlace, LineKnown, Accounted, Moving, InLine, AtLineStart
<1>7. QED
  BY <1>3, <1>4, <1>5, <1>6 DEF IInv

LEMMA SuiteReturnsPreserves ==
  ASSUME IInv, SuiteReturns
  PROVE  IInv'
<1>1. At("suite_ok") /\ mode[1] = "suite_ok"
  <2>1. At("suite_ok")
    BY DEF SuiteReturns
  <2>2. QED
    BY <2>1 DEF At
<1>2. /\ at_statement_boundary /\ line = "clean" /\ moved = TRUE /\ ~InList
      /\ block = Top.block
  BY <1>1 DEF IInv, InPlace, LineKnown, Moving, InCaller, Aligned, AtLineStart, OfCompounds
<1>3. /\ StackOK(stack) /\ Traced(stack, errors) /\ Top \in Frames
      /\ Top = stack[Len(stack)]
  BY CallsShape DEF IInv, Top
<1>4. CASE /\ Top.rule = "if" /\ next = "elif" /\ Take /\ mode' = <<"header">>
           /\ stack' = Append(WithTop("rule", "elif"), [Top EXCEPT !.reported = FALSE])
  <2> DEFINE g == [Top EXCEPT !.rule = "elif"]
             f == [Top EXCEPT !.reported = FALSE]
             outer == [stack EXCEPT ![Len(stack)] = g]
  <2>1. /\ g \in Frames /\ g.rule = "elif" /\ g.block = Top.block /\ g.reported = Top.reported
        /\ f \in Frames /\ f.rule = Top.rule /\ f.block = Top.block /\ f.reported = FALSE
    BY <1>3 DEF Frames, Rules
  <2>2. stack' = Append(outer, f)
    BY <1>3, <1>4 DEF WithTop
  <2> HIDE DEF f, g
  <2>3. /\ g.block = stack[Len(stack)].block /\ g.reported = stack[Len(stack)].reported
        /\ g.rule = "list" <=> stack[Len(stack)].rule = "list"
    BY <1>2, <1>3, <2>1 DEF InList
  <2>4. StackOK(outer) /\ Traced(outer, errors) /\ outer[Len(outer)] = g
    BY <1>3, <2>1, <2>3, Replaced, Zenon
  <2> HIDE DEF outer
  <2>5. Nested(g, f) /\ (f.reported => errors)
    BY <1>2, <2>1 DEF Nested, InList
  <2>6. StackOK(stack') /\ Traced(stack', errors) /\ stack'[Len(stack')] = f
    <3>1. LET t == Append(outer, f) IN StackOK(t) /\ Traced(t, errors) /\ t[Len(t)] = f
      BY <2>1, <2>4, <2>5, Pushed, Zenon
    <3>2. QED
      BY <2>2, <3>1, Zenon
  <2>7. ~InList' /\ Top'.block = Top.block /\ Traced(stack', errors')
    BY <1>2, <1>4, <2>1, <2>6 DEF InList, Top, Take
  <2>8. QED
    BY <1>1, <1>4, <2>6, <2>7, ClausePreserves DEF Clauses
<1>5. CASE Top.rule \in {"if", "loop"} /\ next = "else" /\ Take /\ mode' = <<"suite">>
           /\ stack' = WithTop("rule", "orelse")
  <2> DEFINE g == [Top EXCEPT !.rule = "orelse"]
  <2>1. /\ g \in Frames /\ g.rule = "orelse" /\ g.block = Top.block /\ g.reported = Top.reported
    BY <1>3 DEF Frames, Rules
  <2>2. stack' = [stack EXCEPT ![Len(stack)] = g]
    BY <1>3, <1>5 DEF WithTop
  <2> HIDE DEF g
  <2>3. /\ g.block = stack[Len(stack)].block /\ g.reported = stack[Len(stack)].reported
        /\ g.rule = "list" <=> stack[Len(stack)].rule = "list"
    BY <1>2, <1>3, <2>1 DEF InList
  <2>4. StackOK(stack') /\ Traced(stack', errors) /\ stack'[Len(stack')] = g
    <3>1. LET t == [stack EXCEPT ![Len(stack)] = g]
          IN StackOK(t) /\ Traced(t, errors) /\ t[Len(t)] = g
      BY <1>3, <2>1, <2>3, Replaced, Zenon
    <3>2. QED
      BY <2>2, <3>1, Zenon
  <2>5. ~InList' /\ Top'.block = Top.block /\ Traced(stack', errors')
    BY <1>5, <2>1, <2>4 DEF InList, Top, Take
  <2>6. QED
    BY <1>1, <1>5, <2>4, <2>5, ClausePreserves DEF Clauses
<1>6. CASE stack' = Below /\ mode' = <<"ok">> /\ Stay
  <2>1. StackOK(stack') /\ Traced(stack', errors) /\ Nested(Top', Top)
    BY <1>2, <1>6, Returns
  <2>2. Top'.block = Top.block
    BY <1>2, <2>1 DEF Nested, InList
  <2>3. UNCHANGED <<prev, next, block, moved, discarded, line, errors>>
    BY <1>6 DEF Stay, stream
  <2>4. mode'[1] = "ok" /\ ModeOK'
    BY <1>6 DEF ModeOK, PlainModes, AtLineStart
  <2>5. StreamOK'
    BY <2>3 DEF IInv, StreamOK
  <2>6. Aligned' /\ InCaller'
    BY <1>2, <2>2, <2>3, <2>4 DEF Aligned, InCaller, OfLists, OfCompounds
  <2>7. InPlace' /\ LineKnown' /\ Accounted' /\ Moving'
    BY <1>2, <2>3, <2>4 DEF InPlace, LineKnown, Accounted, Moving, InLine, AtLineStart,
                            at_statement_boundary
  <2>8. QED
    BY <2>1, <2>3, <2>4, <2>5, <2>6, <2>7 DEF IInv
<1>7. QED
  BY <1>4, <1>5, <1>6 DEF SuiteReturns

LEMMA StatementReturnsPreserves ==
  ASSUME IInv, StatementReturns
  PROVE  IInv'
<1>1. /\ mode[1] \in {"ok", "null"} /\ mode[1] # "skip" /\ moved
      /\ mode[1] = "ok" => at_statement_boundary /\ line = "clean"
      /\ mode[1] = "null" =>
           Top.reported /\ line = IF at_statement_boundary THEN "clean" ELSE "reported"
      /\ block = Top.block
  <2>1. At("ok") \/ At("null")
    BY DEF StatementReturns
  <2>2. mode[1] \in {"ok", "null"}
    BY <2>1 DEF At
  <2>3. QED
    BY <2>2 DEF IInv, InPlace, LineKnown, Accounted, Moving, Aligned, AtLineStart
<1>2. UNCHANGED <<prev, next, block, moved, discarded, line, errors>>
  BY DEF StatementReturns, Stay, stream
<1>3. StreamOK'
  BY <1>2 DEF IInv, StreamOK
<1>4. CASE ~InList /\ stack' = Below /\ UNCHANGED mode
  <2>1. StackOK(stack') /\ Traced(stack', errors) /\ Nested(Top', Top)
    BY <1>4, Returns
  <2>2. Top'.block = Top.block /\ (Top.reported => Top'.reported)
    BY <1>4, <2>1 DEF Nested, InList
  <2>3. ModeOK'
    BY <1>4 DEF IInv, ModeOK, Skipping, Synchronizing
  <2>4. Aligned' /\ InCaller'
    BY <1>1, <1>2, <1>4, <2>2 DEF Aligned, InCaller, OfLists, OfCompounds
  <2>5. InPlace' /\ LineKnown' /\ Accounted' /\ Moving'
    BY <1>1, <1>2, <1>4, <2>2 DEF IInv, InPlace, LineKnown, Accounted, Moving, InLine,
                                  AtLineStart, at_statement_boundary
  <2>6. QED
    BY <1>2, <1>3, <2>1, <2>3, <2>4, <2>5 DEF IInv
<1>5. CASE At("ok") /\ InList /\ stack' = WithTop("empty", FALSE) /\ mode' = <<"guard">>
  <2>1. /\ StackOK(stack') /\ Traced(stack', errors) /\ ~Top'.empty
        /\ Top'.block = Top.block /\ InList'
    BY <1>5, StatementDone
  <2>2. mode[1] = "ok" /\ mode'[1] = "guard" /\ ModeOK'
    BY <1>5 DEF At, ModeOK, PlainModes, AtLineStart
  <2>3. Aligned' /\ InCaller'
    BY <1>1, <1>2, <2>1, <2>2 DEF Aligned, InCaller, OfLists, OfCompounds
  <2>4. InPlace' /\ LineKnown' /\ Accounted' /\ Moving'
    BY <1>1, <1>2, <2>1, <2>2 DEF InPlace, LineKnown, Accounted, Moving, InLine, AtLineStart,
                                  at_statement_boundary
  <2>5. QED
    BY <1>2, <1>3, <2>1, <2>2, <2>3, <2>4 DEF IInv
<1>6. QED
  BY <1>4, <1>5 DEF StatementReturns

-----------------------------------------------------------------------------
(* Lists of statements.                                                    *)

LEMMA EndOfListPreserves ==
  ASSUME IInv, EndOfList
  PROVE  IInv'
<1>1. mode[1] = "statements" /\ next \in {"DEDENT", "EOF"}
  BY DEF EndOfList, At
<1>2. /\ at_statement_boundary /\ line = "clean" /\ InList /\ block = Top.block
      /\ Len(stack) > 1 => Top.reported \/ ~Top.empty \/ prev = "INDENT"
  BY <1>1 DEF IInv, InPlace, LineKnown, InCaller, Aligned, Accounted, AtLineStart, OfLists
<1>3. /\ prev # "INDENT" /\ block \in Nat
      /\ next = "EOF" => block = 0
      /\ next = "DEDENT" => block > 0
  <2>1. StreamOK /\ block \in Nat
    BY ParserAssumption DEF IInv, StreamOK
  <2>2. next \notin LineTokens
    BY <1>1 DEF LineTokens, Compound, Clauses
  <2>3. QED
    BY <2>1, <2>2, Cursor
<1>4. CASE Len(stack) > 1
  <2>1. /\ stack' = Below /\ Take
        /\ mode' = IF Top.empty THEN <<"null">> ELSE <<"suite_ok">>
    BY <1>4 DEF EndOfList
  <2>2. /\ StackOK(stack') /\ Traced(stack', errors) /\ Top' \in Frames /\ Nested(Top', Top)
    BY <1>4, <2>1, Returns
  <2>3. /\ Top.block = Top'.block + 1 /\ Top'.block \in Nat /\ ~InList'
        /\ Top.reported => Top'.reported
    BY <1>2, <2>2, ParserAssumption DEF Nested, InList, Frames
  <2>4. next = "DEDENT" /\ next \notin LineTokens /\ next \in Boundary
    <3>1. next # "EOF"
      BY <1>2, <1>3, <2>3
    <3>2. QED
      BY <1>1, <3>1 DEF LineTokens, Boundary, Compound, Clauses
  <2>5. /\ StreamOK' /\ prev' = "DEDENT" /\ block' = block - 1 /\ line' = "clean" /\ moved' = TRUE
        /\ UNCHANGED <<errors, discarded>>
    BY <2>1, <2>4, Moved DEF IInv, Take, Shift
  <2>6. /\ mode'[1] = (IF Top.empty THEN "null" ELSE "suite_ok")
        /\ ModeOK'
    BY <2>1 DEF ModeOK, PlainModes, AtLineStart
  <2>7. block' = Top'.block
    BY <1>2, <1>3, <2>3, <2>5
  <2>8. Aligned' /\ InCaller'
    BY <2>3, <2>6, <2>7 DEF Aligned, InCaller, OfLists, OfCompounds
  <2>9. InPlace' /\ LineKnown' /\ Accounted' /\ Moving'
    BY <1>2, <1>3, <1>4, <2>3, <2>5, <2>6
       DEF InPlace, LineKnown, Accounted, Moving, InLine, AtLineStart, at_statement_boundary, Boundary
  <2>10. QED
    BY <2>2, <2>5, <2>6, <2>8, <2>9 DEF IInv
<1>5. CASE ~(Len(stack) > 1)
  <2>1. Len(stack) = 1 /\ Top = stack[1] /\ Top.block = 0
    <3>1. Len(stack) \in Nat /\ Len(stack) >= 1
      BY CallsShape DEF IInv
    <3>2. Len(stack) = 1
      BY <1>5, <3>1
    <3>3. QED
      BY <3>2 DEF IInv, Top, StackOK
  <2>2. next = "EOF"
    BY <1>1, <1>2, <1>3, <2>1
  <2>3. Goto("done") /\ Stay
    BY <1>5, <2>2 DEF EndOfList
  <2>4. mode'[1] = "done" /\ UNCHANGED <<stream, line, errors, stack>>
    BY <2>3 DEF Goto, Stay
  <2>5. (InCaller /\ InPlace /\ LineKnown /\ Accounted /\ Moving)'
    BY <1>2, <2>4 DEF IInv, InCaller, InPlace, LineKnown, Accounted, Moving, InLine, AtLineStart,
                      OfLists, OfCompounds, stream, InList, Top, at_statement_boundary
  <2>6. QED
    BY <1>1, <2>3, <2>5, GoesOn DEF PlainModes, AtLineStart
<1>6. QED
  BY <1>4, <1>5

\* Recovery looks, and reads nothing.
LEMMA Rests ==
  ASSUME IInv, UNCHANGED <<stack, stream, errors>>
  PROVE  /\ StreamOK' /\ StackOK(stack') /\ Traced(stack', errors')
         /\ Top' = Top /\ InList' = InList /\ at_statement_boundary' = at_statement_boundary
         /\ UNCHANGED <<prev, next, block, moved, discarded>>
BY DEF IInv, StreamOK, stream, Top, InList, at_statement_boundary

\* A token is thrown away, for what was reported.
LEMMA Discards ==
  ASSUME IInv, Discard, UNCHANGED stack, next # "EOF", Top.reported
  PROVE  /\ StreamOK' /\ StackOK(stack') /\ Traced(stack', errors') /\ Top' = Top
         /\ InList' = InList /\ block' = Shift /\ moved' = TRUE
         /\ prev' = (IF next \in LineTokens THEN "word" ELSE next)
         /\ line' = IF next \in Boundary THEN "clean" ELSE line
         /\ errors' = errors /\ errors = TRUE /\ discarded' = TRUE
<1>1. /\ StreamOK' /\ block' = Shift /\ moved' = TRUE
      /\ prev' = (IF next \in LineTokens THEN "word" ELSE next)
      /\ line' = IF next \in Boundary THEN "clean" ELSE line
  BY Moved DEF IInv, Discard
<1>2. Len(stack) \in 1..Len(stack) /\ Top = stack[Len(stack)]
  BY CallsShape DEF IInv, Top
<1>3. errors = TRUE
  BY <1>2 DEF IInv, Traced
<1>4. QED
  BY <1>1, <1>3 DEF IInv, Discard, Top, InList

\* In a list, at the start of a line.
LEMMA AtStatements ==
  ASSUME IInv, mode[1] \in AtLineStart, mode[1] \in OfLists
  PROVE  /\ at_statement_boundary /\ line = "clean" /\ InList /\ block = Top.block
         /\ block \in 0..MaxBlocks
         /\ prev # "word" /\ mode[1] # "skip"
         /\ next \in LineTokens \union {"INDENT", "DEDENT", "EOF"}
<1>1. /\ at_statement_boundary /\ line = "clean" /\ InList /\ block = Top.block
      /\ mode[1] # "skip" /\ block \in 0..MaxBlocks /\ StreamOK
  BY DEF IInv, InPlace, LineKnown, InCaller, Aligned, AtLineStart, StreamOK
<1>2. prev # "word"
  BY <1>1 DEF at_statement_boundary, Boundary
<1>3. QED
  BY <1>1, <1>2, Cursor

LEMMA UnexpectedIndentPreserves ==
  ASSUME IInv, UnexpectedIndent
  PROVE  IInv'
<1>1. mode[1] = "statements" /\ next = "INDENT" /\ Report(FALSE) /\ mode' = <<"skip", 0, "statements">>
  BY DEF UnexpectedIndent, At
<1>2. /\ at_statement_boundary /\ line = "clean" /\ InList /\ block = Top.block /\ prev # "word"
      /\ block \in 0..MaxBlocks
  BY <1>1, AtStatements DEF AtLineStart, OfLists
<1>3. /\ StackOK(stack') /\ Traced(stack', errors') /\ errors' = TRUE
      /\ Top'.block = Top.block /\ Top'.reported = TRUE /\ InList'
      /\ UNCHANGED stream /\ StreamOK'
  BY <1>1, <1>2, Reported
<1>4. /\ mode'[1] = "skip" /\ mode'[2] = 0 /\ line' = line
      /\ UNCHANGED <<prev, next, block, moved, discarded>>
  BY <1>1, <1>3 DEF Report, stream
<1>5. ModeOK'
  BY <1>1 DEF ModeOK, Skipping
<1>6. Aligned'
  <2>1. Top'.block + mode'[2] = block'
    BY <1>2, <1>3, <1>4, ParserAssumption
  <2>2. QED
    BY <1>4, <2>1 DEF Aligned
<1>7. InCaller' /\ InPlace' /\ LineKnown' /\ Accounted' /\ Moving'
  BY <1>1, <1>2, <1>3, <1>4
     DEF InCaller, InPlace, LineKnown, Accounted, Moving, InLine, AtLineStart, OfCompounds
<1>8. QED
  BY <1>3, <1>4, <1>5, <1>6, <1>7 DEF IInv

LEMMA ParseCompoundPreserves ==
  ASSUME IInv, ParseCompound
  PROVE  IInv'
<1>1. /\ mode[1] = "statements" /\ next \in Compound /\ stack' = Call(next, block)
      /\ mode' = <<"header">> /\ Take
  BY DEF ParseCompound, At
<1>2. line = "clean" /\ block = Top.block /\ block \in 0..MaxBlocks
  BY <1>1, AtStatements DEF AtLineStart, OfLists
<1>3. next \in LineTokens /\ next \in Rules /\ next # "list"
  BY <1>1 DEF LineTokens, Rules, Compound
<1>4. /\ StreamOK' /\ prev' = "word" /\ block' = block /\ moved' = TRUE /\ line' = "clean"
      /\ UNCHANGED <<errors, discarded>>
  BY <1>1, <1>2, <1>3, Moved DEF IInv, Take, Shift, LineTokens, Boundary, Compound, Clauses
<1>5. /\ StackOK(stack') /\ Traced(stack', errors) /\ Top'.rule = next /\ Top'.block = block
  BY <1>1, <1>2, <1>3, Calls
<1>6. mode'[1] = "header" /\ ModeOK'
  BY <1>1 DEF ModeOK, PlainModes, InLine
<1>7. Aligned' /\ InCaller'
  BY <1>3, <1>4, <1>5, <1>6 DEF Aligned, InCaller, InList, OfLists, OfCompounds
<1>8. InPlace' /\ LineKnown' /\ Accounted' /\ Moving'
  BY <1>4, <1>6 DEF InPlace, LineKnown, Accounted, Moving, InLine, AtLineStart
<1>9. QED
  BY <1>4, <1>5, <1>6, <1>7, <1>8 DEF IInv

LEMMA ParseLinePreserves ==
  ASSUME IInv, ParseLine
  PROVE  IInv'
<1>1. mode[1] = "statements" /\ next \in (LineTokens \ Compound) \union {"NEWLINE"}
  BY DEF ParseLine, At
<1>2. /\ at_statement_boundary /\ line = "clean" /\ InList /\ block = Top.block /\ prev # "word"
      /\ next \in LineTokens \union {"INDENT", "DEDENT", "EOF"}
  BY <1>1, AtStatements DEF AtLineStart, OfLists
<1>3. next \in LineTokens /\ next # "NEWLINE"
  BY <1>1, <1>2 DEF LineTokens, Compound, Clauses
<1>4. /\ mode' = <<"simple">> /\ moved' = FALSE
      /\ UNCHANGED <<prev, next, block, discarded, line, errors, stack>>
  BY <1>3 DEF ParseLine, Goto
<1>5. mode'[1] = "simple" /\ ModeOK'
  BY <1>4 DEF ModeOK, PlainModes
<1>6. StreamOK' /\ Top' = Top /\ InList'
  BY <1>2, <1>4 DEF IInv, StreamOK, Top, InList
<1>7. Aligned' /\ InCaller'
  BY <1>2, <1>4, <1>5, <1>6 DEF Aligned, InCaller, OfCompounds
<1>8. InPlace' /\ LineKnown' /\ Accounted' /\ Moving'
  BY <1>2, <1>3, <1>4, <1>5, <1>6 DEF InPlace, LineKnown, Accounted, Moving, InLine, AtLineStart
<1>9. QED
  BY <1>4, <1>5, <1>6, <1>7, <1>8 DEF IInv

LEMMA ProgressGuardPreserves ==
  ASSUME IInv, ProgressGuard
  PROVE  IInv'
<1>1. mode[1] = "guard"
  BY DEF ProgressGuard, At
<1>2. /\ at_statement_boundary /\ line = "clean" /\ InList /\ moved = TRUE
      /\ mode[1] # "skip" /\ (Top.reported \/ ~Top.empty)
  BY <1>1, AtStatements DEF IInv, Moving, Accounted, AtLineStart, OfLists
<1>3. Goto("statements") /\ Stay
  BY <1>2 DEF ProgressGuard
<1>4. mode'[1] = "statements" /\ UNCHANGED <<stack, stream, errors, line>>
  BY <1>3 DEF Goto, Stay
<1>5. (InCaller /\ InPlace /\ LineKnown /\ Accounted /\ Moving)'
  BY <1>2, <1>4, Rests DEF InCaller, InPlace, LineKnown, Accounted, Moving, InLine, AtLineStart,
                           OfCompounds
<1>6. QED
  BY <1>2, <1>3, <1>5, GoesOn DEF PlainModes, AtLineStart

-----------------------------------------------------------------------------
(* Recovery.                                                               *)

LEMMA RecoverPreserves ==
  ASSUME IInv, Recover
  PROVE  IInv'
<1>1. mode[1] = "null" /\ mode[1] # "skip" /\ InList /\ UNCHANGED stack /\ Stay
  BY DEF Recover, At
<1>2. /\ Top.reported /\ moved /\ block = Top.block
      /\ line = IF at_statement_boundary THEN "clean" ELSE "reported"
  BY <1>1 DEF IInv, LineKnown, Accounted, Moving, Aligned
<1>3. UNCHANGED <<stack, stream, errors, line>>
  BY <1>1 DEF Stay
<1>4. CASE at_statement_boundary
  <2>1. Goto("orphan_block")
    BY <1>1, <1>4 DEF Recover, Goto
  <2>2. mode'[1] = "orphan_block"
    BY <2>1 DEF Goto
  <2>3. prev # "word"
    BY <1>4 DEF at_statement_boundary, Boundary
  <2>4. (InCaller /\ InPlace /\ LineKnown /\ Accounted /\ Moving)'
    BY <1>1, <1>2, <1>3, <1>4, <2>2, <2>3, Rests
       DEF InCaller, InPlace, LineKnown, Accounted, Moving, InLine, AtLineStart, OfCompounds
  <2>5. QED
    BY <1>1, <2>1, <2>4, GoesOn DEF PlainModes, AtLineStart
<1>5. CASE ~at_statement_boundary
  <2>1. mode' = <<"synchronize", "orphan_block">> /\ mode'[1] = "synchronize"
    BY <1>5 DEF Recover
  <2>2. prev = "word" /\ next \in LineTokens \union {"NEWLINE"}
    BY <1>5, Cursor DEF IInv
  <2>3. ModeOK'
    BY <2>1 DEF ModeOK, Synchronizing
  <2>4. Aligned' /\ InCaller'
    BY <1>1, <1>2, <1>3, <2>1, Rests DEF Aligned, InCaller, OfCompounds
  <2>5. InPlace' /\ LineKnown' /\ Accounted' /\ Moving'
    BY <1>2, <1>3, <1>5, <2>1, <2>2, Rests
       DEF InPlace, LineKnown, Accounted, Moving, InLine, AtLineStart
  <2>6. QED
    BY <1>3, <2>3, <2>4, <2>5, Rests DEF IInv
<1>6. QED
  BY <1>4, <1>5

LEMMA OrphanBlockPreserves ==
  ASSUME IInv, OrphanBlock
  PROVE  IInv'
<1>1. mode[1] = "orphan_block" /\ UNCHANGED <<stack, stream, errors, line>> /\ Stay
  BY DEF OrphanBlock, At, Stay
<1>2. /\ at_statement_boundary /\ line = "clean" /\ InList /\ block = Top.block /\ prev # "word"
      /\ mode[1] # "skip" /\ block \in 0..MaxBlocks
  BY <1>1, AtStatements DEF AtLineStart, OfLists
<1>3. moved /\ Top.reported
  BY <1>1 DEF IInv, Moving, Accounted
<1>4. CASE next = "INDENT"
  <2>1. mode' = <<"skip", 0, "orphan_clause">> /\ mode'[1] = "skip" /\ mode'[2] = 0
    BY <1>4 DEF OrphanBlock
  <2>2. ModeOK'
    BY <2>1 DEF ModeOK, Skipping
  <2>3. Aligned'
    <3>1. Top'.block + mode'[2] = block'
      BY <1>1, <1>2, <2>1, Rests, ParserAssumption
    <3>2. QED
      BY <2>1, <3>1 DEF Aligned
  <2>4. InCaller' /\ InPlace' /\ LineKnown' /\ Accounted' /\ Moving'
    BY <1>1, <1>2, <1>3, <1>4, <2>1, Rests
       DEF InCaller, InPlace, LineKnown, Accounted, Moving, InLine, AtLineStart, OfCompounds
  <2>5. QED
    BY <1>1, <2>2, <2>3, <2>4, Rests DEF IInv
<1>5. CASE next # "INDENT"
  <2>1. Goto("orphan_clause")
    BY <1>5 DEF OrphanBlock, Goto
  <2>2. mode'[1] = "orphan_clause"
    BY <2>1 DEF Goto
  <2>3. (InCaller /\ InPlace /\ LineKnown /\ Accounted /\ Moving)'
    BY <1>1, <1>2, <1>3, <2>2, Rests
       DEF InCaller, InPlace, LineKnown, Accounted, Moving, InLine, AtLineStart, OfCompounds
  <2>4. QED
    BY <1>1, <1>2, <2>1, <2>3, GoesOn DEF PlainModes, AtLineStart
<1>6. QED
  BY <1>4, <1>5

LEMMA OrphanClausePreserves ==
  ASSUME IInv, OrphanClause
  PROVE  IInv'
<1>1. At("orphan_clause")
  BY DEF OrphanClause
<1>2. mode[1] = "orphan_clause" /\ mode[1] # "skip"
  BY <1>1 DEF At
<1>3. /\ at_statement_boundary /\ line = "clean" /\ InList /\ block = Top.block /\ prev # "word"
  BY <1>2, AtStatements DEF AtLineStart, OfLists
<1>4. moved /\ Top.reported
  BY <1>2 DEF IInv, Moving, Accounted
<1>5. CASE /\ next \in Clauses /\ mode' = <<"synchronize", "orphan_block">> /\ line' = "orphan"
           /\ UNCHANGED <<stack, stream, errors>>
  <2>1. mode'[1] = "synchronize" /\ ModeOK'
    BY <1>5 DEF ModeOK, Synchronizing
  <2>2. next \in LineTokens
    BY <1>5 DEF LineTokens
  <2>3. Aligned' /\ InCaller'
    BY <1>3, <1>5, <2>1, Rests DEF Aligned, InCaller, OfCompounds
  <2>4. InPlace' /\ LineKnown' /\ Accounted' /\ Moving'
    BY <1>3, <1>4, <1>5, <2>1, <2>2, Rests
       DEF InPlace, LineKnown, Accounted, Moving, InLine, AtLineStart
  <2>5. QED
    BY <1>5, <2>1, <2>3, <2>4, Rests DEF IInv
<1>6. CASE Goto("guard") /\ Stay
  <2>1. mode'[1] = "guard" /\ UNCHANGED <<stack, stream, errors, line>>
    BY <1>6 DEF Goto, Stay
  <2>2. (InCaller /\ InPlace /\ LineKnown /\ Accounted /\ Moving)'
    BY <1>3, <1>4, <2>1, Rests
       DEF InCaller, InPlace, LineKnown, Accounted, Moving, InLine, AtLineStart, OfCompounds
  <2>3. QED
    BY <1>2, <1>6, <2>2, GoesOn DEF PlainModes, AtLineStart
<1>7. QED
  BY <1>5, <1>6 DEF OrphanClause

LEMMA SynchronizePreserves ==
  ASSUME IInv, synchronize
  PROVE  IInv'
<1>1. mode[1] = "synchronize" /\ UNCHANGED stack
  BY DEF synchronize
<1>2. /\ next \in LineTokens \union {"NEWLINE"} /\ Top.reported /\ InList /\ block = Top.block
      /\ line \in {"orphan", "reported"}
      /\ \E to \in {"guard", "orphan_block"} : mode = <<"synchronize", to>>
  <2>1. \E to \in {"guard", "orphan_block"} : mode = <<"synchronize", to>>
    BY <1>1 DEF IInv, ModeOK, PlainModes, InLine, AtLineStart, Skipping, Synchronizing
  <2>2. line = IF line = "orphan" THEN "orphan" ELSE "reported"
    BY <1>1 DEF IInv, LineKnown
  <2>3. QED
    BY <1>1, <2>1, <2>2 DEF IInv, InPlace, Accounted, InCaller, Aligned, OfLists
<1>3. next \notin {"INDENT", "DEDENT", "EOF"}
  BY <1>2 DEF LineTokens, Compound, Clauses
<1>4. Discard /\ mode' = IF next = "NEWLINE" THEN <<mode[2]>> ELSE mode
  BY <1>3 DEF synchronize
<1>5. /\ StreamOK' /\ StackOK(stack') /\ Traced(stack', errors') /\ Top' = Top /\ InList'
      /\ block' = block /\ moved' = TRUE /\ errors' = TRUE /\ discarded' = TRUE
      /\ prev' = (IF next \in LineTokens THEN "word" ELSE next)
      /\ line' = IF next \in Boundary THEN "clean" ELSE line
  BY <1>1, <1>2, <1>3, <1>4, Discards DEF Shift
<1>6. CASE next = "NEWLINE"
  <2>1. PICK to \in {"guard", "orphan_block"} : mode' = <<to>>
    BY <1>2, <1>4, <1>6
  <2>2. mode'[1] = to /\ ModeOK'
    BY <2>1 DEF ModeOK, PlainModes, AtLineStart
  <2>3. prev' = "NEWLINE" /\ line' = "clean"
    BY <1>5, <1>6 DEF LineTokens, Compound, Clauses, Boundary
  <2>4. Aligned' /\ InCaller'
    BY <1>2, <1>5, <2>2 DEF Aligned, InCaller, OfCompounds
  <2>5. InPlace' /\ LineKnown' /\ Accounted' /\ Moving'
    BY <1>2, <1>5, <2>2, <2>3
       DEF InPlace, LineKnown, Accounted, Moving, InLine, at_statement_boundary, Boundary
  <2>6. QED
    BY <1>5, <2>2, <2>4, <2>5 DEF IInv
<1>7. CASE next # "NEWLINE"
  <2>1. mode' = mode /\ next \in LineTokens /\ next \notin Boundary
    BY <1>2, <1>3, <1>4, <1>7 DEF Boundary
  <2>2. ModeOK' /\ mode'[1] = "synchronize"
    BY <1>1, <2>1 DEF IInv, ModeOK, Skipping, Synchronizing
  <2>3. prev' = "word" /\ line' = line /\ next' \in LineTokens \union {"NEWLINE"}
    <3>1. prev' = "word" /\ line' = line
      BY <1>5, <2>1
    <3>2. next' \in Follows(prev', block')
      BY <1>5 DEF StreamOK
    <3>3. QED
      BY <3>1, <3>2 DEF Follows
  <2>4. Aligned' /\ InCaller'
    BY <1>2, <1>5, <2>2 DEF Aligned, InCaller, OfCompounds
  <2>5. InPlace' /\ LineKnown' /\ Accounted' /\ Moving'
    BY <1>2, <1>5, <2>2, <2>3
       DEF InPlace, LineKnown, Accounted, Moving, InLine, AtLineStart
  <2>6. QED
    BY <1>5, <2>2, <2>4, <2>5 DEF IInv
<1>8. QED
  BY <1>6, <1>7

LEMMA SkipPreserves ==
  ASSUME IInv, skip_unexpected_block
  PROVE  IInv'
<1>1. mode[1] = "skip" /\ UNCHANGED stack /\ Discard
  BY DEF skip_unexpected_block
<1>2. PICK d \in Nat, to \in {"statements", "orphan_clause"} : mode = <<"skip", d, to>>
  BY <1>1 DEF IInv, ModeOK, PlainModes, InLine, AtLineStart, Skipping, Synchronizing
<1>3. mode[2] = d /\ mode[3] = to
  BY <1>2
<1>4. /\ Top.reported /\ InList /\ line = "clean" /\ block = Top.block + d
      /\ d = 0 => next = "INDENT"
  BY <1>1, <1>3 DEF IInv, LineKnown, Accounted, InCaller, Aligned, InPlace, OfLists
<1>5. Top.block \in Nat /\ block \in Nat
  <2>1. Top \in Frames
    BY CallsShape DEF IInv, Top
  <2>2. QED
    BY <2>1, ParserAssumption DEF Frames, IInv, StreamOK
<1>6. next # "EOF"
  <2>1. next = "EOF" => block = 0
    BY Cursor DEF IInv
  <2>2. next = "EOF" => d = 0
    BY <1>4, <1>5, <2>1
  <2>3. QED
    BY <1>4, <2>2
<1>7. /\ StreamOK' /\ StackOK(stack') /\ Traced(stack', errors') /\ Top' = Top /\ InList'
      /\ block' = Shift /\ moved' = TRUE /\ errors' = TRUE /\ discarded' = TRUE
      /\ prev' = IF next \in LineTokens THEN "word" ELSE next
  BY <1>1, <1>4, <1>6, Discards
<1>8. line' = "clean"
  BY <1>1, <1>4, <1>6, Discards
<1> DEFINE depth == CASE next = "INDENT" -> d + 1
                      [] next = "DEDENT" -> d - 1
                      [] OTHER -> d
<1>9. mode' = IF depth = 0 THEN <<to>> ELSE <<"skip", depth, to>>
  BY <1>2, <1>3 DEF skip_unexpected_block
<1>10. /\ depth \in Nat /\ block' = Top'.block + depth
       /\ depth = 0 => next = "DEDENT"
  <2>1. CASE next = "INDENT"
    BY <1>4, <1>5, <1>7, <2>1 DEF Shift
  <2>2. CASE next = "DEDENT"
    BY <1>4, <1>5, <1>7, <2>2 DEF Shift
  <2>3. CASE next \notin {"INDENT", "DEDENT"}
    BY <1>4, <1>5, <1>7, <2>3 DEF Shift
  <2>4. QED
    BY <2>1, <2>2, <2>3
<1> HIDE DEF depth
<1>11. CASE depth = 0
  <2>1. mode' = <<to>> /\ mode'[1] = to
    BY <1>9, <1>11
  <2>2. ModeOK'
    BY <2>1 DEF ModeOK, PlainModes, AtLineStart
  <2>3. prev' = "DEDENT"
    BY <1>7, <1>10, <1>11 DEF LineTokens, Compound, Clauses
  <2>4. Aligned'
    <3>1. block' = Top'.block
      BY <1>5, <1>7, <1>10, <1>11
    <3>2. QED
      BY <2>1, <3>1 DEF Aligned
  <2>5. InCaller' /\ InPlace' /\ LineKnown' /\ Accounted' /\ Moving'
    BY <1>4, <1>7, <1>8, <2>1, <2>3
       DEF InCaller, InPlace, LineKnown, Accounted, Moving, InLine, OfCompounds,
           at_statement_boundary, Boundary
  <2>6. QED
    BY <1>7, <2>2, <2>4, <2>5 DEF IInv
<1>12. CASE depth # 0
  <2>1. mode' = <<"skip", depth, to>> /\ mode'[1] = "skip" /\ mode'[2] = depth
    BY <1>9, <1>12
  <2>2. ModeOK'
    BY <1>10, <2>1 DEF ModeOK, Skipping
  <2>3. Aligned'
    BY <1>10, <2>1 DEF Aligned
  <2>4. InCaller' /\ InPlace' /\ LineKnown' /\ Accounted' /\ Moving'
    BY <1>4, <1>7, <1>8, <1>12, <2>1
       DEF InCaller, InPlace, LineKnown, Accounted, Moving, InLine, AtLineStart, OfCompounds
  <2>5. QED
    BY <1>7, <2>2, <2>3, <2>4 DEF IInv
<1>13. QED
  BY <1>11, <1>12

-----------------------------------------------------------------------------
(* The invariant, and what follows from it.                                *)

LEMMA Initially ==
  ASSUME Init
  PROVE  IInv
<1>1. mode = <<"statements">> /\ mode[1] = "statements"
  BY DEF Init
<1>2. /\ prev = "start" /\ next \in Follows(prev, block) /\ block = 0
      /\ moved = FALSE /\ line = "clean" /\ errors = FALSE /\ discarded = FALSE
  BY DEF Init
<1>3. /\ stack \in Seq(Frames) /\ stack # <<>> /\ Len(stack) = 1 /\ Top = stack[1]
      /\ stack[1] = [rule |-> "list", block |-> 0, empty |-> TRUE, reported |-> FALSE]
  BY ParserAssumption DEF Init, Top, Frames, Rules
<1>4. ModeOK /\ StreamOK
  BY <1>1, <1>2, ParserAssumption DEF ModeOK, PlainModes, AtLineStart, StreamOK
<1>5. StackOK(stack) /\ Traced(stack, errors)
  BY <1>3 DEF StackOK, Traced
<1>6. Aligned /\ InCaller
  BY <1>1, <1>2, <1>3 DEF Aligned, InCaller, InList, OfCompounds
<1>7. InPlace /\ LineKnown /\ Accounted /\ Moving
  BY <1>1, <1>2, <1>3 DEF InPlace, LineKnown, Accounted, Moving, InLine, at_statement_boundary
<1>8. QED
  BY <1>2, <1>4, <1>5, <1>6, <1>7 DEF IInv

\* A step that changes nothing.
LEMMA Stutters ==
  ASSUME IInv, UNCHANGED vars
  PROVE  IInv'
<1>1. UNCHANGED <<prev, next, block, moved, discarded, stack, mode, line, errors>>
  BY DEF vars, stream
<1>2. Top' = Top /\ InList' = InList /\ at_statement_boundary' = at_statement_boundary
  BY <1>1 DEF Top, InList, at_statement_boundary
<1>3. (ModeOK /\ StreamOK /\ Aligned /\ InCaller)'
  BY <1>1, <1>2 DEF IInv, ModeOK, Skipping, Synchronizing, StreamOK, Aligned, InCaller
<1>4. (InPlace /\ LineKnown /\ Accounted /\ Moving)'
  BY <1>1, <1>2 DEF IInv, InPlace, LineKnown, Accounted, Moving
<1>5. QED
  BY <1>1, <1>3, <1>4 DEF IInv

LEMMA Preserved ==
  ASSUME IInv, [Next]_vars
  PROVE  IInv'
<1>1. CASE UNCHANGED vars
  BY <1>1, Stutters
<1>2. CASE EndOfList
  BY <1>2, EndOfListPreserves
<1>3. CASE UnexpectedIndent
  BY <1>3, UnexpectedIndentPreserves
<1>4. CASE ParseCompound
  BY <1>4, ParseCompoundPreserves
<1>5. CASE ParseLine
  BY <1>5, ParseLinePreserves
<1>6. CASE ProgressGuard
  BY <1>6, ProgressGuardPreserves
<1>7. CASE \/ ParseSimple \/ RejectSimple \/ ParseReturn \/ ParseAssignment \/ NoAssignment
           \/ ParseOperand \/ NextSimple
  BY <1>7, SimpleStatementsPreserve
<1>8. CASE EndOfLine
  BY <1>8, EndOfLinePreserves
<1>9. CASE LineReturns
  BY <1>9, LineReturnsPreserves
<1>10. CASE ParseHeader \/ HeaderFails \/ SuiteColon \/ SuiteBody
  BY <1>10, HeadersPreserve
<1>11. CASE SuiteBlock
  BY <1>11, SuiteBlockPreserves
<1>12. CASE SuiteReturns
  BY <1>12, SuiteReturnsPreserves
<1>13. CASE StatementReturns
  BY <1>13, StatementReturnsPreserves
<1>14. CASE Recover
  BY <1>14, RecoverPreserves
<1>15. CASE OrphanBlock
  BY <1>15, OrphanBlockPreserves
<1>16. CASE OrphanClause
  BY <1>16, OrphanClausePreserves
<1>17. CASE synchronize
  BY <1>17, SynchronizePreserves
<1>18. CASE skip_unexpected_block
  BY <1>18, SkipPreserves
<1>19. QED
  BY <1>1, <1>2, <1>3, <1>4, <1>5, <1>6, <1>7, <1>8, <1>9, <1>10, <1>11, <1>12, <1>13, <1>14,
     <1>15, <1>16, <1>17, <1>18, Zenon DEF Next

\* The cursor is where the calls in progress take it to be, the calls nest as the blocks of
\* the text do, and a call with nothing to show was told of a diagnostic (the contract
\* between parse_statement_list, its rules and their recovery).
THEOREM Invariance == Spec => []IInv
<1>1. Init => IInv
  BY Initially
<1>2. IInv /\ [Next]_vars => IInv'
  BY Preserved
<1>3. QED
  BY <1>1, <1>2, PTL DEF Spec

\* A list of statements reads at the depth of its own block, and a suite that ends is back
\* at the depth of its header, whatever was reported and thrown away in between
\* (parse_suite, skip_unexpected_block).
THEOREM SuitesAreAligned == Spec => []SuitesMatchBlocks
<1>1. IInv => SuitesMatchBlocks
  BY DEF IInv, Aligned, SuitesMatchBlocks
<1>2. QED
  BY <1>1, Invariance, PTL

\* A rule that fails, and a suite without a statement, has been reported: the callers that
\* return null without a message lose nothing silently (parse_suite, reject).
THEOREM NoSilentFailure == Spec => []FailureIsReported
<1>1. IInv => FailureIsReported
  BY DEF IInv, Accounted, FailureIsReported, At
<1>2. QED
  BY <1>1, Invariance, PTL

\* A text without a diagnostic is in the tree to its last token (parse_module).
THEOREM NothingDroppedUnreported == Spec => []AcceptedIsComplete
<1>1. IInv => AcceptedIsComplete
  BY DEF IInv, AcceptedIsComplete
<1>2. QED
  BY <1>1, Invariance, PTL

LEMMA Exact ==
  ASSUME IInv
  PROVE  RecoveryIsExact
<1>1. TypeOK
  <2>1. /\ StackOK(stack) /\ DOMAIN stack = 1..Len(stack) /\ Len(stack) >= 1
        /\ \A i \in 1..Len(stack) : stack[i] \in Frames
    BY CallsShape DEF IInv
  <2>2. stack # <<>> /\ stack[1].rule = "list"
    BY <2>1 DEF StackOK
  <2>3. \A i \in DOMAIN stack : /\ stack[i].rule \in {"list", "elif", "orelse"} \union Compound
                               /\ stack[i].block \in 0..MaxBlocks
    BY <2>1 DEF Frames, Rules
  <2>4. line \in {"clean", "reported", "twice", "orphan"}
    BY DEF IInv, LineKnown
  <2>5. next \in LineTokens \union Boundary \union {"EOF"}
    BY Cursor DEF IInv, Boundary
  <2>6. QED
    BY <2>2, <2>3, <2>4, <2>5 DEF IInv, StreamOK, TypeOK
<1>2. StatementsStartLines
  BY DEF IInv, InPlace, StatementsStartLines, At, AtLineStart, at_statement_boundary
<1>3. OnlyFailedLinesAreDiscarded
  <2>1. mode[1] = "synchronize" => line = IF line = "orphan" THEN "orphan" ELSE "reported"
    BY DEF IInv, LineKnown
  <2>2. QED
    BY <2>1 DEF OnlyFailedLinesAreDiscarded
<1>4. OneDiagnosticPerLine
  BY DEF IInv, LineKnown, OneDiagnosticPerLine
<1>5. ProgressGuardIsIdle
  BY DEF IInv, Moving, ProgressGuardIsIdle, At
<1>6. QED
  BY <1>1, <1>2, <1>3, <1>4, <1>5 DEF RecoveryIsExact

\* After an error the parser takes up the text where a line starts, having thrown away what
\* it complained of and nothing else, with one diagnostic a line and a cursor that moves on
\* every way round the loop (synchronize, parse_statement_list).
THEOREM RecoveryTakesOnlyTheFailedLine == Spec => []RecoveryIsExact
<1>1. IInv => RecoveryIsExact
  BY Exact
<1>2. QED
  BY <1>1, Invariance, PTL
=============================================================================
