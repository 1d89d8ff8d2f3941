----------------------------- MODULE LexerProofs -----------------------------
(***************************************************************************)
(* Proofs about Lexer, for every indentation, every depth of brackets and  *)
(* texts of every length: the scanner and IndentationPass agree on where   *)
(* lines end, and, in a text without a line that holds nothing but a       *)
(* backslash, each line is measured by its own whitespace.                 *)
(***************************************************************************)
EXTENDS Lexer, TLAPS

\* Brackets are open within a line only, and no more than the text's bound.
BracketsInLines == /\ scanning /\ depth > 0 => line_has_content
                   /\ next = "open" => depth < MaxDepth

\* A backslash comes first on a line where the text has such lines.
BackslashInLines == next = "continuation" => LoneBackslash \/ line_has_content

\* Whitespace is kept for the line it begins: none is left over where a line starts, none
\* is kept of a line that is blank or a comment.
Measured ==
  scanning /\ measuring => run = IF at_line_start \/ Blank(next) THEN 0 ELSE own

IInv == /\ TypeOK /\ LinesAgree
        /\ BracketsInLines /\ BackslashInLines
        /\ ~LoneBackslash => Measured

\* The cursor moves on within the bounds of the text.
LEMMA Advances ==
  ASSUME IInv, Advance, depth' \in 0..MaxDepth
  PROVE  /\ next' \in Chars
         /\ next' = "open" => depth' < MaxDepth
         /\ BackslashInLines'
BY DEF Advance, BackslashInLines

\* No whitespace and no bracket is within every bound.
LEMMA NothingIsInBounds == 0 \in 0..MaxDepth /\ 0 \in 0..MaxRun /\ 0 \in 0..MaxWidth
BY LexerAssumption

LEMMA Initially ==
  ASSUME Init
  PROVE  IInv
<1>1. TypeOK
  <2>1. next \in Chars
    BY DEF Init, Chars
  <2>2. QED
    BY <2>1, NothingIsInBounds, Zenon DEF Init, TypeOK
<1>2. LinesAgree /\ BracketsInLines /\ BackslashInLines /\ Measured
  BY DEF Init, LinesAgree, BracketsInLines, BackslashInLines, Measured
<1>3. QED
  BY <1>1, <1>2 DEF IInv

LEMMA ScanLineStartPreserves ==
  ASSUME IInv, ScanLineStart
  PROVE  IInv'
<1>1. /\ scanning /\ at_line_start /\ at_line_start' = FALSE
      /\ UNCHANGED <<line_has_content, depth, scanning, measuring>>
  BY DEF ScanLineStart
<1>2. PICK width \in 0..MaxWidth :
        /\ run + width <= MaxRun
        /\ IF width = 0 THEN next' = next ELSE Advance
        /\ run' = IF Blank(next') THEN run ELSE run + width
        /\ own' = width
  BY DEF ScanLineStart
<1>3. /\ next' \in Chars /\ BackslashInLines'
      /\ next' = "open" => depth' < MaxDepth
  <2>1. CASE width = 0
    BY <1>1, <1>2, <2>1 DEF IInv, TypeOK, BracketsInLines, BackslashInLines
  <2>2. CASE width # 0
    <3>1. depth' \in 0..MaxDepth
      BY <1>1 DEF IInv, TypeOK
    <3>2. QED
      BY <1>2, <2>2, <3>1, Advances
  <2>3. QED
    BY <2>1, <2>2
<1>4. TypeOK'
  <2>1. run' \in 0..MaxRun
    BY <1>2, LexerAssumption DEF IInv, TypeOK
  <2>2. QED
    BY <1>1, <1>2, <1>3, <2>1 DEF IInv, TypeOK
<1>5. LinesAgree' /\ BracketsInLines'
  BY <1>1, <1>3 DEF IInv, LinesAgree, BracketsInLines
<1>6. ~LoneBackslash => Measured'
  <2>1. SUFFICES ASSUME ~LoneBackslash, measuring PROVE run' = IF Blank(next') THEN 0 ELSE own'
    BY <1>1 DEF Measured
  <2>2. run = 0
    BY <1>1, <2>1 DEF IInv, Measured
  <2>3. QED
    BY <1>2, <2>2, LexerAssumption
<1>7. QED
  BY <1>3, <1>4, <1>5, <1>6 DEF IInv

LEMMA ScanEndOfLinePreserves ==
  ASSUME IInv, ScanEndOfLine
  PROVE  IInv'
<1>1. /\ scanning /\ ~at_line_start /\ next = "eol" /\ at_line_start' = (depth = 0) /\ Advance
      /\ UNCHANGED <<depth, scanning, own>>
  BY DEF ScanEndOfLine
<1>2. /\ next' \in Chars /\ BackslashInLines'
      /\ next' = "open" => depth' < MaxDepth
  <2>1. depth' \in 0..MaxDepth
    BY <1>1 DEF IInv, TypeOK
  <2>2. QED
    BY <1>1, <2>1, Advances
<1>3. CASE depth = 0 /\ line_has_content
  <2>1. line_has_content' = FALSE /\ run' = 0 /\ measuring' = TRUE
    BY <1>3 DEF ScanEndOfLine, EmitNewline
  <2>2. TypeOK'
    <3>1. at_line_start' = TRUE
      BY <1>1, <1>3
    <3>2. QED
      BY <1>1, <1>2, <2>1, <3>1, NothingIsInBounds, Zenon DEF IInv, TypeOK
  <2>3. LinesAgree' /\ Measured'
    BY <1>1, <1>3, <2>1 DEF LinesAgree, Measured
  <2>4. BracketsInLines'
    <3>1. depth' = 0 /\ ~(depth' > 0)
      BY <1>1, <1>3
    <3>2. QED
      BY <1>2, <3>1, Zenon DEF BracketsInLines
  <2>5. QED
    BY <1>2, <2>2, <2>3, <2>4 DEF IInv
<1>4. CASE ~(depth = 0 /\ line_has_content)
  <2>1. UNCHANGED <<line_has_content, run, measuring>>
    BY <1>4 DEF ScanEndOfLine
  <2>2. TypeOK'
    BY <1>1, <1>2, <2>1 DEF IInv, TypeOK
  <2>3. LinesAgree' /\ BracketsInLines'
    BY <1>1, <1>2, <2>1 DEF IInv, LinesAgree, BracketsInLines
  <2>4. ~LoneBackslash => Measured'
    <3>1. SUFFICES ASSUME ~LoneBackslash, measuring PROVE at_line_start' /\ run = 0
      BY <1>1, <2>1 DEF Measured
    <3>2. run = 0
      BY <1>1, <3>1 DEF IInv, Measured, Blank
    <3>3. depth = 0
      BY <1>1, <3>1 DEF IInv, LinesAgree, BracketsInLines, TypeOK
    <3>4. QED
      BY <1>1, <3>2, <3>3
  <2>5. QED
    BY <1>2, <2>2, <2>3, <2>4 DEF IInv
<1>5. QED
  BY <1>3, <1>4

\* A backslash and a comment: the line goes on, or is over.
LEMMA WithinALinePreserves ==
  ASSUME IInv, ScanLineContinuation \/ ScanComment
  PROVE  IInv'
<1>1. /\ scanning /\ ~at_line_start
      /\ UNCHANGED <<at_line_start, line_has_content, depth, scanning, run, measuring, own>>
  BY DEF ScanLineContinuation, ScanComment
<1>2. /\ next' \in Chars /\ BackslashInLines'
      /\ next' = "open" => depth' < MaxDepth
  <2>1. CASE ScanLineContinuation
    <3>1. depth' \in 0..MaxDepth /\ Advance
      BY <1>1, <2>1 DEF IInv, TypeOK, ScanLineContinuation
    <3>2. QED
      BY <3>1, Advances
  <2>2. CASE ScanComment
    BY <2>2 DEF ScanComment, Chars, BackslashInLines
  <2>3. QED
    BY <2>1, <2>2
<1>3. TypeOK' /\ LinesAgree' /\ BracketsInLines'
  BY <1>1, <1>2 DEF IInv, TypeOK, LinesAgree, BracketsInLines
<1>4. ~LoneBackslash => Measured'
  <2>1. SUFFICES ASSUME ~LoneBackslash, measuring
                 PROVE  run = IF Blank(next') THEN 0 ELSE own
    BY <1>1 DEF Measured
  <2>2. next # "continuation"
    BY <2>1 DEF IInv, LinesAgree, BackslashInLines, TypeOK
  <2>3. next = "hash" /\ next' \in {"eol", "eof"}
    BY <2>2 DEF ScanLineContinuation, ScanComment
  <2>4. QED
    BY <1>1, <2>1, <2>3 DEF IInv, Measured, Blank
<1>5. QED
  BY <1>2, <1>3, <1>4 DEF IInv

LEMMA ScanTokenPreserves ==
  ASSUME IInv, ScanToken
  PROVE  IInv'
<1>1. /\ line_has_content' = TRUE /\ measuring' = FALSE /\ Advance
      /\ UNCHANGED <<at_line_start, scanning, run, own>>
  BY DEF ScanToken
<1>2. depth' \in 0..MaxDepth
  BY LexerAssumption DEF ScanToken, IInv, TypeOK, BracketsInLines
<1>3. /\ next' \in Chars /\ BackslashInLines'
      /\ next' = "open" => depth' < MaxDepth
  BY <1>1, <1>2, Advances
<1>4. TypeOK' /\ LinesAgree' /\ BracketsInLines' /\ Measured'
  BY <1>1, <1>2, <1>3 DEF IInv, TypeOK, LinesAgree, BracketsInLines, Measured
<1>5. QED
  BY <1>3, <1>4 DEF IInv

LEMMA FinishPreserves ==
  ASSUME IInv, Finish
  PROVE  IInv'
<1>1. scanning' = FALSE /\ next = "eof" /\ UNCHANGED <<at_line_start, depth, next, own>>
  BY DEF Finish
<1>2. \/ line_has_content' = FALSE /\ run' = 0 /\ measuring' = TRUE
      \/ UNCHANGED <<line_has_content, run, measuring>>
  BY DEF Finish, EmitNewline
<1>3. TypeOK' /\ LinesAgree'
  <2>1. scanning' \in BOOLEAN
    BY <1>1
  <2>2. CASE line_has_content' = FALSE /\ run' = 0 /\ measuring' = TRUE
    BY <1>1, <2>1, <2>2, NothingIsInBounds, Zenon DEF IInv, TypeOK, LinesAgree
  <2>3. CASE UNCHANGED <<line_has_content, run, measuring>>
    BY <1>1, <2>1, <2>3 DEF IInv, TypeOK, LinesAgree
  <2>4. QED
    BY <1>2, <2>2, <2>3
<1>4. BracketsInLines' /\ BackslashInLines' /\ Measured'
  BY <1>1 DEF BracketsInLines, BackslashInLines, Measured
<1>5. QED
  BY <1>3, <1>4 DEF IInv

LEMMA Preserved ==
  ASSUME IInv, [Next]_vars
  PROVE  IInv'
<1>1. CASE ScanLineStart
  BY <1>1, ScanLineStartPreserves
<1>2. CASE ScanEndOfLine
  BY <1>2, ScanEndOfLinePreserves
<1>3. CASE ScanLineContinuation \/ ScanComment
  BY <1>3, WithinALinePreserves
<1>4. CASE ScanToken
  BY <1>4, ScanTokenPreserves
<1>5. CASE Finish
  BY <1>5, FinishPreserves
<1>6. CASE UNCHANGED vars
  BY <1>6 DEF vars, IInv, TypeOK, LinesAgree, BracketsInLines, BackslashInLines, Measured
<1>7. QED
  BY <1>1, <1>2, <1>3, <1>4, <1>5, <1>6 DEF Next, Finished

\* In every text the scanner's view of a line, its content and its brackets, is the one
\* IndentationPass will take of its tokens; whitespace is kept for its own line
\* (scan_line_start, scan_end_of_line).
THEOREM Invariance == Spec => []IInv
<1>1. Init => IInv
  BY Initially
<1>2. IInv /\ [Next]_vars => IInv'
  BY Preserved
<1>3. QED
  BY <1>1, <1>2, PTL DEF Spec

\* Lines end for IndentationPass where they end for the scanner, whatever the text: no
\* NEWLINE is missing and none is left over (scan_end_of_line, finish).
THEOREM NewlinesCloseLines == Spec => [](TypeOK /\ LinesAgree)
<1>1. IInv => TypeOK /\ LinesAgree
  BY DEF IInv
<1>2. QED
  BY <1>1, Invariance, PTL

\* In a text without a line that holds nothing but a backslash, IndentationPass is handed
\* the tokens it relies on: each line is measured by its own whitespace, blank lines and
\* comments by none (indentation_pass.h:28).  With such a line it is not: see the run
\* continued.
THEOREM InputContractHolds ==
  ASSUME ~LoneBackslash
  PROVE  Spec => []InputContract
<1>1. IInv => LineMeasuresItself
  BY DEF IInv, Measured, LineMeasuresItself, Blank
<1>2. IInv => InputContract
  BY <1>1 DEF IInv, InputContract
<1>3. QED
  BY <1>2, Invariance, PTL
=============================================================================
