-------------------------------- MODULE Lexer --------------------------------
(***************************************************************************)
(* Lexer: how the scanner divides a text into lines, and which whitespace  *)
(* it passes on for IndentationPass to measure.                            *)
(*                                                                         *)
(* A character stands for what the scanner tells apart at a line's edge:   *)
(* the end of a line, a comment, a backslash before the end of a line, a   *)
(* bracket, or the start of any other token (the scanning of a word, a     *)
(* number, a string or an operator is one step).  Whitespace is an         *)
(* indentation width at the start of a line and is skipped elsewhere.      *)
(*                                                                         *)
(* The last three variables are not the scanner's: two are what            *)
(* IndentationPass makes of the tokens, one is the indentation CPython     *)
(* gives the line, the whitespace of the physical line it last started.    *)
(***************************************************************************)
EXTENDS Naturals

CONSTANTS
  LoneBackslash,   \* may a backslash be the first thing on a line
  MaxWidth,        \* bound: the widest indentation of a physical line
  MaxDepth,        \* bound: how many brackets are open at once
  MaxRun           \* bound: whitespace tokens in a row

Chars == {"eol", "hash", "continuation", "open", "close", "token", "eof"}

ASSUME LexerAssumption ==
  /\ LoneBackslash \in BOOLEAN
  /\ MaxWidth \in Nat /\ MaxDepth \in Nat /\ MaxRun \in Nat

VARIABLES
  at_line_start,      \* at_line_start_
  line_has_content,   \* line_has_content_
  depth,              \* context_.bracket_depth()
  next,               \* the character under the cursor
  scanning,           \* FALSE once tokenize() has returned
  run,                \* SPACE and TAB tokens since the last NEWLINE
  measuring,          \* no other token but comments since the last NEWLINE
  own                 \* the indentation of the physical line that was started last

vars == <<at_line_start, line_has_content, depth, next, scanning, run, measuring, own>>

Init ==
  /\ at_line_start = TRUE
  /\ line_has_content = FALSE
  /\ depth = 0
  /\ next \in {"eol", "hash", "token", "eof"}
  /\ scanning = TRUE
  /\ run = 0 /\ measuring = TRUE /\ own = 0

\* The bound on brackets: the text opens no more than MaxDepth of them at once.
Advance == next' \in {c \in Chars : /\ c = "open" => depth' < MaxDepth
                                    /\ c = "continuation" => LoneBackslash \/ line_has_content'}

\* Mutant: a comment counts as content.
BlankUnlessComment(c) == c \in {"eol", "eof"}

Blank(c) == c \in {"eol", "hash", "eof"}

\* scan_line_start: a run of whitespace, which is not passed on when the line turns out
\* to be blank or a comment.
ScanLineStart ==
  /\ scanning /\ at_line_start /\ next # "eof"
  /\ UNCHANGED <<line_has_content, depth, scanning, measuring>>
  /\ \E width \in 0..MaxWidth :
       /\ run + width <= MaxRun
       /\ IF width = 0 THEN next' = next ELSE Advance
       /\ run' = IF Blank(next') THEN run ELSE run + width
       /\ own' = width
  /\ at_line_start' = FALSE

\* NEWLINE is emitted, and ends the line for IndentationPass.
EmitNewline == /\ line_has_content' = FALSE
               /\ run' = 0
               /\ measuring' = TRUE

ScanEndOfLine ==
  /\ scanning /\ ~at_line_start /\ next = "eol"
  /\ at_line_start' = (depth = 0)
  /\ IF depth = 0 /\ line_has_content THEN EmitNewline
     ELSE UNCHANGED <<line_has_content, run, measuring>>
  /\ UNCHANGED <<depth, scanning, own>>
  /\ Advance

ScanLineContinuation ==
  /\ scanning /\ ~at_line_start /\ next = "continuation"
  /\ UNCHANGED <<at_line_start, line_has_content, depth, scanning, run, measuring, own>>
  /\ Advance

\* A comment runs to the end of its line.
ScanComment ==
  /\ scanning /\ ~at_line_start /\ next = "hash"
  /\ next' \in {"eol", "eof"}
  /\ UNCHANGED <<at_line_start, line_has_content, depth, scanning, run, measuring, own>>

\* Any other token.  A closing bracket with none open is scanned all the same.
ScanToken ==
  /\ scanning /\ ~at_line_start /\ next \in {"open", "close", "token"}
  /\ depth' = CASE next = "open" -> depth + 1
                [] next = "close" /\ depth > 0 -> depth - 1
                [] OTHER -> depth
  /\ line_has_content' = TRUE
  /\ measuring' = FALSE
  /\ UNCHANGED <<at_line_start, scanning, run, own>>
  /\ Advance

\* finish: an unterminated last line is closed.
Finish ==
  /\ scanning /\ next = "eof"
  /\ scanning' = FALSE
  /\ IF line_has_content THEN EmitNewline ELSE UNCHANGED <<line_has_content, run, measuring>>
  /\ UNCHANGED <<at_line_start, depth, next, own>>

Finished == ~scanning /\ UNCHANGED vars

Next == \/ ScanLineStart \/ ScanEndOfLine \/ ScanLineContinuation \/ ScanComment
        \/ ScanToken \/ Finish \/ Finished

Spec == Init /\ [][Next]_vars

-----------------------------------------------------------------------------
(* What IndentationPass relies on (indentation_pass.h, its input).         *)

TypeOK ==
  /\ at_line_start \in BOOLEAN /\ line_has_content \in BOOLEAN
  /\ scanning \in BOOLEAN /\ measuring \in BOOLEAN
  /\ depth \in 0..MaxDepth /\ run \in 0..MaxRun /\ own \in 0..MaxWidth
  /\ next \in Chars

\* When a logical line's first token is reached, the whitespace handed to
\* IndentationPass for it is the line's own indentation, no more and no less: "blank and
\* comment-only lines contribute no indentation" (indentation_pass.h:28).
LineMeasuresItself ==
  scanning /\ ~at_line_start /\ measuring /\ next \in {"open", "close", "token"}
    => run = own

\* The scanner and the pass agree on where lines end: a line has content exactly when
\* the pass has stopped measuring it, so no NEWLINE is missing and none is left over.
LinesAgree == line_has_content <=> ~measuring

\* The input contract of IndentationPass, whole: lines end where it believes they end,
\* and each is measured by its own whitespace.
InputContract == TypeOK /\ LinesAgree /\ LineMeasuresItself
=============================================================================
