-------------------------- MODULE IndentationPass --------------------------
(***************************************************************************)
(* IndentationPass: the scanner's runs of SPACE and TAB tokens become      *)
(* INDENT and DEDENT tokens.                                               *)
(*                                                                         *)
(* One action per kind of input token, in any order: the pass promises a   *)
(* balanced stream for input that is malformed in every way at once.  The  *)
(* pass measures a line twice, with tabs to the next multiple of TAB_STOP  *)
(* (col) and with tabs one column wide (alt_col).                          *)
(***************************************************************************)
EXTENDS Integers, Sequences

CONSTANTS
  MaxCol,     \* bound: the widest indentation
  MaxDepth    \* bound: how many levels are open at once

ASSUME IndentationAssumption == MaxCol \in Nat /\ MaxDepth \in Nat \ {0}

VARIABLES
  levels,      \* levels_: the open levels, the sentinel first
  pending,     \* pending_: what the whitespace read so far measures
  measuring,   \* measuring_: no significant token of this line has been seen
  balance,     \* INDENT tokens minus DEDENT tokens in out_
  errors,      \* the kinds of diagnostic reported
  stage        \* "reading", then "returned"

vars == <<levels, pending, measuring, balance, errors, stage>>

TAB_STOP == 8

IndentLevel == [col : Nat, alt_col : Nat]
Sentinel == [col |-> 0, alt_col |-> 0]
Back == levels[Len(levels)]

Init ==
  /\ levels = <<Sentinel>>
  /\ pending = Sentinel
  /\ measuring = TRUE
  /\ balance = 0
  /\ errors = {}
  /\ stage = "reading"

-----------------------------------------------------------------------------
(* Whitespace and trivia.                                                  *)

Space ==
  /\ stage = "reading" /\ pending.col < MaxCol
  /\ pending' = [col |-> pending.col + 1, alt_col |-> pending.alt_col + 1]
  /\ UNCHANGED <<levels, measuring, balance, errors, stage>>

NextTabStop(c) == ((c \div TAB_STOP) + 1) * TAB_STOP

Tab ==
  /\ stage = "reading" /\ NextTabStop(pending.col) <= MaxCol
  /\ pending' = [col |-> NextTabStop(pending.col), alt_col |-> pending.alt_col + 1]
  /\ UNCHANGED <<levels, measuring, balance, errors, stage>>

Newline ==
  /\ stage = "reading"
  /\ pending' = Sentinel
  /\ measuring' = TRUE
  /\ UNCHANGED <<levels, balance, errors, stage>>

\* A comment is passed on and neither opens nor closes a line.
Comment == stage = "reading" /\ UNCHANGED vars

-----------------------------------------------------------------------------
(* close_line, at the first significant token of a line.                   *)

TabErrorIf(inconsistent) == errors' = IF inconsistent THEN errors \union {"TabError"}
                                      ELSE errors

SameLevel ==
  /\ pending.col = Back.col
  /\ TabErrorIf(pending.alt_col # Back.alt_col)
  /\ UNCHANGED <<levels, balance>>

\* Mutant: a deeper line is measured once.
IndentUnchecked ==
  /\ pending.col > Back.col
  /\ Len(levels) < MaxDepth
  /\ levels' = Append(levels, pending)
  /\ balance' = balance + 1
  /\ UNCHANGED errors

\* Pushed even after a TabError.
Indent ==
  /\ pending.col > Back.col
  /\ Len(levels) < MaxDepth
  /\ TabErrorIf(pending.alt_col <= Back.alt_col)
  /\ levels' = Append(levels, pending)
  /\ balance' = balance + 1

\* Levels are popped while they are deeper than the line, the sentinel never.
StaysOpen(k) ==
  /\ k = 1 \/ levels[k].col <= pending.col
  /\ \A j \in DOMAIN levels : j > k => levels[j].col > pending.col

\* Mutant: the base level is overwritten like any other.
DedentOverwritingBase ==
  /\ pending.col < Back.col
  /\ \E k \in DOMAIN levels :
       /\ StaysOpen(k)
       /\ balance' = balance - (Len(levels) - k)
       /\ errors' = IF levels[k].col # pending.col THEN errors \union {"IndentationError"} ELSE errors
       /\ levels' = Append(SubSeq(levels, 1, k - 1), pending)

\* Mutant: a line between two levels is taken for one of the level above.
DedentForgiving ==
  /\ pending.col < Back.col
  /\ \E k \in DOMAIN levels :
       /\ StaysOpen(k)
       /\ balance' = balance - (Len(levels) - k)
       /\ levels' = Append(SubSeq(levels, 1, k - 1), pending)
       /\ UNCHANGED errors

Dedent ==
  /\ pending.col < Back.col
  /\ \E k \in DOMAIN levels :
       /\ StaysOpen(k)
       /\ balance' = balance - (Len(levels) - k)
       /\ IF levels[k].col # pending.col
          THEN /\ errors' = errors \union {"IndentationError"}
               \* The line becomes the current level, unless that is the sentinel.
               /\ levels' = IF k > 1 THEN Append(SubSeq(levels, 1, k - 1), pending)
                                     ELSE SubSeq(levels, 1, 1)
          ELSE /\ TabErrorIf(pending.alt_col # levels[k].alt_col)
               /\ levels' = SubSeq(levels, 1, k)

Significant ==
  /\ stage = "reading"
  /\ measuring' = FALSE
  /\ IF measuring THEN SameLevel \/ Indent \/ Dedent
                  ELSE UNCHANGED <<levels, balance, errors>>
  /\ UNCHANGED <<pending, stage>>

-----------------------------------------------------------------------------
(* The end of the stream.                                                  *)

flush == /\ levels' = SubSeq(levels, 1, 1)
         /\ balance' = balance - (Len(levels) - 1)

Eof ==
  /\ stage = "reading"
  /\ flush
  /\ UNCHANGED <<pending, measuring, errors, stage>>

\* run() returns; what TOKEN_EOF has not flushed, for lack of one, is flushed here.
Return ==
  /\ stage = "reading"
  /\ flush
  /\ stage' = "returned"
  /\ UNCHANGED <<pending, measuring, errors>>

Next == \/ Space \/ Tab \/ Newline \/ Comment \/ Significant \/ Eof \/ Return
        \/ stage = "returned" /\ UNCHANGED vars

Spec == Init /\ [][Next]_vars

-----------------------------------------------------------------------------
(* Properties.                                                             *)

TypeOK ==
  /\ levels \in Seq(IndentLevel) /\ levels # <<>>
  /\ pending \in IndentLevel
  /\ measuring \in BOOLEAN
  /\ balance \in Int
  /\ errors \subseteq {"TabError", "IndentationError"}
  /\ stage \in {"reading", "returned"}

\* "Balanced": every INDENT is answered by one DEDENT when the stream ends, and no
\* DEDENT comes without an INDENT before it, whatever the input.
Balanced == /\ balance >= 0
            /\ stage = "returned" => balance = 0

\* The sentinel is never popped and never overwritten, and the columns of the stack
\* increase strictly, after every kind of recovery: the loop that pops relies on it.
StackOrdered ==
  /\ levels[1] = Sentinel
  /\ \A i, j \in DOMAIN levels : i < j => levels[i].col < levels[j].col

\* The stack is the count of what was emitted.
BalanceIsDepth == balance = Len(levels) - 1

\* While nothing is reported the columns increase in the other measure too.
AltOrdered ==
  errors = {} => \A i, j \in DOMAIN levels : i < j => levels[i].alt_col < levels[j].alt_col

\* Measured one column to a tab, a line is never wider.
InBounds(level) == level.alt_col <= level.col /\ level.col <= MaxCol

\* The inductive invariant the proofs rest on.
IInv == /\ TypeOK /\ StackOrdered /\ BalanceIsDepth /\ AltOrdered
        /\ InBounds(pending)
        /\ \A i \in DOMAIN levels : InBounds(levels[i])
        /\ stage = "returned" => Len(levels) = 1

\* A line accepted without a diagnostic stands at the indentation of the block it is
\* put into, in both measures.
LineStandsAtItsLevel ==
  [][measuring /\ ~measuring' /\ errors' = {} => levels'[Len(levels')] = pending]_vars

\* Text that draws no diagnostic has one reading: the blocks are the ones a reader
\* finds who makes tabs run to the next multiple of TAB_STOP, and the ones a reader
\* finds who makes them one column wide (the use the pass makes of its two measures).
Accepted(value, otherwise) == IF errors = {} THEN value ELSE otherwise
Cols == [i \in DOMAIN levels |-> levels[i].col]
Alts == [i \in DOMAIN levels |-> levels[i].alt_col]
ColReading == INSTANCE BlockLayout WITH
  MaxColumn <- MaxCol,
  columns  <- Accepted(Cols, <<0>>),
  balance  <- Accepted(balance, 0),
  rejected <- errors # {},
  ended    <- stage = "returned" /\ errors = {}
AltReading == INSTANCE BlockLayout WITH
  MaxColumn <- MaxCol,
  columns  <- Accepted(Alts, <<0>>),
  balance  <- Accepted(balance, 0),
  rejected <- errors # {},
  ended    <- stage = "returned" /\ errors = {}
ColReadingSpec == ColReading!Spec
AltReadingSpec == AltReading!Spec
=============================================================================
