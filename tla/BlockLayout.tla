---------------------------- MODULE BlockLayout ----------------------------
(***************************************************************************)
(* What a reader of Python's block structure is promised: lines at columns *)
(* open and close blocks the way Python's grammar counts them, every close *)
(* answers an open, and a text that cannot be read this way is rejected.   *)
(*                                                                         *)
(* The reader has one idea of how wide a tab is, so a line has one column. *)
(* IndentationPass carries two, and implements this module under each.     *)
(***************************************************************************)
EXTENDS Integers, Sequences

CONSTANT MaxColumn   \* bound: the deepest column of a line

VARIABLES
  columns,    \* the columns of the blocks that are open, the outermost first
  balance,    \* blocks opened minus blocks closed in the output
  rejected,   \* the text has been refused
  ended       \* the text has been read to its end

layoutVars == <<columns, balance, rejected, ended>>

Init == columns = <<0>> /\ balance = 0 /\ rejected = FALSE /\ ended = FALSE

Top == columns[Len(columns)]
Reading == ~rejected /\ ~ended

\* A line deeper than the block it follows opens a block.
OpenBlock(c) == /\ Reading /\ c > Top
                /\ columns' = Append(columns, c)
                /\ balance' = balance + 1
                /\ UNCHANGED <<rejected, ended>>

\* A line at the column of an outer block closes every block inside that one.
CloseBlocks(k) == /\ Reading /\ k < Len(columns)
                  /\ columns' = SubSeq(columns, 1, k)
                  /\ balance' = balance - (Len(columns) - k)
                  /\ UNCHANGED <<rejected, ended>>

\* The end of the text closes whatever is open.
End == /\ Reading
       /\ columns' = <<0>>
       /\ balance' = 0
       /\ ended' = TRUE
       /\ UNCHANGED rejected

\* Nothing is promised of the blocks of a refused text.
Reject == /\ Reading
          /\ rejected' = TRUE
          /\ columns' = <<0>>
          /\ balance' = 0
          /\ UNCHANGED ended

Next == \/ \E c \in 0..MaxColumn : OpenBlock(c)
        \/ \E k \in DOMAIN columns : CloseBlocks(k)
        \/ End
        \/ Reject

Spec == Init /\ [][Next]_layoutVars
=============================================================================
