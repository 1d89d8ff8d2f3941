------------------------- MODULE MCIndentationPass -------------------------
(***************************************************************************)
(* IndentationPass for TLC: every stream of tokens, lines up to MaxCol     *)
(* wide, up to MaxDepth open levels.                                       *)
(***************************************************************************)
EXTENDS IndentationPass
=============================================================================
