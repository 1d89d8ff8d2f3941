------------------------------- MODULE MCLexer -------------------------------
(***************************************************************************)
(* Lexer for TLC: every text of lines, with and without a line that holds  *)
(* nothing but a backslash.                                                *)
(***************************************************************************)
EXTENDS Lexer
=============================================================================
