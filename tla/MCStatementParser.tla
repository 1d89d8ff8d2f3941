------------------------- MODULE MCStatementParser -------------------------
(***************************************************************************)
(* An instance of StatementParser for TLC: streams of every length, with   *)
(* blocks and clauses nested up to the bounds of the configuration.        *)
(***************************************************************************)
EXTENDS StatementParser
=============================================================================
