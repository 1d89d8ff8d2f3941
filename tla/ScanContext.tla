----------------------------- MODULE ScanContext -----------------------------
(***************************************************************************)
(* scan_context.cpp: whether the scanner is inside a type annotation, told *)
(* from the tokens before the cursor alone.                                *)
(***************************************************************************)
EXTENDS Naturals, Sequences, SequencesExt

is_block_keyword(tok) == tok \in {"if", "elif", "else", "for", "while", "def", "class"}

\* A bracket records what annotation was when it opened.
Fresh == [annotation |-> FALSE, block_header_pending |-> FALSE, line_has_content |-> FALSE,
          brackets |-> <<>>, lambda_depths |-> <<>>]

\* Mutant of observe_comma: a comma always ends an annotation.
observe_any_comma(ctx) == [ctx EXCEPT !.annotation = FALSE]

\* A comma ends an annotation unless its bracket opened inside it.
observe_comma(ctx) ==
  IF ctx.brackets # <<>> /\ Last(ctx.brackets).annotation THEN ctx
  ELSE [ctx EXCEPT !.annotation = FALSE]

\* The colon of a lambda, of a slice or a dict, of a parameter, of a header, of a statement.
observe_colon(ctx) ==
  IF ctx.lambda_depths # <<>> /\ Last(ctx.lambda_depths) = Len(ctx.brackets)
    THEN [ctx EXCEPT !.lambda_depths = Front(@)]
  ELSE IF ctx.brackets # <<>>
    THEN IF Last(ctx.brackets).opener = "(" THEN [ctx EXCEPT !.annotation = TRUE] ELSE ctx
  ELSE [ctx EXCEPT !.annotation = ~ctx.block_header_pending, !.block_header_pending = FALSE]

\* A closing bracket with none open is passed over.
Leave(ctx) ==
  IF ctx.brackets = <<>> THEN ctx
  ELSE [ctx EXCEPT !.annotation = Last(ctx.brackets).annotation, !.brackets = Front(@)]

end_logical_line(ctx) == [Fresh EXCEPT !.brackets = ctx.brackets]

observe(ctx, tok) ==
  LET seen == IF ctx.line_has_content THEN ctx
              ELSE [ctx EXCEPT !.block_header_pending = is_block_keyword(tok),
                               !.line_has_content = TRUE]
  IN CASE tok \in {"(", "[", "{"} ->
            [seen EXCEPT !.brackets = Append(@, [opener |-> tok, annotation |-> seen.annotation])]
       [] tok \in {")", "]", "}"} -> Leave(seen)
       [] tok = ":" -> observe_colon(seen)
       [] tok = "->" -> [seen EXCEPT !.annotation = TRUE]
       [] tok = "=" -> [seen EXCEPT !.annotation = FALSE]
       [] tok = "," -> observe_comma(seen)
       [] tok = "lambda" -> [seen EXCEPT !.lambda_depths = Append(@, Len(seen.brackets))]
       [] tok \in {"NEWLINE", ";"} -> end_logical_line(seen)
       [] OTHER -> seen

\* Whether a name at place i of a text is scanned as one of a type.
in_annotation(text, i) == FoldLeft(observe, Fresh, SubSeq(text, 1, i - 1)).annotation
=============================================================================
