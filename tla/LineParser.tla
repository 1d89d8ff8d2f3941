------------------------------ MODULE LineParser ------------------------------
(***************************************************************************)
(* The rules of statement_parser.cpp within one logical line: simple       *)
(* statements and the headers of compound ones.  What StatementParser      *)
(* models is left out here: suites of several lines, rejected keywords,    *)
(* and recovery.                                                           *)
(***************************************************************************)
EXTENDS ExpressionParser

None == <<"none">>
ends_a_statement(tok) == tok \in {"NEWLINE", ";"}

parse_return(text, i) ==
  IF ends_a_statement(Peek(text, i + 1)) THEN Parsed(<<"return", None>>, i + 1)
  ELSE Then(parse_expression_list(text, i + 1), LAMBDA value :
         Parsed(<<"return", value.tree>>, value.at))

parse_assignment(text, target) ==
  IF ~is_assignable(target.tree) THEN Failed(Malformed, target.at)
  ELSE Then(parse_expression_list(text, target.at + 1), LAMBDA value :
         Parsed(<<"assign", target.tree, value.tree>>, value.at))

\* One target and one annotation, but any list as the value.
parse_annotated_assignment(text, target) ==
  IF ~is_assignable(target.tree) \/ target.tree[1] = "tuple" THEN Failed(Malformed, target.at)
  ELSE Then(parse_expression(text, target.at + 1), LAMBDA annotation :
         IF Peek(text, annotation.at) # "="
           THEN Parsed(<<"annotate", target.tree, annotation.tree, None>>, annotation.at)
           ELSE Then(parse_expression_list(text, annotation.at + 1), LAMBDA value :
                  Parsed(<<"annotate", target.tree, annotation.tree, value.tree>>, value.at)))

parse_expression_statement(text, i) ==
  Then(parse_expression_list(text, i), LAMBDA first :
    LET next == Peek(text, first.at)
    IN CASE next = ":" -> parse_annotated_assignment(text, first)
         [] next = "=" -> parse_assignment(text, first)
         [] next = "+=" -> Failed("augmented", first.at)
         [] OTHER -> first)

parse_simple_statement(text, i) ==
  CASE Peek(text, i) = "pass" -> Parsed(<<"pass">>, i + 1)
    [] Peek(text, i) = "return" -> parse_return(text, i)
    [] OTHER -> parse_expression_statement(text, i)

\* The statements up to the end of the line, none of which is kept if one fails.
RECURSIVE parse_simple_statement_line(_, _, _)
parse_simple_statement_line(text, into, i) ==
  Then(parse_simple_statement(text, i), LAMBDA statement :
    LET all == Append(into, statement.tree)
        more == Peek(text, statement.at) = ";"
        end == IF more THEN statement.at + 1 ELSE statement.at
    IN IF more /\ ~ends_a_statement(Peek(text, end)) THEN parse_simple_statement_line(text, all, end)
       ELSE IF Peek(text, end) = "NEWLINE" THEN Parsed(all, end) ELSE Failed(Malformed, end))

\* A suite on lines of its own is a "block".
parse_suite(text, i) ==
  IF Peek(text, i) # ":" THEN Failed(Malformed, i)
  ELSE IF Peek(text, i + 1) = "NEWLINE" THEN Parsed(<<"suite", <<"block">>>>, i + 1)
  ELSE parse_simple_statement_line(text, <<"suite">>, i + 1)

-----------------------------------------------------------------------------
(* Headers.                                                                *)

parse_condition(text, i) ==
  Then(parse_expression(text, i + 1), LAMBDA condition :
    Parsed(<<text[i], condition.tree>>, condition.at))

parse_for(text, i) ==
  Then(parse_target(text, i + 1), LAMBDA target :
    IF Peek(text, target.at) # "in" THEN Failed(Malformed, target.at)
    ELSE Then(parse_expression_list(text, target.at + 1), LAMBDA iterable :
           Parsed(<<"for", target.tree, iterable.tree>>, iterable.at)))

\* An optional part of a parameter: opened by a token, or not there.
Optional(text, i, opener) ==
  IF Peek(text, i) = opener THEN parse_expression(text, i + 1) ELSE Parsed(None, i)

RECURSIVE parse_parameters(_, _, _), parse_bases(_, _, _)
parse_parameters(text, params, i) ==
  IF Peek(text, i) \notin Identifiers THEN Failed(Malformed, i)
  ELSE Then(Optional(text, i + 1, ":"), LAMBDA annotation :
         Then(Optional(text, annotation.at, "="), LAMBDA default :
           LET all == Append(params, <<"parameter", annotation.tree, default.tree>>)
           IN IF Peek(text, default.at) = "," /\ Peek(text, default.at + 1) # ")"
                THEN parse_parameters(text, all, default.at + 1)
                ELSE Closed(text, IF Peek(text, default.at) = "," THEN default.at + 1 ELSE default.at,
                            ")", all)))

parse_function_def(text, i) ==
  IF Peek(text, i + 1) \notin Identifiers \/ Peek(text, i + 2) # "(" THEN Failed(Malformed, i + 1)
  ELSE LET params == IF Peek(text, i + 3) = ")" THEN Parsed(<<"parameters">>, i + 4)
                     ELSE parse_parameters(text, <<"parameters">>, i + 3)
       IN Then(params, LAMBDA all :
            Then(Optional(text, all.at, "->"), LAMBDA result :
              Parsed(<<"def", all.tree, result.tree>>, result.at)))

parse_bases(text, bases, i) ==
  Then(parse_expression(text, i), LAMBDA base :
    LET all == Append(bases, base.tree)
        next == Peek(text, base.at)
        last == Peek(text, base.at + 1) = ")"
    IN CASE next = "=" -> Failed("keyword", base.at)
         [] next = "," /\ last -> Closed(text, base.at + 1, ")", all)
         [] next = "," /\ ~last -> parse_bases(text, all, base.at + 1)
         [] OTHER -> Closed(text, base.at, ")", all))

parse_class_def(text, i) ==
  CASE Peek(text, i + 1) \notin Identifiers -> Failed(Malformed, i + 1)
    [] Peek(text, i + 2) # "(" -> Parsed(<<"class">>, i + 2)
    [] Peek(text, i + 3) = ")" -> Parsed(<<"class">>, i + 4)
    [] OTHER -> parse_bases(text, <<"class">>, i + 3)

parse_header(text) ==
  CASE text[1] \in {"if", "while"} -> parse_condition(text, 1)
    [] text[1] = "for" -> parse_for(text, 1)
    [] text[1] = "def" -> parse_function_def(text, 1)
    [] text[1] = "class" -> parse_class_def(text, 1)

\* parse_statement, or a line of simple statements.
parse_line(text) ==
  IF Peek(text, 1) \in {"if", "while", "for", "def", "class"}
    THEN Then(parse_header(text), LAMBDA head :
           Then(parse_suite(text, head.at), LAMBDA body :
             Parsed(Append(head.tree, body.tree), body.at)))
    ELSE parse_simple_statement_line(text, <<"suite">>, 1)
=============================================================================
