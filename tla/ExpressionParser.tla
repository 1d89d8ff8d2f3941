--------------------------- MODULE ExpressionParser ---------------------------
(***************************************************************************)
(* expression_parser.cpp: the recursive descent over one logical line.     *)
(*                                                                         *)
(* A text is the sequence of its token types, with a NEWLINE past the last *)
(* one.  "x" stands for a name, "T" for a name the scanner marked as one   *)
(* of a type, "s" for a literal.  A rule takes the text and the place of   *)
(* the cursor; it returns the tree it built, or the complaint it reported, *)
(* and where it left the cursor.  A tree is a label and its children.  The *)
(* complaints that name a construct are told apart; all others are         *)
(* Malformed.                                                              *)
(***************************************************************************)
EXTENDS Naturals, Sequences, TLC

Peek(text, i) == IF i \in DOMAIN text THEN text[i] ELSE "NEWLINE"

NoComplaint == "none"
Malformed == "malformed"
Parsed(tree, i) == [tree |-> tree, at |-> i, complaint |-> NoComplaint]
Failed(complaint, i) == [tree |-> <<>>, at |-> i, complaint |-> complaint]
Ok(result) == result.complaint = NoComplaint

\* The early returns: a rule goes on only where the rule it called succeeded.
Then(result, Continue(_)) == IF Ok(result) THEN Continue(result) ELSE result

Closed(text, i, closer, tree) ==
  IF Peek(text, i) = closer THEN Parsed(tree, i + 1) ELSE Failed(Malformed, i)

Identifiers == {"x", "T"}
is_string_literal(tok) == tok = "s"
is_simple_comparison(tok) == tok \in {"<", "in"}
ends_a_sequence(tok) == tok \in {")", "]", "}", "NEWLINE"}

\* Three of the six levels of BINARY_OPERATORS.
binary_precedence_of == "|" :> 1 @@ "+" :> 5 @@ "-" :> 5 @@ "*" :> 6
LOWEST_BINARY_LEVEL == 1

\* Mutant of tighter: an operator takes its own kind on its right.
as_tight(level) == level

tighter(level) == level + 1

refused_atoms ==
  "f-string" :> "f-string" @@ "lambda" :> "lambda" @@ "await" :> "await" @@ "yield" :> "yield"
  @@ "*" :> "starred" @@ "**" :> "starred" @@ ":=" :> "walrus"
refused_after_value == "if" :> "conditional" @@ ":=" :> "walrus"

RECURSIVE is_assignable(_)
is_assignable(tree) ==
  \/ tree[1] \in {"x", "attribute", "subscript"}
  \/ tree[1] = "tuple" /\ Len(tree) > 1 /\ \A k \in 2..Len(tree) : is_assignable(tree[k])

-----------------------------------------------------------------------------
\* The rules call each other through Parse.
RECURSIVE Parse(_, _, _), more_elements(_, _, _), more_targets(_, _, _), more_values(_, _, _, _),
          more_comparisons(_, _, _), parse_binary(_, _, _), more_operands(_, _, _), more_postfix(_, _), call_args(_, _, _),
          paren_elements(_, _, _), list_comp_clauses(_, _, _), more_conditions(_, _, _),
          dict_entries(_, _, _)

\* Mutant of parse_comprehension_test: the condition of a comprehension is any expression.
parse_any_test(text, i) == Parse("expression", text, i)

parse_comprehension_test(text, i) == Parse("or_test", text, i)

parse_expression(text, i) ==
  Then(Parse("or_test", text, i), LAMBDA value :
    IF Peek(text, value.at) \in DOMAIN refused_after_value
      THEN Failed(refused_after_value[Peek(text, value.at)], value.at)
      ELSE value)

\* After an element: a comma and another one, or a trailing comma.
more_elements(text, elements, i) ==
  IF Peek(text, i) # "," THEN Parsed(elements, i)
  ELSE IF ends_a_sequence(Peek(text, i + 1)) THEN Parsed(elements, i + 1)
  ELSE Then(Parse("expression", text, i + 1), LAMBDA next :
         more_elements(text, Append(elements, next.tree), next.at))

parse_expression_list(text, i) ==
  Then(Parse("expression", text, i), LAMBDA first :
    IF Peek(text, first.at) # "," THEN first
    ELSE more_elements(text, <<"tuple", first.tree>>, first.at))

\* One n-ary node for a run of the same Boolean operator.
Operand(op) == IF op = "or" THEN "and_test" ELSE "not_test"
more_values(text, op, values, i) ==
  IF Peek(text, i) # op THEN Parsed(values, i)
  ELSE Then(Parse(Operand(op), text, i + 1), LAMBDA value :
         more_values(text, op, Append(values, value.tree), value.at))
parse_bool_op(text, i, op) ==
  Then(Parse(Operand(op), text, i), LAMBDA first :
    IF Peek(text, first.at) # op THEN first
    ELSE more_values(text, op, <<op, first.tree>>, first.at))
parse_or_test(text, i) == parse_bool_op(text, i, "or")
parse_and_test(text, i) == parse_bool_op(text, i, "and")

parse_comparison(text, i) ==
  Then(parse_binary(text, i, LOWEST_BINARY_LEVEL), LAMBDA left :
    Then(more_comparisons(text, <<"compare", left.tree>>, left.at), LAMBDA all :
      IF Len(all.tree) = 2 THEN left ELSE all))
more_comparisons(text, parts, i) ==
  LET operand(op, at) ==
        Then(parse_binary(text, at, LOWEST_BINARY_LEVEL), LAMBDA right :
          more_comparisons(text, parts \o <<<<op>>, right.tree>>, right.at))
      next == Peek(text, i)
      after == Peek(text, i + 1)
  IN CASE next = "not" /\ after = "in" -> operand("not in", i + 2)
       [] next = "not" /\ after # "in" -> Failed(Malformed, i)
       [] next = "is" /\ after = "not" -> operand("is not", i + 2)
       [] next = "is" /\ after # "not" -> operand("is", i + 1)
       [] is_simple_comparison(next) -> operand(next, i + 1)
       [] OTHER -> Parsed(parts, i)

parse_not_test(text, i) ==
  IF Peek(text, i) # "not" THEN parse_comparison(text, i)
  ELSE Then(Parse("not_test", text, i + 1), LAMBDA operand :
         Parsed(<<"not", operand.tree>>, operand.at))

parse_binary(text, i, min_level) ==
  Then(Parse("unary", text, i), LAMBDA left : more_operands(text, left, min_level))
more_operands(text, left, min_level) ==
  LET op == Peek(text, left.at)
  IN IF op \notin DOMAIN binary_precedence_of THEN left
     ELSE IF binary_precedence_of[op] < min_level THEN left
     ELSE Then(parse_binary(text, left.at + 1, tighter(binary_precedence_of[op])), LAMBDA right :
            more_operands(text, Parsed(<<op, left.tree, right.tree>>, right.at), min_level))

-----------------------------------------------------------------------------
(* What binds tighter than a binary operator.                              *)

parse_attribute(text, value) ==
  IF Peek(text, value.at + 1) \in Identifiers
    THEN Parsed(<<"attribute", value.tree>>, value.at + 2)
    ELSE Failed(Malformed, value.at + 1)

parse_subscript(text, value) ==
  LET first == Peek(text, value.at + 1)
  IN IF first = ":" THEN Failed("slice", value.at + 1)
     ELSE IF ends_a_sequence(first) THEN Failed(Malformed, value.at + 1)
     ELSE Then(parse_expression_list(text, value.at + 1), LAMBDA index :
            IF Peek(text, index.at) = ":" THEN Failed("slice", index.at)
            ELSE Closed(text, index.at, "]", <<"subscript", value.tree, index.tree>>))

call_args(text, args, i) ==
  IF ends_a_sequence(Peek(text, i)) THEN Failed(Malformed, i)
  ELSE Then(Parse("expression", text, i), LAMBDA arg :
         LET all == Append(args, arg.tree)
             next == Peek(text, arg.at)
         IN CASE next = "=" -> Failed("keyword", arg.at)
              [] next = "for" -> Failed("generator", arg.at)
              [] next = "," /\ Peek(text, arg.at + 1) = ")" -> Parsed(all, arg.at + 1)
              [] next = "," /\ Peek(text, arg.at + 1) # ")" -> call_args(text, all, arg.at + 1)
              [] OTHER -> Parsed(all, arg.at))
parse_call(text, callee) ==
  LET call == <<"call", callee.tree>>
  IN IF Peek(text, callee.at + 1) = ")" THEN Parsed(call, callee.at + 2)
     ELSE Then(call_args(text, call, callee.at + 1), LAMBDA args :
            Closed(text, args.at, ")", args.tree))

more_postfix(text, value) ==
  LET next == Peek(text, value.at)
      longer == CASE next = "." -> parse_attribute(text, value)
                  [] next = "[" -> parse_subscript(text, value)
                  [] next = "(" -> parse_call(text, value)
                  [] OTHER -> value
  IN IF longer = value THEN value
     ELSE Then(longer, LAMBDA longer_value : more_postfix(text, longer_value))

\* Grouping is not a node; a comma makes the parentheses those of a tuple.
paren_elements(text, elements, i) ==
  IF ends_a_sequence(Peek(text, i)) THEN Failed(Malformed, i)
  ELSE Then(Parse("expression", text, i), LAMBDA element :
         LET all == Append(elements, element.tree)
             next == Peek(text, element.at)
         IN CASE next = "for" /\ Len(all) = 2 -> Failed("generator", element.at)
              [] next = "," /\ Peek(text, element.at + 1) = ")" ->
                   Closed(text, element.at + 1, ")", all)
              [] next = "," /\ Peek(text, element.at + 1) # ")" ->
                   paren_elements(text, all, element.at + 1)
              [] OTHER -> Closed(text, element.at, ")", IF Len(all) = 2 THEN element.tree ELSE all))
parse_paren_atom(text, i) ==
  IF Peek(text, i + 1) = ")" THEN Parsed(<<"tuple">>, i + 2)
  ELSE paren_elements(text, <<"tuple">>, i + 1)

\* The condition of a comprehension is an or_test: its "if" is not that of a conditional
\* expression.
more_conditions(text, clause, i) ==
  IF Peek(text, i) # "if" THEN Parsed(clause, i)
  ELSE Then(parse_comprehension_test(text, i + 1), LAMBDA condition :
         more_conditions(text, Append(clause, condition.tree), condition.at))

parse_bracket_atom(text, i) ==
  IF Peek(text, i + 1) = "]" THEN Parsed(<<"list">>, i + 2)
  ELSE IF ends_a_sequence(Peek(text, i + 1)) THEN Failed(Malformed, i + 1)
  ELSE Then(Parse("expression", text, i + 1), LAMBDA first :
         IF Peek(text, first.at) = "for"
           THEN list_comp_clauses(text, <<"comprehension", first.tree>>, first.at)
           ELSE Then(more_elements(text, <<"list", first.tree>>, first.at), LAMBDA all :
                  Closed(text, all.at, "]", all.tree)))
parse_brace_atom(text, i) ==
  IF Peek(text, i + 1) = "}" THEN Parsed(<<"dict">>, i + 2)
  ELSE IF ends_a_sequence(Peek(text, i + 1)) THEN Failed(Malformed, i + 1)
  ELSE dict_entries(text, <<"dict">>, i + 1)

parse_atom(text, i) ==
  LET tok == Peek(text, i)
  IN CASE tok \in DOMAIN refused_atoms -> Failed(refused_atoms[tok], i)
       [] tok = "(" -> parse_paren_atom(text, i)
       [] tok = "[" -> parse_bracket_atom(text, i)
       [] tok = "{" -> parse_brace_atom(text, i)
       [] tok \in Identifiers -> Parsed(<<"x">>, i + 1)
       [] is_string_literal(tok) ->
            IF is_string_literal(Peek(text, i + 1)) THEN Failed("concatenation", i + 1)
            ELSE Parsed(<<"s">>, i + 1)
       [] OTHER -> Failed(Malformed, i)

parse_postfix(text, i) ==
  Then(parse_atom(text, i), LAMBDA value : more_postfix(text, value))

parse_power(text, i) ==
  Then(Parse("postfix", text, i), LAMBDA base :
    IF Peek(text, base.at) # "**" THEN base
    ELSE Then(Parse("unary", text, base.at + 1), LAMBDA exponent :
           Parsed(<<"**", base.tree, exponent.tree>>, exponent.at)))

parse_unary(text, i) ==
  IF Peek(text, i) \notin {"+", "-"} THEN parse_power(text, i)
  ELSE Then(Parse("unary", text, i + 1), LAMBDA operand :
         Parsed(<<"unary", <<text[i]>>, operand.tree>>, operand.at))

Target(text, i) ==
  Then(Parse("postfix", text, i), LAMBDA value :
    IF is_assignable(value.tree) THEN value ELSE Failed(Malformed, value.at))
more_targets(text, elements, i) ==
  IF Peek(text, i) # "," THEN Parsed(elements, i)
  ELSE IF Peek(text, i + 1) = "in" \/ ends_a_sequence(Peek(text, i + 1)) THEN Parsed(elements, i + 1)
  ELSE Then(Target(text, i + 1), LAMBDA next :
         more_targets(text, Append(elements, next.tree), next.at))
parse_target(text, i) ==
  Then(Target(text, i), LAMBDA first :
    IF Peek(text, first.at) # "," THEN first
    ELSE more_targets(text, <<"tuple", first.tree>>, first.at))

\* parse_list_comp: a clause is its target, its iterable and its conditions.
list_comp_clauses(text, comp, i) ==
  IF Peek(text, i) # "for" THEN Closed(text, i, "]", comp)
  ELSE Then(parse_target(text, i + 1), LAMBDA target :
         IF Peek(text, target.at) # "in" THEN Failed(Malformed, target.at)
         ELSE Then(Parse("or_test", text, target.at + 1), LAMBDA iterable :
                Then(more_conditions(text, <<"for", target.tree, iterable.tree>>, iterable.at),
                  LAMBDA clause : list_comp_clauses(text, Append(comp, clause.tree), clause.at))))

\* The entries of parse_brace_atom: what follows the first expression tells a dict from a set.
dict_entries(text, dict, i) ==
  LET first == Len(dict) = 1
      entry(key, value) == Append(dict, <<"entry", key.tree, value.tree>>)
      no_colon(at) ==
        CASE first /\ Peek(text, at) = "for" -> Failed("set comprehension", at)
          [] first /\ Peek(text, at) # "for" -> Failed("set", at)
          [] OTHER -> Failed(Malformed, at)
  IN IF ends_a_sequence(Peek(text, i)) THEN Closed(text, i, "}", dict)
     ELSE Then(Parse("expression", text, i), LAMBDA key :
            IF Peek(text, key.at) # ":" THEN no_colon(key.at)
            ELSE Then(Parse("expression", text, key.at + 1), LAMBDA value :
                   CASE first /\ Peek(text, value.at) = "for" -> Failed("dict comprehension", value.at)
                     [] Peek(text, value.at) = "," -> dict_entries(text, entry(key, value), value.at + 1)
                     [] OTHER -> Closed(text, value.at, "}", entry(key, value))))

Parse(rule, text, i) ==
  CASE rule = "expression" -> parse_expression(text, i)
    [] rule = "or_test" -> parse_or_test(text, i)
    [] rule = "and_test" -> parse_and_test(text, i)
    [] rule = "not_test" -> parse_not_test(text, i)
    [] rule = "unary" -> parse_unary(text, i)
    [] rule = "postfix" -> parse_postfix(text, i)
=============================================================================
