---------------------------- MODULE PythonGrammar ----------------------------
(***************************************************************************)
(* Python's grammar over the tokens of LineParser: the set of trees of a   *)
(* text, which is empty where the text is not Python.  A rule splits the   *)
(* text at a token outside of brackets and asks other rules for the parts; *)
(* nothing is read from left to right and nothing is looked ahead for.     *)
(*                                                                         *)
(* Starred and list targets, double stars, named and starred arguments of  *)
(* a class and the third part of a slice are left out.                     *)
(***************************************************************************)
EXTENDS Naturals, Sequences, FiniteSets, TLC

None == <<"none">>
Label(tree) == tree[1]
Before(text, k) == SubSeq(text, 1, k - 1)
After(text, k) == SubSeq(text, k + 1, Len(text))
Between(text, j, k) == SubSeq(text, j + 1, k - 1)
Starts(text, tok) == text # <<>> /\ text[1] = tok
Ends(text, tok) == text # <<>> /\ text[Len(text)] = tok
Without(tok, text) == IF Ends(text, tok) THEN Before(text, Len(text)) ELSE text

Joined(label, As, Bs) == UNION {{<<label, a, b>> : b \in Bs} : a \in As}
Longer(As, seqs) == UNION {{<<a>> \o s : s \in seqs} : a \in As}
Labelled(label, seqs) == {<<label>> \o s : s \in seqs}

\* The places of a token outside of brackets.
Count(text, k, toks) == Cardinality({j \in 1..k : text[j] \in toks})
Places(text, toks) ==
  {k \in DOMAIN text : /\ text[k] \in toks
                       /\ Count(text, k - 1, {"(", "[", "{"}) = Count(text, k - 1, {")", "]", "}"})}

\* The rules of expressions, from the loosest: named ones and starred ones, as in displays
\* and calls; starred ones, as in bare tuples; and then those of operators.
Item == 0
StarItem == 1
Expression == 2
OrTest == 3
AndTest == 4
NotTest == 5
Comparison == 6
BinaryLevels == 7 :> {"|"} @@ 8 :> {"+", "-"} @@ 9 :> {"*"}
Unary == 10
Power == 11
Await == 12
Primary == 13
\* The other rules.
NamedExpression == 14
Testlist == 15
Yield == 16
Target == 17
Entry == 18
SubscriptPart == 19
Argument == 20
Parameter == 21
SimpleStatement == 22
Line == 23

\* The trees a rule gives a text; those of its parts, where it is cut at some of the places
\* of a token; and the parts of a comparison and of a comprehension.
RECURSIVE Trees(_, _), Separated(_, _, _), Compared(_), Clauses(_)

Separated(rule, tok, text) ==
  {<<a>> : a \in Trees(rule, text)}
  \union UNION {Longer(Trees(rule, Before(text, k)), Separated(rule, tok, After(text, k)))
                  : k \in Places(text, {tok})}

\* A list of elements, with a comma after the last one or without.
Elements(rule, text) == Separated(rule, ",", Without(",", text))
Tuples(rule, text) ==
  {<<"tuple">> \o s : s \in {e \in Elements(rule, text) : Len(e) > 1 \/ Ends(text, ",")}}
InParentheses(rule, text) ==
  LET inner == Between(text, 1, Len(text))
  IN IF ~Starts(text, "(") \/ ~Ends(text, ")") THEN {}
     ELSE IF inner = <<>> THEN {<<>>} ELSE Elements(rule, inner)

RECURSIVE Assignable(_)
Assignable(tree) ==
  \/ Label(tree) \in {"x", "attribute", "subscript"}
  \/ Label(tree) = "tuple" /\ Len(tree) > 1 /\ \A k \in 2..Len(tree) : Assignable(tree[k])
SingleTargets(text) == {t \in Trees(Target, text) : Label(t) # "tuple"}

\* "for" target "in" iterable and its conditions, once or more.
Clauses(text) ==
  LET clause(whole) ==
        UNION {Labelled("for", Longer(Trees(Target, Between(whole, 1, k)), Separated(OrTest, "if", After(whole, k))))
                 : k \in Places(whole, {"in"})}
  IN IF ~Starts(text, "for") THEN {}
     ELSE {<<c>> : c \in clause(text)}
          \union UNION {Longer(clause(Before(text, k + 1)), Clauses(SubSeq(text, k + 1, Len(text))))
                          : k \in Places(After(text, 1), {"for"})}
Comprehensions(label, rule, text) ==
  Labelled(label, UNION {Longer(Trees(rule, Before(text, k)), Clauses(SubSeq(text, k, Len(text))))
                           : k \in Places(text, {"for"})})

-----------------------------------------------------------------------------
(* Atoms, and what may follow them.                                        *)

AtomTrees(text) ==
  LET inner == Between(text, 1, Len(text))
  IN CASE Len(text) = 1 /\ text[1] \in {"x", "T"} -> {<<"x">>}
       [] Len(text) = 1 /\ text[1] \in {"s", "f-string"} -> {<<text[1]>>}
       [] Len(text) > 1 /\ \A k \in DOMAIN text : text[k] = "s" -> {<<"concatenation">>}
       [] text = <<"(", ")">> -> {<<"tuple">>}
       [] text = <<"[", "]">> -> {<<"list">>}
       [] text = <<"{", "}">> -> {<<"dict">>}
       [] Starts(text, "(") /\ Ends(text, ")") ->
            Trees(NamedExpression, inner) \union Tuples(Item, inner) \union Trees(Yield, inner)
            \union Comprehensions("generator", NamedExpression, inner)
       [] Starts(text, "[") /\ Ends(text, "]") ->
            Labelled("list", Elements(Item, inner))
            \union Comprehensions("comprehension", NamedExpression, inner)
       [] Starts(text, "{") /\ Ends(text, "}") ->
            Labelled("dict", Elements(Entry, inner)) \union Labelled("set", Elements(Item, inner))
            \union Comprehensions("set comprehension", NamedExpression, inner)
            \union Comprehensions("dict comprehension", Entry, inner)
       [] OTHER -> {}

Bounds(text) == IF text = <<>> THEN {None} ELSE Trees(Expression, text)
Slices(text) ==
  UNION {Joined("slice", Bounds(Before(text, k)), Bounds(After(text, k))) : k \in Places(text, {":"})}
Subscripts(text) ==
  {IF Len(p) = 1 /\ ~Ends(text, ",") THEN p[1] ELSE <<"tuple">> \o p : p \in Elements(SubscriptPart, text)}

ArgumentLists(text) ==
  IF text = <<>> THEN {<<>>}
  ELSE Elements(Argument, text) \union {<<g>> : g \in Comprehensions("generator", NamedExpression, text)}

Primaries(text) ==
  LET n == Len(text)
      last(tok) == {k \in DOMAIN text : k > 1 /\ text[k] = tok}
  IN AtomTrees(text)
     \union IF n > 2 /\ text[n - 1] = "." /\ text[n] \in {"x", "T"}
              THEN {<<"attribute", a>> : a \in Trees(Primary, SubSeq(text, 1, n - 2))} ELSE {}
     \union IF Ends(text, "]")
              THEN UNION {Joined("subscript", Trees(Primary, Before(text, k)), Subscripts(Between(text, k, n)))
                            : k \in last("[")} ELSE {}
     \union IF Ends(text, ")")
              THEN Labelled("call", UNION {Longer(Trees(Primary, Before(text, k)), ArgumentLists(Between(text, k, n)))
                                             : k \in last("(")}) ELSE {}

-----------------------------------------------------------------------------
(* Operators.                                                              *)

\* The comparison operators that start at a place, with the tokens they take.
ComparisonsAt(text, k) ==
  LET pair == k < Len(text)
  IN (IF text[k] \in {"<", "in", "is"} THEN {<<text[k], 1>>} ELSE {})
     \union (IF pair /\ text[k] = "not" /\ text[k + 1] = "in" THEN {<<"not in", 2>>} ELSE {})
     \union (IF pair /\ text[k] = "is" /\ text[k + 1] = "not" THEN {<<"is not", 2>>} ELSE {})
Compared(text) ==
  {<<a>> : a \in Trees(Comparison + 1, text)}
  \union UNION {UNION {Longer(Trees(Comparison + 1, Before(text, k)),
                              Longer({<<op[1]>>}, Compared(After(text, k + op[2] - 1))))
                         : op \in ComparisonsAt(text, k)}
                  : k \in Places(text, {"<", "in", "is", "not"})}

Conditionals(text) ==
  UNION {UNION {Labelled("conditional",
                   Longer(Trees(OrTest, Before(text, j)),
                          Longer(Trees(OrTest, Between(text, j, k)), Longer(Trees(Expression, After(text, k)), {<<>>}))))
                  : k \in {p \in Places(text, {"else"}) : p > j}}
           : j \in Places(text, {"if"})}

\* The parameters are not part of the tree.
IsParameters(text) ==
  \/ text = <<>>
  \/ Separated(Primary, ",", text) \intersect {<<<<"x">>>>, <<<<"x">>, <<"x">>>>} # {}
  \/ Len(text) > 2 /\ text[1] \in {"x", "T"} /\ text[2] = "=" /\ Trees(Expression, After(text, 2)) # {}
Lambdas(text) ==
  IF ~Starts(text, "lambda") THEN {}
  ELSE UNION {{<<"lambda", b>> : b \in Trees(Expression, After(text, k))}
                : k \in {j \in Places(text, {":"}) : IsParameters(Between(text, 1, j))}}

\* What a rule adds to the next tighter one.
Own(level, text) ==
  CASE level = Item ->
         IF Len(text) > 2 /\ text[1] \in {"x", "T"} /\ text[2] = ":="
           THEN {<<"walrus", e>> : e \in Trees(Expression, After(text, 2))} ELSE {}
    [] level = StarItem ->
         IF Starts(text, "*") THEN {<<"starred", e>> : e \in Trees(Comparison + 1, Tail(text))} ELSE {}
    [] level = Expression -> Conditionals(text) \union Lambdas(text)
    [] level = OrTest -> Labelled("or", {s \in Separated(AndTest, "or", text) : Len(s) > 1})
    [] level = AndTest -> Labelled("and", {s \in Separated(NotTest, "and", text) : Len(s) > 1})
    [] level = NotTest ->
         IF Starts(text, "not") THEN {<<"not", e>> : e \in Trees(NotTest, Tail(text))} ELSE {}
    [] level = Comparison -> Labelled("compare", {s \in Compared(text) : Len(s) > 1})
    [] level \in DOMAIN BinaryLevels ->
         UNION {Joined(text[k], Trees(level, Before(text, k)), Trees(level + 1, After(text, k)))
                  : k \in Places(text, BinaryLevels[level])}
    [] level = Unary ->
         IF Starts(text, "-") \/ Starts(text, "+")
           THEN {<<"unary", <<text[1]>>, e>> : e \in Trees(Unary, Tail(text))} ELSE {}
    [] level = Power ->
         UNION {Joined("**", Trees(Await, Before(text, k)), Trees(Unary, After(text, k)))
                  : k \in Places(text, {"**"})}
    [] level = Await ->
         IF Starts(text, "await") THEN {<<"await", e>> : e \in Trees(Primary, Tail(text))} ELSE {}

\* How expressions begin and end, whatever the rule: most texts are neither.
MayBeAnExpression(text) ==
  /\ text # <<>>
  /\ text[Len(text)] \in {"x", "T", "s", "f-string", ")", "]", "}"}
  /\ text[1] \notin {")", "]", "}", ",", ":", "=", ".", "<", "|", "or", "and", "in", "is", "if", "for"}

\* A rule adds nothing to a text that has none of its tokens.
Marks ==
  <<{":="}, {"*"}, {"if", "lambda"}, {"or"}, {"and"}, {"not"}, {"<", "in", "is", "not"},
    {"|"}, {"+", "-"}, {"*"}, {"+", "-"}, {"**"}, {"await"}>>
RECURSIVE Derived(_, _)
Derived(level, text) ==
  IF level = Primary THEN Primaries(text)
  ELSE Derived(level + 1, text)
       \union IF \E k \in DOMAIN text : text[k] \in Marks[level + 1] THEN Own(level, text) ELSE {}

-----------------------------------------------------------------------------
(* Statements of one logical line.                                         *)

Values(text) == Trees(Testlist, text) \union Trees(Yield, text)
Assignments(text) ==
  LET places == Places(text, {"="})
  IN UNION {Joined("assign", Trees(Target, Before(text, k)), Values(After(text, k))) : k \in places}
     \union UNION {Labelled("chained assignment",
                     Longer(Trees(Target, Before(text, p[1])),
                            Longer(Trees(Target, Between(text, p[1], p[2])), Longer(Values(After(text, p[2])), {<<>>}))))
                     : p \in {q \in places \X places : q[1] < q[2]}}
Annotations(text) ==
  LET value(rest, k) == IF k > Len(rest) THEN {None} ELSE Values(After(rest, k))
      annotated(targets, rest) ==
        UNION {Labelled("annotate", Longer(targets, Longer(Trees(Expression, Before(rest, k)), Longer(value(rest, k), {<<>>}))))
                 : k \in Places(rest, {"="}) \union {Len(rest) + 1}}
  IN UNION {annotated(SingleTargets(Before(text, k)), After(text, k)) : k \in Places(text, {":"})}
Augmented(text) ==
  UNION {Joined("augmented", SingleTargets(Before(text, k)), Values(After(text, k)))
           : k \in Places(text, {"+="})}

SimpleStatements(text) ==
  Values(text) \union Assignments(text) \union Annotations(text) \union Augmented(text)
  \union (IF text = <<"pass">> THEN {<<"pass">>} ELSE {})
  \union (IF text = <<"return">> THEN {<<"return", None>>} ELSE {})
  \union (IF Starts(text, "return") THEN {<<"return", v>> : v \in Trees(Testlist, Tail(text))} ELSE {})
SimpleLines(text) == Separated(SimpleStatement, ";", Without(";", text))

OptionalPart(text, tok) ==
  IF text = <<>> THEN {None} ELSE IF Starts(text, tok) THEN Trees(Expression, Tail(text)) ELSE {}
Parameters(text) ==
  IF text = <<>> \/ text[1] \notin {"x", "T"} THEN {}
  ELSE UNION {Joined("parameter", OptionalPart(SubSeq(text, 2, k - 1), ":"),
                                  OptionalPart(SubSeq(text, k, Len(text)), "="))
                : k \in Places(text, {"="}) \union {Len(text) + 1}}
Signatures(text) ==
  UNION {Joined("def", Labelled("parameters", InParentheses(Parameter, Before(text, k))),
                       OptionalPart(SubSeq(text, k, Len(text)), "->"))
           : k \in Places(text, {"->"}) \union {Len(text) + 1}}

Headers(text) ==
  LET named == Len(text) > 1 /\ text[2] \in {"x", "T"}
  IN CASE text = <<>> -> {}
       [] Starts(text, "if") \/ Starts(text, "while") -> {<<text[1], c>> : c \in Trees(NamedExpression, Tail(text))}
       [] Starts(text, "for") ->
            UNION {Joined("for", Trees(Target, Between(text, 1, k)), Trees(Testlist, After(text, k)))
                     : k \in Places(text, {"in"})}
       [] Starts(text, "def") /\ named -> Signatures(After(text, 2))
       [] text = <<"class", "x">> -> {<<"class">>}
       [] Starts(text, "class") /\ named /\ Len(text) > 2 ->
            Labelled("class", InParentheses(Argument, After(text, 2)))
       [] OTHER -> {}

\* A suite: statements on the line of the header, or a block below it.
CompoundLines(text) ==
  LET suite(rest) == Labelled("suite", IF rest = <<>> THEN {<<<<"block">>>>} ELSE SimpleLines(rest))
  IN UNION {{Append(h, s) : h \in Headers(Before(text, k)), s \in suite(After(text, k))}
              : k \in Places(text, {":"})}

-----------------------------------------------------------------------------
Trees(rule, text) ==
  CASE rule <= Primary -> IF MayBeAnExpression(text) THEN Derived(rule, text) ELSE {}
    [] rule = NamedExpression -> {t \in Trees(Item, text) : Label(t) # "starred"}
    [] rule = Testlist -> Trees(Expression, text) \union Tuples(StarItem, text)
    [] rule = Yield ->
         IF Starts(text, "yield")
           THEN {<<"yield">>} \union {<<"yield", v>> : v \in Trees(Testlist, Tail(text))} ELSE {}
    [] rule = Target -> {t \in Trees(Primary, text) \union Tuples(Primary, text) : Assignable(t)}
    [] rule = Entry ->
         UNION {Joined("entry", Trees(Expression, Before(text, k)), Trees(Expression, After(text, k)))
                  : k \in Places(text, {":"})}
    [] rule = SubscriptPart -> Slices(text) \union Trees(Item, text)
    [] rule = Argument ->
         Trees(Item, text)
         \union IF Len(text) > 2 /\ text[1] \in {"x", "T"} /\ text[2] = "="
                  THEN {<<"keyword", v>> : v \in Trees(Expression, After(text, 2))} ELSE {}
    [] rule = Parameter -> Parameters(text)
    [] rule = SimpleStatement -> SimpleStatements(text)
    [] rule = Line -> Labelled("suite", SimpleLines(text)) \union CompoundLines(text)

Lines(text) == Trees(Line, text)
=============================================================================
