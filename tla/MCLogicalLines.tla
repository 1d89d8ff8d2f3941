--------------------------- MODULE MCLogicalLines ---------------------------
(***************************************************************************)
(* Lines for TLC: every construct of the grammar in every place of a       *)
(* statement, and in every place of another construct.                     *)
(***************************************************************************)
EXTENDS LogicalLines

SomeAtoms == {<<"x">>}

Around(left, right) == [left |-> left, right |-> right]
Left(toks) == Around(toks, <<>>)
Right(toks) == Around(<<>>, toks)

Infix == {<<"or">>, <<"and">>, <<"<">>, <<"in">>, <<"is">>, <<"not", "in">>, <<"is", "not">>, <<"|">>,
          <<"+">>, <<"-">>, <<"*">>, <<"**">>, <<",">>}
Operators == {Left(<<"x">> \o op) : op \in Infix} \union {Right(op \o <<"s">>) : op \in Infix}
             \union {Left(<<op>>) : op \in {"not", "-", "*", "await", "yield"}}
             \union {Right(<<",">>), Right(<<"s">>), Right(<<"+", "s", "s">>), Left(<<"f-string">>)}
Postfix == {Right(<<".", "x">>), Right(<<"[", "x", "]">>), Right(<<"(", "x", ",", ")">>),
            Around(<<"x", "[">>, <<"]">>), Around(<<"x", "(">>, <<")">>),
            Around(<<"x", "[">>, <<":", "]">>), Around(<<"x", "[", ":">>, <<"]">>),
            Around(<<"x", "[", "x", ",">>, <<":", "x", "]">>), Around(<<"x", "[", "x", ",", ":">>, <<"]">>),
            Around(<<"x", "(", "x", "=">>, <<")">>)}
Displays == {Around(<<"(">>, <<")">>), Around(<<"[">>, <<"]">>), Around(<<"{">>, <<"}">>),
             Around(<<"{">>, <<":", "x", "}">>), Around(<<"{", "x", ":", "x", ",", "x", ":">>, <<"}">>)}
OneFor == <<"for", "x", "in", "x">>
Comprehensions ==
  {Around(<<"[">>, OneFor \o <<"]">>), Around(<<"[", "x", "for">>, <<"in", "x", "]">>),
   Around(<<"[", "x", "for", "x", "in">>, <<"]">>), Around(<<"[", "x">> \o OneFor \o <<"if">>, <<"if", "x", "]">>),
   Around(<<"[", "x">> \o OneFor \o <<"for", "x", "in">>, <<"]">>),
   Around(<<"(">>, OneFor \o <<")">>), Around(<<"{">>, OneFor \o <<"}">>),
   Around(<<"{", "x", ":">>, OneFor \o <<"}">>)}
Refused == {Right(<<"if", "x", "else", "x">>), Around(<<"x", "if">>, <<"else", "x">>),
            Left(<<"x", "if", "x", "else">>), Left(<<"lambda", ":">>), Left(<<"lambda", "x", ",", "x", ":">>),
            Around(<<"lambda", "x", "=">>, <<":", "x">>), Around(<<"(", "x", ":=">>, <<")">>)}
SomeConstructs == Operators \union Postfix \union Displays \union Comprehensions \union Refused

Plain(left, right) == [left |-> left, right |-> right, annotates |-> FALSE]
Annotating(left, right) == [left |-> left, right |-> right, annotates |-> TRUE]
SomeForms ==
  {Plain(<<>>, <<>>), Plain(<<"return">>, <<";">>), Plain(<<"pass", ";">>, <<>>),
   Plain(<<>>, <<"=", "x">>), Plain(<<"x", "=">>, <<>>), Plain(<<"x", "=">>, <<"=", "x">>),
   Plain(<<>>, <<"+=", "x">>), Plain(<<>>, <<":", "T", "=", "x">>), Plain(<<"x", ":", "T", "=">>, <<>>),
   Annotating(<<"x", ":">>, <<>>), Annotating(<<"x", ":">>, <<"=", "x">>),
   Annotating(<<"x", ";", "x", ":">>, <<";", "x">>),
   Plain(<<"if">>, <<":">>), Plain(<<"while">>, <<":", "x", ":", "T">>),
   Plain(<<"for">>, <<"in", "x", ":", "x">>), Plain(<<"for", "x", "in">>, <<":", "x", ":", "T">>),
   Plain(<<"def", "x", "(", "x", ":", "T", "=">>, <<",", "x", ":", "T", ")", ":">>),
   Annotating(<<"def", "x", "(", "x", ":">>, <<",", "x", ")", ":", "x">>),
   Annotating(<<"def", "x", "(", ")", "->">>, <<":", "return", "x">>),
   Plain(<<"class", "x", "(">>, <<")", ":", "x", ":", "T">>)}
=============================================================================
