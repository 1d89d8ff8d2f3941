--------------------------- MODULE MCClassBodies ---------------------------
(***************************************************************************)
(* Programs of ClassBodies for TLC, in families: bodies that declare one   *)
(* attribute in several ways along a chain of bases, hierarchies with a    *)
(* diamond, classes on builtins with constructors, and classes of nested   *)
(* functions.  The program of no line stands for a display: scalars,       *)
(* containers, tuples, unions, callables and the classes of one table,     *)
(* which has single and multiple inheritance, classes on builtins and an   *)
(* alias.                                                                  *)
(***************************************************************************)
EXTENDS ClassBodies, Display

\* The names of classes, each with the keys under which a line of a program isolates it.
LastLine == 20
Keys ==
  LET names == <<"A", "B", "BaseException", "C", "D", "Exception", "ExceptionGroup",
                 "FileNotFoundError", "IOError", "IntList", "K", "L", "OSError", "P", "Q", "S",
                 "T", "X", "Y", "property", "super", "type">>
      isolated_at(name) == [i \in 1..LastLine |-> name \o "#" \o ToString(i)]
  IN FlattenSeq([n \in DOMAIN names |-> <<names[n]>> \o isolated_at(names[n])])

Line(op, name, type) == [op |-> op, name |-> name, type |-> type, bases |-> <<>>, params |-> 0]
End == <<Line("end", "", NoneType)>>
Class(name, bases, body) ==
  <<[Line("class", name, NoneType) EXCEPT !.bases = bases]>> \o body \o End
Def(name, type, params, body) ==
  <<[Line("def", name, type) EXCEPT !.params = params]>> \o body \o End

Numbers == {of("Bool"), of("Int"), of("Float")}

\* One way to declare or to store the attribute x.
Ways(types) ==
  {<<Line(op, "x", t)>> : op \in {"ann", "assign"}, t \in types}
  \union {Def("m", NoneType, 0, <<Line(op, "x", t)>>) : op \in {"selfann", "selfassign"}, t \in types}
  \union {Def("x", of("Int"), 0, <<>>)}
BodiesOf(types, n) == {FlattenSeq(ways) : ways \in UNION {[1..k -> Ways(types)] : k \in 0..n}}

Chains ==
  {Class("A", <<>>, a) \o Class("B", <<"A">>, b)
     : a \in BodiesOf(Numbers, 1), b \in BodiesOf(Numbers, 2)}
  \union {Class("A", <<>>, a) \o Class("B", <<"A">>, b) \o Class("C", <<"B">>, c)
            : a \in BodiesOf({of("Float")}, 1), b \in BodiesOf({of("Int")}, 1),
              c \in BodiesOf({of("Bool"), of("Float")}, 1)}

Method(t) == Def("m", of(t), 0, <<>>)
Diamonds(tops, sides) ==
  {Class("A", <<>>, a) \o Class("B", <<"A">>, b) \o Class("C", <<"A">>, c) \o Class("D", d, <<>>)
     : a \in tops, b \in sides, c \in sides, d \in {<<"B", "C">>, <<"C", "B">>, <<"A", "B">>, <<"B">>}}
Hierarchies == Diamonds({<<>>, Method("Int")}, {<<>>, Method("Int"), Method("Bool")})

Constructors ==
  {<<>>} \union {Def(name, NoneType, n, <<>>) : name \in {"__init__", "__new__"}, n \in {0, 1}}
Built ==
  {Class("A", a, x) \o Class("B", b, y) \o Class("C", c, <<>>)
     : a \in {<<>>, <<"object">>, <<"Exception">>, <<"ExceptionGroup">>, <<"property">>, <<"int">>},
       x \in Constructors,
       b \in {<<>>, <<"A">>, <<"super">>, <<"IOError">>, <<"Missing">>}, y \in Constructors,
       c \in {<<"A", "B">>, <<"B">>, <<"B", "A">>}}
  \union {Class(name, <<>>, x) \o Class("B", <<name>>, <<>>)
            : name \in {"IOError", "property"}, x \in Constructors}

Locals == {Class("L", <<>>, <<>>), Class("K", <<"L">>, <<>>)}
Some(parts) == {<<>>} \union parts
Inner == {Def("h", NoneType, 0, x \o y) : x \in Some(Locals), y \in Some(Locals)}
Outer == {Def("f", NoneType, 0, x \o y \o z) : x \in Some(Locals), y \in Inner \union Locals, z \in Some(Locals)}
Scoped == {m \o f \o n : m \in Some(Locals), f \in Outer, n \in Some(Locals)}

AllPrograms == {<<>>} \union Chains \union Hierarchies \union Built \union Scoped

-----------------------------------------------------------------------------
(* The operands of a display.                                              *)

DisplayedClasses ==
  [bases |->
     [FileNotFoundError |-> <<class_of("IOError")>>, OSError |-> <<>>, P |-> <<>>, Q |-> <<>>,
      S |-> <<of("Int")>>, T |-> <<of("Float")>>, X |-> <<class_of("P"), class_of("Q")>>,
      Y |-> <<class_of("Q"), class_of("P")>>,
      IntList |-> <<parametric("List", <<of("Int")>>)>>,
      bool |-> <<of("Int")>>],
   canonical |-> [IOError |-> "OSError"]]

list_of(t) == parametric("List", <<t>>)
set_of(t) == parametric("Set", <<t>>)
tuple_of(ts) == parametric("Tuple", ts)
IntOrStr == union_of(<<of("Int"), of("Str")>>)
StrOrInt == union_of(<<of("Str"), of("Int")>>)

Scalars == {Unknown, NoneType, Object} \union {of(k) : k \in {"Bool", "Int", "Float", "Complex"}}
Containers == {list_of(of("Int")), list_of(IntOrStr), list_of(StrOrInt), set_of(StrOrInt),
               parametric("Dict", <<of("Float"), of("Str")>>),
               tuple_of(<<of("Bool")>>), tuple_of(<<of("Int")>>), tuple_of(<<>>)}
Unions == {IntOrStr, StrOrInt, union_of(<<of("Bool"), of("Int")>>),
           union_of(<<of("Int"), NoneType>>)}
Callables == {callable(<<of("Int")>>, of("Bool"), 0), callable(<<of("Bool")>>, of("Int"), 1),
              class_of("type")}
ClassTypes == {class_of(n) : n \in {"IOError", "OSError", "FileNotFoundError", "P", "S", "T", "X",
                                    "Y", "IntList"}}

SomeTypes == Scalars \union {of("Str"), of("Bytes"), of("ByteArray"), of("Range")}
            \union Containers \union Unions \union Callables \union ClassTypes

-----------------------------------------------------------------------------
(* A program of classes is checked, or a display is folded.                *)

EitherInit == Init /\ FoldInit
EitherNext ==
  \/ Next /\ UNCHANGED foldVars
  \/ text = <<>> /\ FoldNext /\ UNCHANGED vars
EitherSpec == EitherInit /\ [][EitherNext]_<<vars, foldVars>>
=============================================================================
