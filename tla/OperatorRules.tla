--------------------------- MODULE OperatorRules ---------------------------
(***************************************************************************)
(* What Python's operators do to types.  Every rule answers in three ways: *)
(* Ok with a type; NotApplicable, on which the caller reports a TypeError; *)
(* Unsupported, on which it reports that this compiler cannot model the    *)
(* answer and never a TypeError, for the program may be right.             *)
(***************************************************************************)
EXTENDS Types

Ok(type) == [status |-> "Ok", type |-> type]
NotApplicable == [status |-> "NotApplicable", type |-> Unknown]
Unsupported(reason) == [status |-> "Unsupported", type |-> Unknown, reason |-> reason]

\* Mutant of is_integral: a bool is not counted as an int.
is_int(type) == type.kind = "Int"

is_integral(type) == type.kind \in {"Bool", "Int"}
IsNumeric(type) == numeric_rank(type.kind) # 0
IsSet(type) == type.kind \in {"Set", "FrozenSet"}
IsBytes(type) == type.kind \in {"Bytes", "ByteArray"}

\* Mutant of numeric_of_rank: a sum of bools is a bool.
numeric_of_any_rank(rank) == of(NumericKinds[rank])

\* The wider of the numbers, never narrower than int: True + True is 2.
numeric_of_rank(rank) == of(NumericKinds[IF rank < 2 THEN 2 ELSE rank])
WiderRank(left, right) ==
  LET l == numeric_rank(left.kind)
      r == numeric_rank(right.kind)
  IN IF l < r THEN r ELSE l
numeric_join(left, right) == numeric_of_rank(WiderRank(left, right))

plus_result(left, right) ==
  CASE IsNumeric(left) /\ IsNumeric(right) -> Ok(numeric_join(left, right))
    [] left.kind = "Str" /\ right.kind = "Str" -> Ok(left)
    [] IsBytes(left) /\ IsBytes(right) -> Ok(left)
    [] left.kind = "List" /\ right.kind = "List" /\ Len(left.args) = 1 /\ Len(right.args) = 1 ->
         Ok(parametric("List", <<union_of(left.args \o right.args)>>))
    [] left.kind = "Tuple" /\ right.kind = "Tuple" ->
         Ok(parametric("Tuple", left.args \o right.args))
    [] OTHER -> NotApplicable

\* A number times a number, or a sequence repeated.
star_result(left, right) ==
  LET operands == IF is_integral(left) THEN <<right, left>> ELSE <<left, right>>
  IN CASE IsNumeric(left) /\ IsNumeric(right) -> Ok(numeric_join(left, right))
       [] is_integral(operands[2]) /\ operands[1].kind \in {"Str", "Bytes", "ByteArray", "List"} ->
            Ok(operands[1])
       [] OTHER -> NotApplicable

true_divide_result(left, right) ==
  IF IsNumeric(left) /\ IsNumeric(right)
  THEN Ok(numeric_of_rank(IF WiderRank(left, right) = 4 THEN 4 ELSE 3))
  ELSE NotApplicable

modulo_result(left, right) ==
  CASE IsNumeric(left) /\ IsNumeric(right) -> Ok(numeric_join(left, right))
    [] left.kind = "Str" -> Ok(of("Str"))
    [] IsBytes(left) -> Ok(of("Bytes"))
    [] OTHER -> NotApplicable

integer_only_result(left, right) ==
  IF is_integral(left) /\ is_integral(right) THEN Ok(of("Int")) ELSE NotApplicable

intersection_or_union_result(left, right) ==
  IF IsSet(left) /\ left.kind = right.kind /\ is_equivalent(left, right, NoClasses)
  THEN Ok(left) ELSE integer_only_result(left, right)

pipe_result(left, right) ==
  IF left.kind = "Dict" /\ right.kind = "Dict" /\ Len(left.args) = 2 /\ Len(right.args) = 2
  THEN Ok(parametric("Dict", [i \in 1..2 |-> union_of(<<left.args[i], right.args[i]>>)]))
  ELSE intersection_or_union_result(left, right)

arithmetic_result(left, right) ==
  IF IsNumeric(left) /\ IsNumeric(right) THEN Ok(numeric_join(left, right)) ELSE NotApplicable

BinaryOps == {"+", "-", "*", "/", "//", "**", "%", "@", "&", "|", "^", "<<", ">>"}

binary_table(op, left, right) ==
  CASE op = "+" -> plus_result(left, right)
    [] op = "*" -> star_result(left, right)
    [] op = "/" -> true_divide_result(left, right)
    [] op \in {"-", "//", "**"} -> arithmetic_result(left, right)
    [] op = "%" -> modulo_result(left, right)
    [] op = "&" -> intersection_or_union_result(left, right)
    [] op = "|" -> pipe_result(left, right)
    [] op \in {"^", "<<", ">>"} -> integer_only_result(left, right)
    [] op = "@" -> NotApplicable

binary_result(op, left, right) ==
  LET operands == {left, right}
      kinds == {left.kind, right.kind}
      repeats == "Tuple" \in kinds /\ \E t \in operands : is_integral(t)
  IN CASE "Unknown" \in kinds -> Ok(Unknown)
       [] "Union" \in kinds -> Unsupported("UnionOperand")
       [] "Class" \in kinds -> Unsupported("UserClassOperator")
       [] repeats /\ op = "*" -> Unsupported("TupleRepeat")
       [] OTHER -> binary_table(op, left, right)

UnaryOps == {"+", "-", "~", "not"}

unary_result(op, operand) ==
  CASE op = "not" -> Ok(of("Bool"))
    [] operand.kind = "Unknown" -> Ok(Unknown)
    [] operand.kind = "Class" -> Unsupported("UserClassOperator")
    [] operand.kind = "Union" -> Unsupported("UnionOperand")
    [] op \in {"+", "-"} /\ IsNumeric(operand) -> Ok(numeric_of_rank(numeric_rank(operand.kind)))
    [] op = "~" /\ is_integral(operand) -> Ok(of("Int"))
    [] OTHER -> NotApplicable

is_container(type) ==
  type.kind \in {"List", "Dict", "Set", "FrozenSet", "Tuple", "Str", "Bytes", "ByteArray", "Range"}

AreOrdered(left, right) ==
  \/ IsNumeric(left) /\ IsNumeric(right)
  \/ IsBytes(left) /\ IsBytes(right)
  \/ IsSet(left) /\ IsSet(right)
  \/ left.kind = right.kind /\ left.kind \in {"Str", "Tuple"}
  \/ left.kind = right.kind /\ left.kind = "List" /\ is_equivalent(left, right, NoClasses)

ordered_result(left, right) ==
  IF AreOrdered(left, right) THEN Ok(of("Bool")) ELSE NotApplicable

CompareOps == {"==", "is", "in", "<"}

comparison_result(op, left, right) ==
  LET kinds == {left.kind, right.kind}
  IN CASE op \in {"==", "is"} -> Ok(of("Bool"))
       [] op = "in" /\ right.kind = "Class" -> Unsupported("UserClassOperator")
       [] op = "in" /\ right.kind = "Union" -> Unsupported("UnionOperand")
       [] op = "in" ->
            IF right.kind = "Unknown" \/ is_container(right) THEN Ok(of("Bool")) ELSE NotApplicable
       [] "Unknown" \in kinds -> Ok(of("Bool"))
       [] "Class" \in kinds -> Unsupported("UserClassOperator")
       [] "Union" \in kinds -> Unsupported("UnionOperand")
       [] OTHER -> ordered_result(left, right)

\* An index written as a literal, <<i>> here, picks one member, counted from the end when
\* negative; of any other index, <<>> here, only the type is known.
tuple_item(args, literal_index) ==
  LET size == Len(args)
      normalised(i) == IF i < 0 THEN i + size ELSE i
  IN CASE args = <<>> -> NotApplicable
       [] literal_index = <<>> -> Ok(union_of(args))
       [] literal_index[1] \in (-size)..(size - 1) -> Ok(args[1 + normalised(literal_index[1])])
       [] OTHER -> NotApplicable

item_of_builtin(container, index, classes, literal_index) ==
  CASE container.kind = "Union" -> Unsupported("UnionOperand")
    [] container.kind = "Dict" ->
         IF container.args # <<>> /\ is_subtype(index, container.args[1], classes)
         THEN Ok(container.args[2]) ELSE NotApplicable
    [] ~is_integral(index) -> NotApplicable
    [] container.kind = "List" /\ container.args # <<>> -> Ok(container.args[1])
    [] container.kind = "Str" -> Ok(of("Str"))
    [] container.kind \in {"Bytes", "ByteArray", "Range"} -> Ok(of("Int"))
    [] container.kind = "Tuple" -> tuple_item(container.args, literal_index)
    [] OTHER -> NotApplicable

\* What a class inherits answers for it, but its NotApplicable does not count.
subscript_result(container, index, classes, literal_index) ==
  LET base == builtin_base_of_class(classes, container.name)
      inherited == item_of_builtin(base, index, classes, literal_index)
  IN CASE "Unknown" \in {container.kind, index.kind} -> Ok(Unknown)
       [] container.kind # "Class" -> item_of_builtin(container, index, classes, literal_index)
       [] base # Unknown /\ inherited.status = "Ok" -> inherited
       [] OTHER -> Unsupported("UserClassOperator")

element_of_builtin(iterable) ==
  CASE iterable.kind = "Union" -> Unsupported("UnionOperand")
    [] iterable.kind \in {"List", "Set", "FrozenSet", "Dict"} /\ iterable.args # <<>> ->
         Ok(iterable.args[1])
    [] iterable.kind = "Str" -> Ok(of("Str"))
    [] iterable.kind \in {"Bytes", "ByteArray", "Range"} -> Ok(of("Int"))
    [] iterable.kind = "Tuple" /\ iterable.args # <<>> -> Ok(union_of(iterable.args))
    [] OTHER -> NotApplicable

element_type(iterable, classes) ==
  LET base == builtin_base_of_class(classes, iterable.name)
      inherited == element_of_builtin(base)
  IN CASE iterable.kind = "Unknown" -> Ok(Unknown)
       [] iterable.kind # "Class" -> element_of_builtin(iterable)
       [] base # Unknown /\ inherited.status = "Ok" -> inherited
       [] OTHER -> Unsupported("UserClassIteration")

boolop_result(operands) ==
  LET kinds == {operands[i].kind : i \in DOMAIN operands}
  IN CASE "Unknown" \in kinds -> Ok(Unknown)
       [] "Union" \in kinds -> Unsupported("UnionOperand")
       [] OTHER -> Ok(union_of(operands))
=============================================================================
