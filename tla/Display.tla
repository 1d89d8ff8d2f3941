------------------------------ MODULE Display ------------------------------
(***************************************************************************)
(* ExpressionTyper::type_of_list of a display without a declared type: the *)
(* types of the elements, one after the other, folded through join.  The   *)
(* elements are also the operands on which the laws of assignability and   *)
(* of the operator rules are checked.                                      *)
(***************************************************************************)
EXTENDS OperatorRules

CONSTANTS
  Operands,      \* the types an element may have
  Table,         \* the class table
  MaxElements    \* bound: how many elements a display has

VARIABLES
  elements,      \* the types of the elements typed so far
  joined         \* what the fold has made of them

foldVars == <<elements, joined>>

FoldInit == elements = <<>> /\ joined = Unknown

FirstElement ==
  /\ elements = <<>>
  /\ \E t \in Operands : elements' = <<t>> /\ joined' = t

NextElement ==
  /\ elements # <<>>
  /\ Len(elements) < MaxElements
  /\ \E t \in Operands : /\ elements' = Append(elements, t)
                         /\ joined' = join(joined, t, Table)

FoldNext == FirstElement \/ NextElement

FoldSpec == FoldInit /\ [][FoldNext]_foldVars

-----------------------------------------------------------------------------
(* Properties.                                                             *)

Under(left, right) == is_subtype(left, right, Table)
Known == Unknown \notin ToSet(elements)

\* The element type admits every element, whichever classes, unions and containers they
\* are of: a display typed list[T] never holds what `x: T = display[i]` could not.
ElementTypeAdmitsEveryElement ==
  \A i \in DOMAIN elements : Under(elements[i], joined)

\* Assignability carries over: what may be passed on through a name of a wider type may
\* be passed on directly, through unions, the numeric tower, base chains that end in a
\* builtin, aliases and callables.
AssignabilityIsTransitive ==
  Len(elements) = 3 /\ Known =>
    (Under(elements[1], elements[2]) /\ Under(elements[2], elements[3])
       => Under(elements[1], elements[3]))

\* The rules by which an operand is judged, each as a function of one operand.
Judged(t, other) ==
  {<<op, "left", binary_result(op, t, other)>> : op \in BinaryOps}
  \union {<<op, "right", binary_result(op, other, t)>> : op \in BinaryOps}
  \union {<<op, "left", comparison_result(op, t, other)>> : op \in CompareOps}
  \union {<<op, "right", comparison_result(op, other, t)>> : op \in CompareOps}
  \union {<<op, "unary", unary_result(op, t)>> : op \in UnaryOps}
  \union {<<"or", "left", boolop_result(<<t, other>>)>>,
          <<"for", "iterable", element_type(t, Table)>>,
          <<"[]", "container", subscript_result(t, other, Table, <<>>)>>,
          <<"[0]", "container", subscript_result(t, of("Int"), Table, <<0>>)>>}

\* An operator that takes a type takes every type assignable to it: passing a bool where
\* an int was, or a subclass where its base was, is never a TypeError, and yields
\* nothing the wider operand would not have yielded.
NarrowerOperandIsTaken ==
  Len(elements) = 3 /\ Known /\ Under(elements[1], elements[2]) =>
    \A wide \in Judged(elements[2], elements[3]) : wide[3].status = "Ok" =>
      \A narrow \in Judged(elements[1], elements[3]) :
        (narrow[1] = wide[1] /\ narrow[2] = wide[2]) =>
          /\ narrow[3].status # "NotApplicable"
          /\ narrow[3].status = "Ok" => Under(narrow[3].type, wide[3].type)

=============================================================================
