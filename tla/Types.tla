------------------------------- MODULE Types -------------------------------
(***************************************************************************)
(* The type checker's types and the relations over them: assignability     *)
(* (is_subtype), identity (is_equivalent) and the least upper bound of the *)
(* elements of a display (join).                                           *)
(*                                                                         *)
(* A class table is a record of two functions: bases, from a key (a class  *)
(* name or the spelling of a builtin) to the sequence of its bases, and    *)
(* canonical, from an alias to the name of the class it stands for.  The   *)
(* table a caller without one passes is NoClasses.                         *)
(***************************************************************************)
EXTENDS Integers, Sequences, SequencesExt

\* The user class names, in their alphabetical order.
CONSTANT ClassNames

NumericKinds == <<"Bool", "Int", "Float", "Complex">>
Kinds == <<"Unknown", "NoneType">> \o NumericKinds
           \o <<"Str", "Bytes", "ByteArray", "Ellipsis", "List", "Dict", "Set", "FrozenSet",
                "Tuple", "Range", "Union", "Callable", "Class", "Object">>

parametric(kind, args) == [kind |-> kind, name |-> "", args |-> args, defaulted_params |-> 0]
of(kind) == parametric(kind, <<>>)
class_of(name) == [of("Class") EXCEPT !.name = name]
\* The parameters, then the return type.
callable(params, result, defaulted) ==
  [parametric("Callable", Append(params, result)) EXCEPT !.defaulted_params = defaulted]

\* Bound: how deep the arguments of a type nest, in the types that are compared.
MaxNesting == 6

TypesOver(kinds) ==
  LET types[d \in 0..MaxNesting] ==
        [kind : kinds, name : ToSet(ClassNames) \union {""},
         args : IF d = 0 THEN {<<>>} ELSE Seq(types[d - 1]), defaulted_params : Nat]
  IN types[MaxNesting]
AllTypes == TypesOver(ToSet(Kinds))

Unknown == of("Unknown")
NoneType == of("NoneType")
Object == of("Object")

Flatten(members) ==
  FlattenSeq([i \in DOMAIN members |->
                IF members[i].kind = "Union" THEN members[i].args ELSE <<members[i]>>])

\* Every member once, where it first stands.
Distinct(members) ==
  LET upto[k \in 0..Len(members)] ==
        IF k = 0 THEN <<>>
        ELSE IF Contains(upto[k - 1], members[k]) THEN upto[k - 1]
        ELSE Append(upto[k - 1], members[k])
  IN upto[Len(members)]

union_of(members) ==
  LET flat == Flatten(members)
  IN CASE flat = <<>> \/ Unknown \in ToSet(flat) -> Unknown
       [] ToSet(flat) = {flat[1]} -> flat[1]
       [] OTHER -> parametric("Union", Distinct(flat))

\* 0 for what is no number, the position in the tower otherwise.
PositionIn(seq, x) == IF Contains(seq, x) THEN CHOOSE i \in DOMAIN seq : seq[i] = x ELSE 0
numeric_rank(kind) == PositionIn(NumericKinds, kind)

-----------------------------------------------------------------------------
(* The classes above a class.                                              *)

BuiltinSpelling ==
  [Bool |-> "bool", ByteArray |-> "bytearray", Bytes |-> "bytes", Complex |-> "complex",
   Dict |-> "dict", Float |-> "float", FrozenSet |-> "frozenset", Int |-> "int",
   List |-> "list", Object |-> "object", Range |-> "range", Set |-> "set", Str |-> "str",
   Tuple |-> "tuple"]
NoKey == "-"

NoClasses == [bases |-> <<>>, canonical |-> <<>>]

bases_of(classes, key) == IF key \in DOMAIN classes.bases THEN classes.bases[key] ELSE <<>>
canonical_name(classes, name) ==
  IF name \in DOMAIN classes.canonical THEN classes.canonical[name] ELSE name

chain_key(classes, step) ==
  CASE step.kind = "Class" -> canonical_name(classes, step.name)
    [] step.kind \in DOMAIN BuiltinSpelling -> BuiltinSpelling[step.kind]
    [] OTHER -> NoKey

Canonical(classes, step) ==
  IF step.kind = "Class" THEN class_of(canonical_name(classes, step.name)) ELSE step

\* Depth first, left to right, every key once.
WalkedPast(classes, walk, step, key) ==
  LET seen == \E above \in ToSet(walk.chain) : chain_key(classes, above) = key
  IN IF key = NoKey \/ seen THEN [walk EXCEPT !.pending = Tail(@)]
     ELSE [chain |-> Append(walk.chain, step),
           pending |-> bases_of(classes, key) \o Tail(walk.pending)]

WalkBases(classes, root) ==
  LET walked[walk \in [chain : Seq(AllTypes), pending : Seq(AllTypes)]] ==
        IF walk.pending = <<>> THEN walk.chain
        ELSE LET step == Canonical(classes, Head(walk.pending))
             IN walked[WalkedPast(classes, walk, step, chain_key(classes, step))]
  IN walked[[chain |-> <<class_of(root)>>, pending |-> bases_of(classes, root)]]

class_ancestor_chain(classes, start) == WalkBases(classes, canonical_name(classes, start))

\* The builtin a class is or, with its type arguments, the first it inherits; none is
\* Unknown.
builtin_base_of_class(classes, name) ==
  LET spells(kind) == BuiltinSpelling[kind] = canonical_name(classes, name) /\ kind # "Object"
      builtin(step) == step.kind \notin {"Class", "Object"}
      inherited == SelectSeq(class_ancestor_chain(classes, name), builtin)
  IN IF \E kind \in DOMAIN BuiltinSpelling : spells(kind)
     THEN of(CHOOSE kind \in DOMAIN BuiltinSpelling : spells(kind))
     ELSE IF inherited = <<>> THEN Unknown ELSE inherited[1]

-----------------------------------------------------------------------------
(* Assignability.                                                          *)

is_invariant_container(kind) == kind \in {"List", "Dict", "Set", "FrozenSet"}

\* In the rules below under[<<s, t>>] answers for types that are parts of those compared.

\* Mutant of class_reaches: a builtin base is compared by kind, without the tower.
class_reaches_by_kind(under, classes, derived, target) ==
  \E i \in 2..Len(class_ancestor_chain(classes, derived)) :
    Canonical(classes, target) = class_ancestor_chain(classes, derived)[i]

class_reaches(under, classes, derived, target) ==
  \E step \in ToSet(Tail(class_ancestor_chain(classes, derived))) :
    IF step.kind = "Class"
    THEN target.kind = "Class" /\ step.name = canonical_name(classes, target.name)
    ELSE under[<<step, target>>]

\* The parameters go the other way, the result does not.
CallableStandsIn(under, source, target) ==
  /\ Len(source) = Len(target)
  /\ \A i \in DOMAIN source :
       under[IF i = Len(source) THEN <<source[i], target[i]>> ELSE <<target[i], source[i]>>]

\* One type under two spellings: the elements of an invariant container.
SameElements(under, source, target) ==
  /\ Len(source) = Len(target)
  /\ \A i \in DOMAIN source : under[<<source[i], target[i]>>] /\ under[<<target[i], source[i]>>]

NarrowerElements(under, source, target) ==
  /\ Len(source) = Len(target)
  /\ \A i \in DOMAIN source : under[<<source[i], target[i]>>]

subtype_rule(under, source, target, classes) ==
  LET ranks == <<numeric_rank(source.kind), numeric_rank(target.kind)>>
  IN IF \/ "Unknown" \in {source.kind, target.kind}
        \/ source = target \/ target.kind = "Object" THEN TRUE
     ELSE IF source.kind = "Union" THEN \A m \in ToSet(source.args) : under[<<m, target>>]
     ELSE IF target.kind = "Union" THEN \E m \in ToSet(target.args) : under[<<source, m>>]
     ELSE CASE source.kind = "Callable" ->
                 \/ target.kind = "Callable" /\ CallableStandsIn(under, source.args, target.args)
                 \/ target = class_of("type")
            [] source.kind = "Class" ->
                 \/ target.kind = "Class"
                      /\ canonical_name(classes, source.name)
                           = canonical_name(classes, target.name)
                 \/ class_reaches(under, classes, source.name, target)
            [] ranks[1] # 0 /\ ranks[2] # 0 -> ranks[1] <= ranks[2]
            [] source.kind = target.kind /\ is_invariant_container(source.kind) ->
                 SameElements(under, source.args, target.args)
            [] source.kind = target.kind /\ source.kind = "Tuple" ->
                 NarrowerElements(under, source.args, target.args)
            [] OTHER -> FALSE

Subtypes(classes) ==
  LET under[pair \in AllTypes \X AllTypes] == subtype_rule(under, pair[1], pair[2], classes)
  IN under

is_subtype(source, target, classes) ==
  subtype_rule(Subtypes(classes), source, target, classes)

is_equivalent(left, right, classes) ==
  is_subtype(left, right, classes) /\ is_subtype(right, left, classes)

-----------------------------------------------------------------------------
(* The least upper bound.                                                  *)

\* Mutant of nearest_common_base: the left side's nearest base, whether or not the right
\* side reaches it.
nearest_base(classes, left, right) ==
  IF bases_of(classes, left.name) = <<>> THEN Object ELSE bases_of(classes, left.name)[1]

nearest_common_base(classes, left, right) ==
  LET above(side, other) == SelectSeq(class_ancestor_chain(classes, side.name),
                                      LAMBDA step : is_subtype(other, step, classes))
      common == above(left, right) \o above(right, left)
  IN IF common = <<>> THEN Object ELSE common[1]

\* A structural order, for the choice between two spellings of one type.
order_rule(less, left, right) ==
  LET rank(t) == <<PositionIn(Kinds, t.kind), PositionIn(ClassNames, t.name), Len(t.args)>>
      differ == {i \in 1..3 : rank(left)[i] # rank(right)[i]}
      args == {i \in DOMAIN left.args : left.args[i] # right.args[i]}
      first(s) == CHOOSE i \in s : \A j \in s : i <= j
  IN CASE differ # {} -> rank(left)[first(differ)] < rank(right)[first(differ)]
       [] args # {} -> less[left.args[first(args)], right.args[first(args)]]
       [] OTHER -> left.defaulted_params < right.defaulted_params

type_less(left, right) ==
  LET less[s \in AllTypes, t \in AllTypes] == order_rule(less, s, t)
  IN order_rule(less, left, right)

spelling_rule(spelt, type, classes) ==
  [Canonical(classes, type) EXCEPT !.args = [i \in DOMAIN type.args |-> spelt[type.args[i]]]]

canonicalised(type, classes) ==
  LET spelt[t \in AllTypes] == spelling_rule(spelt, t, classes)
  IN spelling_rule(spelt, type, classes)

join(left, right, classes) ==
  LET ranks == <<numeric_rank(left.kind), numeric_rank(right.kind)>>
      reaches(t, other) ==
        t.kind = "Class" /\ class_reaches(Subtypes(classes), classes, t.name, other)
      spelt == <<canonicalised(left, classes), canonicalised(right, classes)>>
  IN CASE left.kind = "Unknown" \/ right.kind = "Unknown" -> Unknown
       [] is_equivalent(left, right, classes) ->
            IF type_less(spelt[2], spelt[1]) THEN spelt[2] ELSE spelt[1]
       [] left.kind = "NoneType" -> union_of(<<right, NoneType>>)
       [] right.kind = "NoneType" -> union_of(<<left, NoneType>>)
       [] ranks[1] # 0 /\ ranks[2] # 0 -> IF ranks[1] >= ranks[2] THEN left ELSE right
       [] left.kind = "Class" /\ right.kind = "Class" -> nearest_common_base(classes, left, right)
       [] reaches(left, right) -> right
       [] reaches(right, left) -> left
       [] OTHER -> Object
=============================================================================
