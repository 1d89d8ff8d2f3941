----------------------------- MODULE ClassBodies -----------------------------
(***************************************************************************)
(* What the type checker declares for the classes of a program.            *)
(*                                                                         *)
(* The program is a sequence of lines; "class" and "def" open a block that *)
(* "end" closes.  Every class of the module is declared, then the body of  *)
(* every one is read for its members, and only then are the lines checked  *)
(* in their order; a class of a function is declared and read when its     *)
(* line is checked.                                                        *)
(*                                                                         *)
(* The class statement of a class body, tuple targets, parametric bases,   *)
(* conditional statements and parameters that rebind self are not          *)
(* modelled, nor are None and empty containers as class attributes.        *)
(***************************************************************************)
EXTENDS ClassTable

\* The programs of an instance.
CONSTANT Programs

VARIABLES
  text,        \* the lines of the program
  collected,   \* how many of its lines collect_classes has walked
  read,        \* pre_collected_: the classes, by line, whose bodies were read for members
  pc,          \* the line to check next
  classes_,    \* the class table
  scopes_,     \* the open blocks, innermost last
  reports,     \* the errors
  stored       \* the stores into attributes of self or of a class body that were checked

vars == <<text, collected, read, pc, classes_, scopes_, reports, stored>>

-----------------------------------------------------------------------------
(* The blocks of a program.                                                *)

Lines == 1..Len(text)
Opens(i) == text[i].op \in {"class", "def"}

\* The blocks open at a line, innermost last, by the line that opens them.
Enclosing ==
  LET open[i \in 0..Len(text)] ==
        IF i = 0 THEN <<>>
        ELSE IF Opens(i) THEN Append(open[i - 1], i)
        ELSE IF text[i].op = "end" THEN Front(open[i - 1]) ELSE open[i - 1]
  IN [i \in 1..(Len(text) + 1) |-> open[i - 1]]

\* The line that opens the block a line stands in, 0 for the module.
Owner(i) == IF Enclosing[i] = <<>> THEN 0 ELSE Last(Enclosing[i])
KindOf(block) == IF block = 0 THEN "module" ELSE text[block].op
Body(block, op) == SelectSeq([i \in Lines |-> i], LAMBDA i : Owner(i) = block /\ text[i].op = op)
Classes == {i \in Lines : text[i].op = "class"}

\* The earlier definition of the same name in the module, which the module keeps.
collided_top_level(i) ==
  \E j \in Lines : j < i /\ Opens(j) /\ Owner(j) = 0 /\ text[j].name = text[i].name

isolated(i) == Owner(i) # 0 \/ collided_top_level(i)
\* No two lines isolate a class under one key.
qualified_name(i) == IF isolated(i) THEN text[i].name \o "#" \o ToString(i) ELSE text[i].name

\* The class a statement on self stores into.
Receiver(i) == qualified_name(Owner(Owner(i)))

-----------------------------------------------------------------------------
(* Reading a class body ahead of its check.                                *)

resolve_base(table, base) ==
  IF KindSpelt(base) # {} THEN of(CHOOSE kind \in KindSpelt(base) : TRUE)
  ELSE IF is_class(table, base) THEN class_of(resolved(table, base)) ELSE Unknown
base_types(table, i) ==
  [b \in DOMAIN text[i].bases |-> resolve_base(table, text[i].bases[b])]
UnknownBases(table, i) == {b \in ToSet(text[i].bases) : resolve_base(table, b) = Unknown}

\* self, the parameters, the result.
method_signature(key, i) ==
  callable(<<class_of(key)>> \o [p \in 1..text[i].params |-> of("Int")], text[i].type, 0)

has_member(table, key, name) == member_of(table, key, name) # None
has_own(table, key, name) == own_member(table, key, name) # None
has_method(table, key, name) == method_type(table, key, name) # None

read_annotation(table, key, i) ==
  IF has_own(table, key, text[i].name) \/ has_method(table, key, text[i].name) THEN table
  ELSE declare_member(table, key, text[i].name, text[i].type, i)

\* An annotation declares the member of its own class; an assignment, a member whose type
\* is not known yet, and only where no base has one.
declare_self_attribute_placeholder(table, key, i) ==
  LET annotated == text[i].op = "selfann"
      already_declared == IF annotated THEN has_own(table, key, text[i].name)
                          ELSE has_member(table, key, text[i].name)
  IN IF has_method(table, key, text[i].name) \/ already_declared THEN table
     ELSE declare_member(table, key, text[i].name, IF annotated THEN text[i].type ELSE Unknown, i)

read_assignment(table, key, i) ==
  IF has_member(table, key, text[i].name) \/ has_method(table, key, text[i].name) THEN table
  ELSE declare_member(table, key, text[i].name, Unknown, i)

read_member(table, key, i) ==
  CASE text[i].op = "def" -> declare_method(table, key, text[i].name, method_signature(key, i))
    [] text[i].op = "assign" -> read_assignment(table, key, i)
    [] text[i].op \in {"selfann", "selfassign"} -> declare_self_attribute_placeholder(table, key, i)
    [] OTHER -> table

\* The annotations of the body first, then its methods, with what they store in self, and
\* its assignments.
pre_collect_class_body(table, key, i) ==
  LET annotated == FoldLeft(LAMBDA t, j : read_annotation(t, key, j), table, Body(i, "ann"))
      inside(j) == \/ Owner(j) = i
                   \/ Owner(j) # 0 /\ Owner(Owner(j)) = i /\ ~Opens(j)
      members == SelectSeq([j \in Lines |-> j], inside)
  IN FoldLeft(LAMBDA t, j : read_member(t, key, j), annotated, members)

-----------------------------------------------------------------------------
(* Checking a line.                                                        *)

Compatible(value, target, table) == is_subtype(value, target, Lookup(table))

Frame(kind, key) == [kind |-> kind, key |-> key, bound |-> <<>>, aliases |-> <<>>]
Bind(scopes, name, type) ==
  [scopes EXCEPT ![Len(scopes)].bound = (name :> type) @@ scopes[Len(scopes)].bound]
Bound(name) == name \in DOMAIN Last(scopes_).bound

Report(kind, i) == [kind |-> kind, line |-> i]
Stores(i) == {[key |-> IF text[i].op \in {"ann", "assign"} THEN Last(scopes_).key ELSE Receiver(i),
               name |-> text[i].name, type |-> text[i].type, line |-> i]}

\* The name an outer function gave the class comes back when the function is left.
LocalAliases(table, aliases) ==
  FoldRight(LAMBDA alias, t : restore_scoped_alias(t, alias[1], alias[2]), aliases, table)

check_class(i) ==
  LET key == qualified_name(i)
      declared == declare(classes_, key, base_types(classes_, i))
      aliased == IF KindOf(Owner(i)) = "def" THEN declare_scoped_alias(declared, text[i].name, key)
                 ELSE declared
      previous == scoped_target(classes_, text[i].name)
      outer == IF KindOf(Owner(i)) = "def"
               THEN [scopes_ EXCEPT ![Len(scopes_)].aliases =
                       Append(@, <<text[i].name, previous>>)]
               ELSE scopes_
  IN /\ scopes_' = Append(outer, Frame("class", key))
     /\ IF isolated(i)
        THEN /\ classes_' = pre_collect_class_body(aliased, key, i)
             /\ read' = read \union {i}
             /\ reports' = reports \union {Report("NameError", i) : b \in UnknownBases(classes_, i)}
        ELSE UNCHANGED <<classes_, read, reports>>
     /\ UNCHANGED stored

check_def(i) ==
  LET key == Last(scopes_).key
  IN /\ scopes_' = Append(scopes_, Frame("def", ""))
     /\ classes_' = IF Last(scopes_).kind = "class"
                    THEN declare_method(classes_, key, text[i].name, method_signature(key, i))
                    ELSE classes_
     /\ UNCHANGED <<read, reports, stored>>

check_end(i) ==
  /\ scopes_' = Front(scopes_)
  /\ classes_' = LocalAliases(classes_, Last(scopes_).aliases)
  /\ UNCHANGED <<read, reports, stored>>

\* name: type = value in a class body.
check_annotation(i) ==
  LET key == Last(scopes_).key
      name == text[i].name
      type == text[i].type
      inherited == inherited_member(classes_, key, name)
      own == own_member(classes_, key, name)
      another == own # None /\ own[1].declared_line # i
      compared == IF another THEN <<own[1].type, type>>
                  ELSE IF inherited # None THEN <<type, inherited[1].type>> ELSE <<type, type>>
      ignored == ~another /\ inherited = None /\ has_method(classes_, key, name)
      wrong == Bound(name) \/ ~Compatible(compared[1], compared[2], classes_)
  IN /\ reports' = reports \union {Report("TypeError", i) : w \in {TRUE} \intersect {wrong}}
     /\ scopes_' = IF Bound(name) THEN scopes_ ELSE Bind(scopes_, name, type)
     /\ classes_' = IF Bound(name) \/ ignored THEN classes_
                    ELSE declare_member(classes_, key, name, type, i)
     /\ stored' = stored \union Stores(i)
     /\ UNCHANGED read

\* Mutant of compare_own: the value is checked against the type the attribute had.
compare_own_as_inherited(own, type) == <<type, own>>

\* The body's own assignment is the declaration, what a method stored is checked against it.
compare_own(own, type) == <<own, type>>

\* name = value in a class body; the second of one name is an ordinary assignment.
check_assignment(i) ==
  LET key == Last(scopes_).key
      name == text[i].name
      type == text[i].type
      existing == member_of(classes_, key, name)
      own == own_member(classes_, key, name)
      placeholder == existing = None \/ (own # None /\ existing[1].declared_line = i)
      compared == IF Bound(name) THEN <<type, Last(scopes_).bound[name]>>
                  ELSE IF has_method(classes_, key, name) \/ placeholder THEN <<type, type>>
                  ELSE IF own # None THEN compare_own(own[1].type, type)
                  ELSE <<type, existing[1].type>>
      wrong == ~Compatible(compared[1], compared[2], classes_)
  IN /\ reports' = reports \union {Report("TypeError", i) : w \in {TRUE} \intersect {wrong}}
     /\ scopes_' = IF Bound(name) THEN scopes_ ELSE Bind(scopes_, name, type)
     /\ classes_' = IF Bound(name) \/ has_method(classes_, key, name) THEN classes_
                    ELSE declare_member(classes_, key, name, type, i)
     /\ stored' = stored \union Stores(i)
     /\ UNCHANGED read

self_member_state(table, key, name, i) ==
  LET existing == member_of(table, key, name)
  IN IF has_method(table, key, name) THEN "ExistingDeclaration"
     ELSE IF existing = None THEN "BrandNew"
     ELSE IF existing[1].declared_line = i THEN "OwnPlaceholder" ELSE "ExistingDeclaration"

\* self.name = value in a method.
check_self_assignment(i) ==
  LET key == Receiver(i)
      state == self_member_state(classes_, key, text[i].name, i)
      wrong == /\ state = "ExistingDeclaration"
               /\ ~Compatible(text[i].type,
                              type_of_class_attribute(classes_, key, text[i].name)[1], classes_)
  IN /\ reports' = reports \union {Report("TypeError", i) : w \in {TRUE} \intersect {wrong}}
     /\ classes_' = IF state = "ExistingDeclaration" THEN classes_
                    ELSE declare_member(classes_, key, text[i].name, text[i].type, i)
     /\ stored' = stored \union Stores(i)
     /\ UNCHANGED <<scopes_, read>>

\* self.name: type = value in a method: an earlier declaration of the class stays, one of a
\* base is compared and replaced.
check_self_annotation(i) ==
  LET key == Receiver(i)
      name == text[i].name
      type == text[i].type
      state == self_member_state(classes_, key, name, i)
      existing == IF state = "ExistingDeclaration" THEN member_of(classes_, key, name) ELSE None
      own == own_member(classes_, key, name)
      keep == existing # None /\ own # None /\ own[1].type # Unknown
      method_name_collision == state = "ExistingDeclaration" /\ existing = None
      inherited == inherited_member(classes_, key, name)
      compared == IF keep THEN <<type, own[1].type>>
                  ELSE IF existing # None THEN <<type, existing[1].type>>
                  ELSE IF ~method_name_collision /\ inherited # None
                  THEN <<type, inherited[1].type>> ELSE <<type, type>>
      wrong == ~Compatible(compared[1], compared[2], classes_)
  IN /\ reports' = reports \union {Report("TypeError", i) : w \in {TRUE} \intersect {wrong}}
     /\ classes_' = IF method_name_collision \/ keep THEN classes_
                    ELSE declare_member(classes_, key, name, type, i)
     /\ stored' = stored \union Stores(i)
     /\ UNCHANGED <<scopes_, read>>

-----------------------------------------------------------------------------
(* The passes over the module.                                             *)

Init ==
  /\ text \in Programs
  /\ collected = 0
  /\ read = {}
  /\ pc = 1
  /\ classes_ = SeededTable
  /\ scopes_ = <<Frame("module", "")>>
  /\ reports = {}
  /\ stored = {}

ToCollect == {i \in Classes : Owner(i) = 0 /\ i > collected}
ToRead == {i \in Classes : ~isolated(i)} \ read
First(lines) == CHOOSE i \in lines : \A j \in lines : i <= j

\* The second class of a name in the module is reported, and isolated when it is checked.
collect_classes ==
  /\ ToCollect # {}
  /\ LET i == First(ToCollect)
         collides == collided_top_level(i)
     IN /\ collected' = i
        /\ classes_' = IF collides THEN classes_
                       ELSE declare(classes_, text[i].name, base_types(classes_, i))
        /\ reports' = reports \union
             IF collides THEN {Report("Redefinition", i)}
             ELSE {Report("NameError", i) : b \in UnknownBases(classes_, i)}
  /\ UNCHANGED <<text, read, pc, scopes_, stored>>

read_class_bodies ==
  /\ ToCollect = {} /\ ToRead # {}
  /\ LET i == First(ToRead)
     IN /\ read' = read \union {i}
        /\ classes_' = pre_collect_class_body(classes_, text[i].name, i)
  /\ UNCHANGED <<text, collected, pc, scopes_, reports, stored>>

check_line(op, Check(_)) ==
  /\ ToCollect = {} /\ ToRead = {}
  /\ pc \in Lines /\ text[pc].op = op
  /\ Check(pc)
  /\ pc' = pc + 1
  /\ UNCHANGED <<text, collected>>

Next ==
  \/ collect_classes
  \/ read_class_bodies
  \/ check_line("class", check_class)
  \/ check_line("def", check_def)
  \/ check_line("end", check_end)
  \/ check_line("ann", check_annotation)
  \/ check_line("assign", check_assignment)
  \/ check_line("selfassign", check_self_assignment)
  \/ check_line("selfann", check_self_annotation)

Spec == Init /\ [][Next]_vars

-----------------------------------------------------------------------------
(* Python's classes.                                                       *)

\* Where the heads of some sequences are all that keeps an element from being next.
RECURSIVE Merge(_)
Merge(seqs) ==
  LET left == SelectSeq(seqs, LAMBDA s : s # <<>>)
      free(i) == \A j \in DOMAIN left : Head(left[i]) \notin ToSet(Tail(left[j]))
      next == Head(left[First({i \in DOMAIN left : free(i)})])
      rest == [i \in DOMAIN left |-> IF Head(left[i]) = next THEN Tail(left[i]) ELSE left[i]]
  IN IF left = <<>> THEN <<>>
     ELSE IF ~\E i \in DOMAIN left : free(i) THEN <<"no order">>
     ELSE <<next>> \o Merge(rest)

\* The order in which Python asks the classes for an attribute.
RECURSIVE mro(_, _)
mro(table, key) ==
  LET bases == IF base_keys(table, key) = <<>> /\ key # "object" THEN <<"object">>
               ELSE base_keys(table, key)
  IN <<key>> \o Merge([i \in DOMAIN bases |-> mro(table, bases[i])] \o <<bases>>)

HasOrder(table, key) == ~Contains(mro(table, key), "no order")

\* The least and the most arguments __new__ and __init__ of a class take, object's own being
\* left to the one that is declared.
BandIn(table, order, name) ==
  LET declares(key) == \/ own_method(table, key, name) # None
                       \/ table.entries[key].is_seeded_builtin /\ key # "object"
      first == SelectSeq(order, declares)
      params == Len(own_method(table, first[1], name)[1].args) - 2
  IN IF first = <<>> THEN NoArity
     ELSE IF own_method(table, first[1], name) # None THEN <<params, params>>
     ELSE table.entries[first[1]].builtin_arity

TakenBy(band, n) == band[1] <= n /\ (band[2] = Unbounded \/ n <= band[2])

PythonTakes(table, key, n) ==
  LET bands == {BandIn(table, mro(table, key), name) : name \in {"__new__", "__init__"}}
  IN IF bands = {NoArity} THEN n = 0
     ELSE \A band \in bands \ {NoArity} : TakenBy(band, n)

-----------------------------------------------------------------------------
(* Properties.                                                             *)

Accepted == pc = Len(text) + 1 /\ reports = {}
UserClasses == {qualified_name(i) : i \in Classes}
Attributes(table, key) ==
  UNION {DOMAIN table.entries[k].members \union DOMAIN table.entries[k].methods
           : k \in ToSet(Walk(table, <<>>, <<key>>))}

\* While a function is checked, a name means the class that the innermost function around has
\* given that name, and a class of the module again once the function is left: no local class
\* outlives its function, hides another's, or is left hidden by an inner one
\* (LocalClassAliasGuard, declare_scoped_alias).
ExpectedClass(name) ==
  LET local(i) == /\ text[i].name = name
                  /\ Owner(i) \in ToSet(Enclosing[pc]) /\ KindOf(Owner(i)) = "def"
      locals == {i \in Classes : i < pc /\ local(i)}
      innermost == {i \in locals : \A j \in locals : Owner(j) <= Owner(i)}
  IN IF locals = {} THEN name ELSE qualified_name(First({i \in innermost : \A j \in innermost : j <= i}))

NamesFollowScopes ==
  pc > 1 => \A i \in Classes : resolved(classes_, text[i].name) = ExpectedClass(text[i].name)

\* What a class with one base inherits.
Inherited(key, name) ==
  IF Len(base_keys(classes_, key)) = 1 THEN member_of(classes_, base_keys(classes_, key)[1], name)
  ELSE None

\* An attribute of a base that a class body assigns and a method annotates, or stores above:
\* the assignment is compared with the one or with the other, not with both.
AssignedAndStored(key, name) ==
  /\ Inherited(key, name) # None
  /\ \E s, t \in {u \in stored : u.key = key /\ u.name = name} :
       /\ text[s.line].op = "assign"
       /\ \/ text[t.line].op = "selfann"
          \/ text[t.line].op = "selfassign" /\ t.line < s.line

\* In a program that is accepted, the type an attribute of a class is read with admits what
\* the body and the methods of the class store there, in whichever order they stand, except
\* an attribute of a base that the body assigns and a method stores (pre_collect_class_body, assign_to,
\* assign_attribute, visit(AnnAssign)).
AttributesAdmitEveryStore ==
  Accepted =>
    \A store \in stored :
      LET member == member_of(classes_, store.key, store.name)
      IN \/ has_method(classes_, store.key, store.name)
         \/ AssignedAndStored(store.key, store.name)
         \/ member # None /\ Compatible(store.type, member[1].type, classes_)

\* In a program that is accepted, an attribute of a class with one base can stand in for that
\* of its base, with the same exception and where no method shares its name: what is read
\* through the base is of the type the base gives it (inherited_member_type).
OverridesNarrow ==
  Accepted =>
    \A key \in UserClasses :
      \A name \in Attributes(classes_, key) :
        LET own == member_of(classes_, key, name)
            inherited == Inherited(key, name)
        IN \/ own = None \/ inherited = None \/ has_method(classes_, key, name)
           \/ AssignedAndStored(key, name)
           \/ Compatible(own[1].type, inherited[1].type, classes_)

\* A builtin class that Python's order puts before the class whose __init__ the lookup finds.
BuiltinStandsFirst(key) ==
  LET order == mro(classes_, key)
      declares(k) == own_method(classes_, k, "__init__") # None
      seeded(i) == classes_.entries[order[i]].is_seeded_builtin
  IN \E i, j \in DOMAIN order : i < j /\ seeded(i) /\ declares(order[j])

\* No constructor call that Python takes is turned away for its number of arguments, unless a
\* builtin class stands before the class whose __init__ is checked (constructor_check,
\* constructor_type, find_builtin_arity).
ConstructorTurnsAwayNoPythonCall ==
  Accepted =>
    \A key \in UserClasses, n \in 0..3 :
      /\ HasOrder(classes_, key)
      /\ constructor_check(classes_, key) = "Checked"
      /\ ~TakenBy(constructor_type(classes_, key), n)
      => BuiltinStandsFirst(key) \/ ~PythonTakes(classes_, key, n)
=============================================================================
