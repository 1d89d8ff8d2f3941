----------------------------- MODULE ClassTable -----------------------------
(***************************************************************************)
(* The table of the classes a program declares and of the builtin ones:    *)
(* bases, members, methods and the band of arguments a builtin constructor *)
(* takes, under names that aliases can send elsewhere.  A table is a       *)
(* record of three functions:                                              *)
(*   entries  the entry of a class, by its key                             *)
(*   aliases  the permanent second names of builtin classes                *)
(*   scoped   the names that stand for a class of the function being       *)
(*            checked, which outrank an entry of the same spelling         *)
(***************************************************************************)
EXTENDS Types, TLC

Unbounded == -1
NoArity == <<>>
None == <<>>

\* What the table starts from, a few rows of each shape: the bases of a builtin class and
\* the fewest and the most arguments of its constructor.
kBuiltinClasses ==
  [BaseException |-> [bases |-> <<>>, arity |-> <<0, Unbounded>>],
   Exception |-> [bases |-> <<class_of("BaseException")>>, arity |-> <<0, Unbounded>>],
   OSError |-> [bases |-> <<class_of("Exception")>>, arity |-> <<0, Unbounded>>],
   ExceptionGroup |-> [bases |-> <<class_of("Exception")>>, arity |-> <<2, 2>>],
   int |-> [bases |-> <<>>, arity |-> <<0, Unbounded>>],
   object |-> [bases |-> <<>>, arity |-> <<0, 0>>],
   property |-> [bases |-> <<>>, arity |-> <<0, 4>>],
   super |-> [bases |-> <<>>, arity |-> <<0, Unbounded>>]]
kBuiltinClassAliases == [IOError |-> "OSError"]

Entry == [bases |-> <<>>, members |-> <<>>, methods |-> <<>>, builtin_arity |-> NoArity,
          is_seeded_builtin |-> FALSE]
SeededTable ==
  [entries |-> [name \in DOMAIN kBuiltinClasses |->
                  [Entry EXCEPT !.bases = kBuiltinClasses[name].bases,
                                !.builtin_arity = kBuiltinClasses[name].arity,
                                !.is_seeded_builtin = TRUE]],
   aliases |-> kBuiltinClassAliases,
   scoped |-> <<>>]

KindSpelt(name) == {kind \in DOMAIN BuiltinSpelling : BuiltinSpelling[kind] = name}

-----------------------------------------------------------------------------
(* Names.                                                                  *)

unscoped_name(table, name) ==
  IF name \in DOMAIN table.aliases /\ name \notin DOMAIN table.entries
  THEN table.aliases[name] ELSE name

resolved(table, name) ==
  IF name \in DOMAIN table.scoped THEN table.scoped[name] ELSE unscoped_name(table, name)

is_class(table, name) == resolved(table, name) \in DOMAIN table.entries

\* The view of the table that assignability takes.
Lookup(table) ==
  [bases |-> [key \in DOMAIN table.entries |-> table.entries[key].bases],
   canonical |-> [name \in DOMAIN table.scoped \union DOMAIN table.aliases |->
                    resolved(table, name)]]

\* What a scope-limited name hides, if it hides anything.
shadowed_name(table, name) ==
  IF /\ name \in DOMAIN table.scoped
     /\ unscoped_name(table, name) \in DOMAIN table.entries
  THEN <<unscoped_name(table, name)>> ELSE None

declare_scoped_alias(table, alias, target) ==
  [table EXCEPT !.scoped = (alias :> target) @@ table.scoped]
remove_scoped_alias(table, alias) ==
  [table EXCEPT !.scoped = [name \in DOMAIN table.scoped \ {alias} |-> table.scoped[name]]]

\* Mutant of restore_scoped_alias: what the name stood for is not put back.
erase_scoped_alias(table, alias, previous) == remove_scoped_alias(table, alias)

\* What a name stood for before, and the table with that restored.
scoped_target(table, alias) ==
  IF alias \in DOMAIN table.scoped THEN <<table.scoped[alias]>> ELSE None
restore_scoped_alias(table, alias, previous) ==
  IF previous = None THEN remove_scoped_alias(table, alias)
  ELSE declare_scoped_alias(table, alias, previous[1])

-----------------------------------------------------------------------------
(* Declarations.                                                           *)

\* A class statement takes over a builtin's entry whole.
declare(table, key, bases) ==
  [table EXCEPT !.entries = (key :> [Entry EXCEPT !.bases = bases]) @@ table.entries]

declare_member(table, key, member, type, line) ==
  IF key \notin DOMAIN table.entries THEN table
  ELSE [table EXCEPT !.entries[key].members =
          (member :> [type |-> type, declared_line |-> line]) @@ table.entries[key].members]

declare_method(table, key, method, signature) ==
  IF key \notin DOMAIN table.entries THEN table
  ELSE [table EXCEPT !.entries[key].methods = (method :> signature) @@ table.entries[key].methods]

-----------------------------------------------------------------------------
(* Questions to a class and its bases.                                     *)

base_key(base) ==
  IF base.kind = "Class" THEN <<base.name>>
  ELSE IF base.kind \in DOMAIN BuiltinSpelling THEN <<BuiltinSpelling[base.kind]>> ELSE None

\* The names of a class's bases, and the keys they stand for.
base_names(table, key) ==
  FlattenSeq([i \in DOMAIN table.entries[key].bases |-> base_key(table.entries[key].bases[i])])
base_keys(table, key) ==
  [i \in DOMAIN base_names(table, key) |-> resolved(table, base_names(table, key)[i])]

\* The classes a walk visits: depth first, left to right, none twice.
RECURSIVE Walk(_, _, _)
Walk(table, visited, pending) ==
  IF pending = <<>> THEN visited
  ELSE LET key == Head(pending)
       IN IF key \notin DOMAIN table.entries \/ Contains(visited, key)
          THEN Walk(table, visited, Tail(pending))
          ELSE Walk(table, Append(visited, key), base_keys(table, key) \o Tail(pending))

\* The first answer of a class of a chain, as a sequence of at most one.
FirstAnswer(chain, Extract(_)) ==
  LET answering == SelectSeq(chain, LAMBDA key : Extract(key) # None)
  IN IF answering = <<>> THEN None ELSE Extract(answering[1])

walk_chain(table, name, Extract(_)) ==
  FirstAnswer(Walk(table, <<>>, <<resolved(table, name)>>), Extract)

\* The members of a class of the function being checked are missed where the name meant
\* the class it hides: that one is asked as well.
query_chain(table, name, Extract(_)) ==
  LET found == walk_chain(table, name, Extract)
      shadowed == shadowed_name(table, name)
  IN IF found # None \/ shadowed = None THEN found
     ELSE FirstAnswer(Walk(table, <<>>, shadowed), Extract)

own_member(table, key, member) ==
  IF key \in DOMAIN table.entries /\ member \in DOMAIN table.entries[key].members
  THEN <<table.entries[key].members[member]>> ELSE None
own_method(table, key, method) ==
  IF key \in DOMAIN table.entries /\ method \in DOMAIN table.entries[key].methods
  THEN <<table.entries[key].methods[method]>> ELSE None

\* The type of a member and the line that declared it.
member_of(table, name, member) ==
  LET declared(key) == own_member(table, key, member) IN query_chain(table, name, declared)
method_type(table, name, method) ==
  LET declared(key) == own_method(table, key, method) IN query_chain(table, name, declared)

\* Mutant of inherited_member: the class's own declaration, where it has one.
member_with_own(table, key, member) == member_of(table, key, member)

\* Past the class itself: none of its spellings is visited again.
inherited_member(table, key, member) ==
  LET roots == <<key, resolved(table, key)>>
      declared(k) == own_member(table, k, member)
      past(chain) == SubSeq(chain, 3, Len(chain))
      chains(base) == past(Walk(table, roots, <<resolved(table, base)>>))
                      \o past(Walk(table, roots, shadowed_name(table, base)))
      bases == IF key \in DOMAIN table.entries THEN base_names(table, key) ELSE None
  IN FirstAnswer(FlattenSeq([i \in DOMAIN bases |-> chains(bases[i])]), declared)

\* An attribute of an instance: the members of the whole chain before its methods.
type_of_class_attribute(table, name, attribute) ==
  LET member == member_of(table, name, attribute)
  IN IF member # None THEN <<member[1].type>> ELSE method_type(table, name, attribute)

-----------------------------------------------------------------------------
(* Constructors.                                                           *)

\* Mutant of find_builtin_arity: the band of the class itself only.
own_builtin_arity(table, root) ==
  IF root \in DOMAIN table.entries THEN table.entries[root].builtin_arity ELSE NoArity

find_builtin_arity(table, root) ==
  LET band(key) == IF key = "object" /\ key # root THEN NoArity
                   ELSE table.entries[key].builtin_arity
  IN walk_chain(table, root, band)

declared_constructor(table, root, name) ==
  LET declared(key) == own_method(table, key, name) IN walk_chain(table, root, declared)

\* The fewest and the most arguments of the constructor's signature.
constructor_type(table, name) ==
  LET root == resolved(table, name)
      init == declared_constructor(table, root, "__init__")
      band == find_builtin_arity(table, root)
      params == Len(init[1].args) - 2
  IN IF init # None THEN <<params - init[1].defaulted_params, params>>
     ELSE IF band # NoArity /\ band[2] # Unbounded THEN band ELSE <<0, 0>>

\* What settles how a constructor call is checked, the first class that does.
Reached(table, root) ==
  LET settles(key) ==
        IF own_method(table, key, "__init__") # None THEN <<"DeclaredInit">>
        ELSE IF key = "BaseException" THEN <<"BaseExceptionBase">>
        ELSE IF key # "object" /\ KindSpelt(key) # {} THEN <<"BuiltinKindBase">> ELSE None
  IN walk_chain(table, root, settles)

constructor_check(table, name) ==
  LET root == resolved(table, name)
      reached == Reached(table, root)
      band == find_builtin_arity(table, root)
      has_bounded_arity == band # NoArity /\ band[2] # Unbounded
      has_unbounded_arity == band # NoArity /\ band[2] = Unbounded
  IN IF reached = <<"DeclaredInit">> THEN "Checked"
     ELSE IF reached = <<"BuiltinKindBase">> THEN "Unmodellable"
     ELSE IF declared_constructor(table, root, "__new__") # None THEN "Unchecked"
     ELSE IF (reached = None /\ ~has_unbounded_arity) \/ has_bounded_arity THEN "Checked"
     ELSE "Unchecked"
=============================================================================
