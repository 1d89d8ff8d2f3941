-------------------------- MODULE EmitterFlowProofs --------------------------
(***************************************************************************)
(* The C++ written for a body runs as the body does in Python, whatever    *)
(* the body: proofs of the properties of EmitterFlow.                      *)
(***************************************************************************)
EXTENDS EmitterFlow, PyProgramProofs, SequenceTheorems

-----------------------------------------------------------------------------
(* The walk of check_definite_assignment: it is a fixpoint, and comes to a *)
(* verdict and a set of names.                                             *)

Walks == [ok : BOOLEAN, leaves : BOOLEAN, bound : SUBSET Names]

WalkFrom(w, n) ==
  [bound \in SUBSET Names |->
     LET first == check_statement(w, n, bound)
         rest == Later(tree, n)
     IN IF first.leaves \/ ~first.ok \/ rest = {} THEN first
        ELSE w[FirstOf(rest)][first.bound]]

\* What follows a statement in its suite, and what is inside it, has a greater number.
LEMMA Onward ==
  ASSUME TreeOK, NEW n \in Nodes
  PROVE  /\ \A a : Suite(tree, n, a) # {} =>
              LET c == FirstOf(Suite(tree, n, a))
              IN c \in Nodes /\ n < c /\ tree[c].up = n /\ tree[c].arm = a
         /\ Later(tree, n) # {} =>
              LET c == FirstOf(Later(tree, n))
              IN /\ c \in Nodes /\ n < c
                 /\ tree[c].up = tree[n].up /\ tree[c].arm = tree[n].arm
<1>1. n \in Nat /\ Nodes \subseteq Nat
  BY NodesAre
<1>2. ASSUME NEW a, Suite(tree, n, a) # {}
      PROVE  LET c == FirstOf(Suite(tree, n, a))
             IN c \in Nodes /\ n < c /\ tree[c].up = n /\ tree[c].arm = a
  <2> DEFINE c == FirstOf(Suite(tree, n, a))
  <2>1. c \in Nodes /\ tree[c].up = n /\ tree[c].arm = a
    BY <1>2, FirstOfSuite
  <2>2. Placed(c)
    BY <2>1 DEF TreeOK
  <2>3. n < c
    <3> HIDE DEF c
    <3>1. c \in Nat
      BY <1>1, <2>1
    <3>2. QED
      BY <1>1, <2>1, <2>2, <3>1 DEF Placed
  <2>4. QED
    BY <2>1, <2>3
<1>3. ASSUME Later(tree, n) # {}
      PROVE  LET c == FirstOf(Later(tree, n))
             IN /\ c \in Nodes /\ n < c
                /\ tree[c].up = tree[n].up /\ tree[c].arm = tree[n].arm
  <2>1. Later(tree, n) \in SUBSET Nat
    BY <1>1 DEF Later, Suite, Nodes
  <2>2. FirstOf(Later(tree, n)) \in Later(tree, n)
    BY <1>3, <2>1, LeastOf
  <2>3. QED
    BY <2>2 DEF Later, Suite, Nodes
<1>4. QED
  BY <1>2, <1>3

\* The walk from a statement looks only at statements after it.
LEMMA WalksAgree ==
  ASSUME TreeOK, NEW n \in Nodes, NEW g, NEW h,
         \A m \in Nodes : n < m => g[m] = h[m]
  PROVE  /\ \A bound : check_statement(g, n, bound) = check_statement(h, n, bound)
         /\ WalkFrom(g, n) = WalkFrom(h, n)
<1>1. \A a, bound : check_suite(g, n, a, bound) = check_suite(h, n, a, bound)
  BY Onward DEF check_suite
<1>2. ASSUME NEW bound
      PROVE  check_statement(g, n, bound) = check_statement(h, n, bound)
  BY <1>1 DEF check_statement
<1>3. ASSUME NEW bound
      PROVE  LET first == check_statement(g, n, bound)
                 rest == Later(tree, n)
             IN rest # {} => g[FirstOf(rest)][first.bound] = h[FirstOf(rest)][first.bound]
  BY Onward
<1>4. WalkFrom(g, n) = WalkFrom(h, n)
  <2> DEFINE G(bound) == LET first == check_statement(g, n, bound)
                             rest == Later(tree, n)
                         IN IF first.leaves \/ ~first.ok \/ rest = {} THEN first
                            ELSE g[FirstOf(rest)][first.bound]
             H(bound) == LET first == check_statement(h, n, bound)
                             rest == Later(tree, n)
                         IN IF first.leaves \/ ~first.ok \/ rest = {} THEN first
                            ELSE h[FirstOf(rest)][first.bound]
  <2>1. \A bound \in SUBSET Names : G(bound) = H(bound)
    BY <1>2, <1>3
  <2>2. /\ WalkFrom(g, n) = [bound \in SUBSET Names |-> G(bound)]
        /\ WalkFrom(h, n) = [bound \in SUBSET Names |-> H(bound)]
    BY DEF WalkFrom
  <2> HIDE DEF G, H
  <2>3. QED
    BY <2>1, <2>2
<1>5. QED
  BY <1>2, <1>4

\* So there is a function that walks every statement: built from the last one back.
LEMMA WalkExists ==
  ASSUME TreeOK
  PROVE  \E g : g = [n \in Nodes |-> WalkFrom(g, n)]
<1> DEFINE N == Len(tree)
           Up(k) == \E g : g = [n \in k..N |-> WalkFrom(g, n)]
           T == {k \in 1..N + 1 : Up(k)}
<1>1. N \in Nat /\ Nodes = 1..N
  BY NodesAre
<1>2. N + 1 \in T
  <2>1. \A g : [n \in N + 1..N |-> WalkFrom(g, n)] = [n \in {} |-> {}]
    BY <1>1
  <2>2. Up(N + 1)
    BY <2>1
  <2>3. QED
    BY <1>1, <2>2
<1>3. ASSUME NEW k \in 1..N + 1, k # N + 1, k + 1 \in T
      PROVE  k \in T
  <2>1. PICK g : g = [n \in k + 1..N |-> WalkFrom(g, n)]
    BY <1>3
  <2> DEFINE h == [n \in k..N |-> IF n = k THEN WalkFrom(g, k) ELSE g[n]]
  <2>2. \A n \in k + 1..N : h[n] = g[n]
    BY <1>1
  <2>3. ASSUME NEW n \in k..N PROVE h[n] = WalkFrom(h, n)
    <3>1. n \in Nodes /\ \A m \in Nodes : n < m => h[m] = g[m]
      BY <1>1, <2>2
    <3> HIDE DEF h
    <3>2. WalkFrom(h, n) = WalkFrom(g, n)
      BY <3>1, WalksAgree
    <3>3. CASE n = k
      BY <3>2, <3>3 DEF h
    <3>4. CASE n # k
      <4>1. n \in k + 1..N
        BY <1>1, <3>4
      <4>2. g[n] = WalkFrom(g, n)
        BY <2>1, <4>1
      <4>3. QED
        BY <2>2, <3>2, <4>1, <4>2
    <3>5. QED
      BY <3>3, <3>4
  <2>4. h = [n \in k..N |-> h[n]]
    OBVIOUS
  <2> HIDE DEF h
  <2>5. h = [n \in k..N |-> WalkFrom(h, n)]
    BY <2>3, <2>4
  <2>6. QED
    BY <2>5
<1> HIDE DEF T
<1>4. \A k \in 1..N + 1 : k \in T
  <2>1. N + 1 \in Nat
    BY <1>1
  <2>2. QED
    BY <1>2, <1>3, <2>1, Downward
<1>5. 1 \in T
  BY <1>1, <1>4
<1>6. QED
  BY <1>1, <1>5 DEF T

\* walk is such a function: what is known from a statement on, one step unfolded.
LEMMA WalkIs ==
  ASSUME TreeOK
  PROVE  \A n \in Nodes, b \in SUBSET Names :
           LET first == check_statement(walk, n, b)
               rest == Later(tree, n)
           IN walk[n][b] = IF first.leaves \/ ~first.ok \/ rest = {} THEN first
                           ELSE walk[FirstOf(rest)][first.bound]
<1>1. walk = CHOOSE g : g = [n \in Nodes |-> WalkFrom(g, n)]
  BY DEF walk, WalkFrom
<1>2. walk = [n \in Nodes |-> WalkFrom(walk, n)]
  BY <1>1, WalkExists
<1>3. \A n \in Nodes : walk[n] = WalkFrom(walk, n)
  BY <1>2
<1>4. ASSUME NEW n \in Nodes, NEW b \in SUBSET Names
      PROVE  LET first == check_statement(walk, n, b)
                 rest == Later(tree, n)
             IN walk[n][b] = IF first.leaves \/ ~first.ok \/ rest = {} THEN first
                             ELSE walk[FirstOf(rest)][first.bound]
  <2> DEFINE G(bound) == LET first == check_statement(walk, n, bound)
                             rest == Later(tree, n)
                         IN IF first.leaves \/ ~first.ok \/ rest = {} THEN first
                            ELSE walk[FirstOf(rest)][first.bound]
  <2>1. walk[n] = [bound \in SUBSET Names |-> G(bound)]
    BY <1>3 DEF WalkFrom
  <2> HIDE DEF G
  <2>2. walk[n][b] = G(b)
    BY <2>1
  <2>3. QED
    BY <2>2 DEF G
<1>5. QED
  BY <1>4

\* check_statement, kind by kind.
LEMMA StatementWalks ==
  ASSUME NEW n, NEW b
  PROVE  LET body == check_suite(walk, n, "body", b)
             orelse == check_suite(walk, n, "orelse", b)
             tested == ReadOk(GuardName(n), b)
             first == check_statement(walk, n, b)
         IN /\ tree[n].kind = "Expr" => first = Walked(ReadOk(tree[n].name, b), FALSE, b)
            /\ tree[n].kind = "Assign" => first = Walked(TRUE, FALSE, b \union {tree[n].name})
            /\ tree[n].kind = "Update" => first = Walked(ReadOk(tree[n].name, b), FALSE,
                                                         b \union {tree[n].name})
            /\ tree[n].kind \in Terminators => first = Walked(TRUE, TRUE, b)
            /\ tree[n].kind = "If" /\ tested => first = merge_arms(body, orelse)
            /\ tree[n].kind = "While" /\ tested => first = loop_binds_nothing(b, body, orelse)
            /\ tree[n].kind \in {"If", "While"} /\ ~tested => first = Walked(FALSE, FALSE, b)
            /\ tree[n].kind \notin {"Expr", "Assign", "Update", "If", "While"} \union Terminators
                 => first = Walked(TRUE, FALSE, b)
<1> DEFINE kind == tree[n].kind
<1> USE DEF Terminators
<1>1. CASE kind = "Expr"
  BY <1>1 DEF check_statement
<1>2. CASE kind = "Assign"
  BY <1>2 DEF check_statement
<1>3. CASE kind = "Update"
  BY <1>3 DEF check_statement
<1>4. CASE kind \in Terminators
  BY <1>4 DEF check_statement
<1>5. CASE kind = "If"
  BY <1>5 DEF check_statement
<1>6. CASE kind = "While"
  BY <1>6 DEF check_statement
<1>7. CASE kind \notin {"Expr", "Assign", "Update", "If", "While"} \union Terminators
  BY <1>7 DEF check_statement
<1>8. QED
  BY <1>1, <1>2, <1>3, <1>4, <1>5, <1>6, <1>7

\* Walked is the record of its arguments.
LEMMA WalkedFields ==
  ASSUME NEW ok, NEW leaves, NEW b
  PROVE  /\ Walked(ok, leaves, b).ok = ok
         /\ Walked(ok, leaves, b).leaves = leaves
         /\ Walked(ok, leaves, b).bound = b
BY DEF Walked

\* Walked of a verdict and a set of names is a walk.
LEMMA WalkedType ==
  ASSUME NEW ok \in BOOLEAN, NEW leaves \in BOOLEAN, NEW b \in SUBSET Names
  PROVE  Walked(ok, leaves, b) \in Walks
BY DEF Walked, Walks

\* The names a statement binds are names of the body.
LEMMA BoundNames ==
  ASSUME TreeOK, SourceOrder, NEW n \in Nodes, tree[n].kind \in Stores
  PROVE  tree[n].name \in Names /\ tree[n].name \in NamesFor(tree[n].kind)
<1>1. tree[n].name \in NamesFor(tree[n].kind)
  BY DEF SourceOrder
<1>2. NamesFor(tree[n].kind) = Names
  BY DEF NamesFor, Stores
<1>3. QED
  BY <1>1, <1>2

\* One statement's walk is well-typed if those after it are.
LEMMA WalkTyped ==
  ASSUME TreeOK, SourceOrder, NEW n \in Nodes,
         \A m \in Nodes : n < m => \A b \in SUBSET Names : walk[m][b] \in Walks,
         NEW b \in SUBSET Names
  PROVE  check_statement(walk, n, b) \in Walks /\ walk[n][b] \in Walks
<1> DEFINE body == check_suite(walk, n, "body", b)
           orelse == check_suite(walk, n, "orelse", b)
           first == check_statement(walk, n, b)
<1>1. ReadOk(tree[n].name, b) \in BOOLEAN
  BY DEF ReadOk
<1>2. \A a : check_suite(walk, n, a, b) \in Walks
  <2>1. Walked(TRUE, FALSE, b) \in Walks
    BY WalkedType
  <2>2. QED
    BY <2>1, Onward DEF check_suite
<1>3. tree[n].kind \in {"Assign", "Update"} => b \union {tree[n].name} \in SUBSET Names
  BY BoundNames DEF Stores
<1>4. merge_arms(body, orelse) \in Walks /\ loop_binds_nothing(b, body, orelse) \in Walks
  <2>1. body \in Walks /\ orelse \in Walks
    BY <1>2
  <2> HIDE DEF body, orelse
  <2>2. QED
    BY <2>1 DEF merge_arms, loop_binds_nothing, Walked, Walks
<1>5. first \in Walks
  <2> DEFINE tested == ReadOk(GuardName(n), b)
  <2>0. /\ tree[n].kind = "Expr" => first = Walked(ReadOk(tree[n].name, b), FALSE, b)
        /\ tree[n].kind = "Assign" => first = Walked(TRUE, FALSE, b \union {tree[n].name})
        /\ tree[n].kind = "Update" => first = Walked(ReadOk(tree[n].name, b), FALSE,
                                                     b \union {tree[n].name})
        /\ tree[n].kind \in Terminators => first = Walked(TRUE, TRUE, b)
        /\ tree[n].kind = "If" /\ tested => first = merge_arms(body, orelse)
        /\ tree[n].kind = "While" /\ tested => first = loop_binds_nothing(b, body, orelse)
        /\ tree[n].kind \in {"If", "While"} /\ ~tested => first = Walked(FALSE, FALSE, b)
        /\ tree[n].kind \notin {"Expr", "Assign", "Update", "If", "While"} \union Terminators
             => first = Walked(TRUE, FALSE, b)
    BY StatementWalks
  <2> HIDE DEF first, body, orelse, tested
  <2>1. CASE tree[n].kind = "Expr"
    BY <2>1, <1>1, <2>0, WalkedType
  <2>2. CASE tree[n].kind = "Assign"
    BY <2>2, <1>3, <2>0, WalkedType
  <2>3. CASE tree[n].kind = "Update"
    BY <2>3, <1>1, <1>3, <2>0, WalkedType
  <2>4. CASE tree[n].kind \in Terminators
    BY <2>4, <2>0, WalkedType
  <2>5. CASE tree[n].kind = "If"
    <3>1. CASE tested
      BY <2>5, <3>1, <1>4, <2>0
    <3>2. CASE ~tested
      BY <2>5, <3>2, <2>0, WalkedType
    <3>3. QED
      BY <3>1, <3>2
  <2>6. CASE tree[n].kind = "While"
    <3>1. CASE tested
      BY <2>6, <3>1, <1>4, <2>0
    <3>2. CASE ~tested
      BY <2>6, <3>2, <2>0, WalkedType
    <3>3. QED
      BY <3>1, <3>2
  <2>7. CASE tree[n].kind \notin {"Expr", "Assign", "Update", "If", "While"} \union Terminators
    BY <2>7, <2>0, WalkedType
  <2>8. QED
    BY <2>1, <2>2, <2>3, <2>4, <2>5, <2>6, <2>7
<1> HIDE DEF first
<1>6. first.bound \in SUBSET Names
  BY <1>5 DEF Walks
<1>7. walk[n][b] = IF first.leaves \/ ~first.ok \/ Later(tree, n) = {} THEN first
                   ELSE walk[FirstOf(Later(tree, n))][first.bound]
  BY WalkIs DEF first
<1>8. Later(tree, n) # {} => walk[FirstOf(Later(tree, n))][first.bound] \in Walks
  BY <1>6, Onward
<1>9. QED
  BY <1>5, <1>7, <1>8 DEF first

\* Every walk is well-typed, of a statement, of a suite and from a statement on.
LEMMA WalksAreWalks ==
  ASSUME TreeOK, SourceOrder
  PROVE  /\ \A n \in Nodes, b \in SUBSET Names :
              check_statement(walk, n, b) \in Walks /\ walk[n][b] \in Walks
         /\ \A u, a : \A b \in SUBSET Names : check_suite(walk, u, a, b) \in Walks
<1> DEFINE T == {n \in Nodes : \A b \in SUBSET Names : walk[n][b] \in Walks}
<1>1. Len(tree) \in Nat /\ Nodes = 1..Len(tree)
  BY NodesAre
<1>2. ASSUME NEW n \in 1..Len(tree), \A k \in 1..Len(tree) : n < k => k \in T
      PROVE  n \in T
  BY <1>1, <1>2, WalkTyped
<1> HIDE DEF T
<1>3. \A n \in 1..Len(tree) : n \in T
  BY <1>1, <1>2, LastFirst
<1>4. \A n \in Nodes, b \in SUBSET Names : walk[n][b] \in Walks
  BY <1>1, <1>3 DEF T
<1>5. ASSUME NEW u, NEW a, NEW b \in SUBSET Names
      PROVE  check_suite(walk, u, a, b) \in Walks
  BY <1>4, FirstOfSuite, WalkedType DEF check_suite
<1>6. ASSUME NEW n \in Nodes, NEW b \in SUBSET Names
      PROVE  check_statement(walk, n, b) \in Walks
  BY <1>4, WalkTyped
<1>7. QED
  BY <1>4, <1>5, <1>6

-----------------------------------------------------------------------------
(* The walk that writes the body: the loops it is in the body of are the   *)
(* ones the next statement stands in, and a flag has the number of them.   *)

Written ==
  /\ emitted \in 0..Len(tree)
  /\ outer \in Seq([loop : Nodes, loop_has_else : BOOLEAN])
  /\ loop_depth = Len(outer)
  /\ loop_has_else = (outer # <<>> /\ HasElse(outer[Len(outer)].loop))
  /\ flag \in [Nodes -> {NoFlag} \union Nat]

Stacked ==
  \A i \in DOMAIN outer :
    LET loop == outer[i].loop
    IN /\ loop <= emitted /\ tree[loop].kind = "While"
       /\ outer[i].loop_has_else = (i # 1 /\ HasElse(outer[i - 1].loop))
       /\ flag[loop] = IF HasElse(loop) THEN i - 1 ELSE NoFlag
       /\ \A j \in DOMAIN outer : i < j => loop < outer[j].loop

OpenLoopsAreStacked ==
  \A loop \in 1..emitted : tree[loop].kind = "While" =>
    \A n \in Nodes : emitted < n /\ InBodyOf(n, loop) => \E i \in DOMAIN outer : outer[i].loop = loop

Flagged ==
  \A n \in 1..emitted :
    /\ tree[n].kind # "For"
    /\ tree[n].kind = "While" =>
         /\ HasElse(n) <=> flag[n] # NoFlag
         /\ tree[n].loop # 0 /\ HasElse(n) => flag[n] # flag[tree[n].loop]
    /\ tree[n].kind = "Break" => flag[n] = flag[tree[n].loop]

EmitInv == Written /\ Stacked /\ OpenLoopsAreStacked /\ Flagged

\* What is read off the tree stays while the tree does.
LEMMA SameTree ==
  ASSUME UNCHANGED tree
  PROVE  /\ Nodes' = Nodes
         /\ \A n : HasElse(n)' = HasElse(n)
         /\ \A n, u : InBodyOf(n, u)' = InBodyOf(n, u)
<1>1. Nodes' = Nodes
  BY DEF Nodes
<1>2. \A n : HasElse(n)' = HasElse(n)
  BY DEF HasElse, Suite
<1>3. \A n, u : InBodyOf(n, u)' = InBodyOf(n, u)
  BY DEF InBodyOf
<1>4. QED
  BY <1>1, <1>2, <1>3

\* InBodyOf, in terms of the statements a statement stands in.
LEMMA BodyMeansPath ==
  ASSUME NEW n, NEW u
  PROVE  InBodyOf(n, u) <=> \E m \in Path(n) : tree[m].up = u /\ tree[m].arm = "body"
BY DEF InBodyOf, Path

\* The arithmetic of the emitter's place and stack.
LEMMA Stack ==
  ASSUME Written
  PROVE  /\ emitted \in Nat /\ Len(outer) \in Nat /\ DOMAIN outer = 1..Len(outer)
         /\ outer # <<>> => Len(outer) \in DOMAIN outer
         /\ \A i \in DOMAIN outer : /\ outer[i].loop \in Nodes
                                    /\ outer[i].loop_has_else \in BOOLEAN
                                    /\ outer[i] = [loop |-> outer[i].loop,
                                                   loop_has_else |-> outer[i].loop_has_else]
<1> DEFINE R == [loop : Nodes, loop_has_else : BOOLEAN]
<1>1. outer \in Seq(R) /\ emitted \in Nat
  BY DEF Written
<1>2. \A r \in R : /\ r.loop \in Nodes /\ r.loop_has_else \in BOOLEAN
                   /\ r = [loop |-> r.loop, loop_has_else |-> r.loop_has_else]
  OBVIOUS
<1> HIDE DEF R
<1>3. /\ Len(outer) \in Nat /\ DOMAIN outer = 1..Len(outer)
      /\ outer # <<>> => Len(outer) \in DOMAIN outer
      /\ \A i \in DOMAIN outer : outer[i] \in R
  BY <1>1
<1>4. QED
  BY <1>1, <1>2, <1>3

\* Who stands in the body of a loop has a loop, that one or one inside it.
LEMMA InsideALoop ==
  ASSUME TreeOK, NEW n \in Nodes, NEW u \in Nodes, tree[u].kind \in Loops, InBodyOf(n, u)
  PROVE  tree[n].loop \in Nodes /\ tree[n].loop >= u /\ tree[n].loop # 0 /\ u \in tree[n].within
<1>1. PICK m \in Path(n) : tree[m].up = u /\ tree[m].arm = "body"
  BY BodyMeansPath
<1>2. m \in Nodes /\ Nodes = 1..Len(tree) /\ Len(tree) \in Nat /\ Path(m) \subseteq Path(n)
  BY PathsAreNodes, NodesAre
<1>3. Placed(m) /\ u # 0 /\ m \in Nat /\ u \in Nat /\ u < m
  <2>1. Placed(m) /\ u # 0 /\ m \in Nat /\ u \in Nat
    BY <1>2 DEF TreeOK
  <2>2. QED
    BY <1>1, <2>1 DEF Placed
<1>4. tree[m].loop = u /\ u \in tree[m].within
  BY <1>1, <1>3 DEF Placed, LoopAt
<1>5. Nested(n) /\ tree[n].loop \in Nat
  BY Nesting, NodesAre DEF Statements
<1>6. u \in tree[n].within
  <2>1. CASE m = n
    BY <1>4, <2>1
  <2>2. CASE m # n
    BY <1>1, <1>4, <1>5, <2>2 DEF Nested, Path
  <2>3. QED
    BY <2>1, <2>2
<1>7. tree[n].loop >= u
  <2>1. CASE m = n
    BY <1>4, <1>3, <2>1
  <2>2. CASE m # n
    <3>1. m \in tree[n].within
      BY <1>1, <2>2 DEF Path
    <3>2. tree[n].loop = tree[m].loop \/ tree[n].loop >= m
      BY <3>1, <1>5 DEF Nested
    <3>3. QED
      BY <3>2, <1>3, <1>4, <1>5
  <2>3. QED
    BY <2>1, <2>2
<1>8. tree[n].loop # 0
  BY <1>7, <1>2, <1>3, <1>5
<1>9. tree[n].loop \in Nodes
  <2>1. tree[n].loop \in tree[n].within
    BY <1>5, <1>8 DEF Nested
  <2>2. QED
    BY <2>1, PathsAreNodes DEF Path
<1>10. QED
  BY <1>6, <1>7, <1>8, <1>9

\* The loop of the next statement is the one on top.
LEMMA CurrentLoop ==
  ASSUME TreeOK, EmitInv, NEW n \in Nodes, n = emitted + 1, InCurrentBody
  PROVE  tree[n].loop = IF outer = <<>> THEN 0 ELSE outer[Len(outer)].loop
<1>1. /\ n \in Nat /\ emitted \in Nat /\ emitted < n /\ Nodes \subseteq Nat
      /\ Nodes = 1..Len(tree) /\ Len(tree) \in Nat
  BY NodesAre, Stack DEF EmitInv
<1>2. ASSUME tree[n].loop # 0
      PROVE  \E i \in DOMAIN outer : outer[i].loop = tree[n].loop
  <2> DEFINE loop == tree[n].loop
  <2>1. Nested(n)
    BY Nesting
  <2>2. loop \in tree[n].within /\ tree[loop].kind \in Loops /\ InBodyOf(n, loop)
    BY <1>2, <2>1, BodyMeansPath DEF Nested
  <2>3. loop \in 1..n - 1
    BY <2>1, <2>2 DEF Nested
  <2>4. loop \in 1..emitted
    BY <1>1, <2>3
  <2>5. tree[loop].kind = "While"
    BY <2>2, <2>4 DEF EmitInv, Flagged, Loops
  <2>6. QED
    BY <1>1, <2>2, <2>4, <2>5 DEF EmitInv, OpenLoopsAreStacked
<1>3. CASE outer = <<>>
  <2>1. DOMAIN outer = {}
    BY <1>3
  <2>2. QED
    BY <1>2, <1>3, <2>1
<1>4. CASE outer # <<>>
  <2> DEFINE top == outer[Len(outer)].loop
  <2>1. /\ Len(outer) \in DOMAIN outer /\ top \in Nodes /\ DOMAIN outer = 1..Len(outer)
        /\ Len(outer) \in Nat
    BY <1>4, Stack DEF EmitInv
  <2>2. InBodyOf(n, top) /\ tree[top].kind \in Loops
    BY <1>4, <2>1 DEF InCurrentBody, EmitInv, Stacked, Loops
  <2> HIDE DEF top
  <2>3. tree[n].loop # 0 /\ tree[n].loop >= top /\ tree[n].loop \in Nodes
    BY <2>1, <2>2, InsideALoop
  <2>4. PICK i \in DOMAIN outer : outer[i].loop = tree[n].loop
    BY <1>2, <2>3
  <2>5. i < Len(outer) => outer[i].loop < top
    BY <2>1, <2>4 DEF EmitInv, Stacked, top
  <2>6. i \in Nat /\ i <= Len(outer) /\ top \in Nat /\ tree[n].loop \in Nat
    BY <1>1, <2>1, <2>3
  <2>7. i = Len(outer)
    BY <2>1, <2>3, <2>4, <2>5, <2>6
  <2>8. QED
    BY <1>4, <2>4, <2>7 DEF top
<1>5. QED
  BY <1>3, <1>4

\* A body that is left is not come back to.
LEMMA LeftForGood ==
  ASSUME TreeOK, SourceOrder, NEW u \in Nodes, NEW e \in Nat, u <= e,
         e < Len(tree) => ~InBodyOf(e + 1, u)
  PROVE  \A n \in Nodes : e < n => ~InBodyOf(n, u)
<1>1. SUFFICES ASSUME NEW n \in Nodes, e < n, InBodyOf(n, u) PROVE FALSE
  OBVIOUS
<1>2. Nodes = 1..Len(tree) /\ Len(tree) \in Nat /\ u \in Nat /\ n \in Nat /\ e + 1 \in Nodes
  BY <1>1, NodesAre
<1>3. PICK d \in Path(n) : tree[d].up = u /\ tree[d].arm = "body"
  BY <1>1, BodyMeansPath
<1>4. d \in Nodes /\ d <= n /\ u \in tree[d].within /\ Path(d) \subseteq Path(n)
  <2>1. d \in Nodes /\ d <= n /\ Path(d) \subseteq Path(n)
    BY PathsAreNodes
  <2>2. u \in tree[d].within
    BY <1>2, <1>3, <2>1, Below
  <2>3. QED
    BY <2>1, <2>2
<1>5. u \in tree[n].within
  BY <1>2, <1>4, PathsAreNodes, Nesting DEF Path, Nested
<1>6. ~InBodyOf(e + 1, u) /\ n # e + 1 /\ e + 1 < n
  BY <1>1, <1>2
<1>7. u \in tree[e + 1].within
  BY <1>2, <1>5, <1>6 DEF SourceOrder
<1>8. PICK c \in Path(e + 1) : tree[c].up = u
  BY <1>2, <1>7, Nesting DEF Nested
<1>9. c \in Nodes /\ c <= e + 1
  BY <1>2, <1>8, PathsAreNodes
<1>10. tree[c].arm = "orelse"
  <2>1. tree[c].arm # "body"
    BY <1>6, <1>8, BodyMeansPath
  <2>2. tree[c].arm \in Arms
    BY <1>9, NodesAre DEF Statements
  <2>3. QED
    BY <2>1, <2>2 DEF Arms
<1>11. d < c
  BY <1>3, <1>4, <1>8, <1>9, <1>10 DEF SourceOrder
<1>12. d \in Nat /\ c \in Nat /\ d < e + 1 /\ d # n
  BY <1>2, <1>4, <1>6, <1>9, <1>11
<1>13. d \in tree[n].within
  BY <1>3, <1>12 DEF Path
<1>14. d \in tree[e + 1].within
  BY <1>2, <1>6, <1>12, <1>13 DEF SourceOrder
<1>15. InBodyOf(e + 1, u)
  BY <1>3, <1>14 DEF InBodyOf
<1>16. QED
  BY <1>6, <1>15

\* A stack without its top.
LEMMA Popped ==
  ASSUME NEW S, NEW s \in Seq(S), s # <<>>, NEW r, r = SubSeq(s, 1, Len(s) - 1)
  PROVE  /\ r \in Seq(S)
         /\ Len(r) = Len(s) - 1
         /\ DOMAIN r = 1..Len(s) - 1
         /\ \A i \in 1..Len(s) - 1 : r[i] = s[i]
         /\ r # <<>> <=> Len(s) # 1
<1>1. Len(s) \in Nat /\ Len(s) # 0 /\ DOMAIN s = 1..Len(s)
  OBVIOUS
<1>2. Len(r) = Len(s) - 1 /\ \A i \in 1..Len(s) - 1 : r[i] = s[i]
  BY <1>1
<1>3. r \in Seq(S)
  <2>1. \A i \in 1..Len(s) - 1 : s[i] \in S
    BY <1>1
  <2>2. QED
    BY <1>1, <2>1
<1>4. DOMAIN r = 1..Len(r)
  BY <1>3
<1>5. r # <<>> <=> Len(r) # 0
  BY <1>3, EmptySeq
<1>6. QED
  BY <1>1, <1>2, <1>3, <1>4, <1>5
\* After every step of the walk.
LEMMA LeaveKeeps ==
  ASSUME TreeOK, SourceOrder, EmitInv, LeaveLoopBody
  PROVE  EmitInv'
<1> DEFINE R == [loop : Nodes, loop_has_else : BOOLEAN]
           N == Len(outer)
           top == outer[N]
<1>1. /\ ~InCurrentBody
      /\ loop_has_else' = outer[Len(outer)].loop_has_else
      /\ loop_depth' = loop_depth - 1
      /\ outer' = SubSeq(outer, 1, Len(outer) - 1)
      /\ UNCHANGED <<tree, emitted, flag>>
  BY DEF LeaveLoopBody, runUnchanged
<1>2. outer # <<>>
  BY <1>1 DEF InCurrentBody
<1>3. /\ N \in Nat \ {0} /\ DOMAIN outer = 1..N
      /\ top.loop \in Nodes /\ Nodes = 1..Len(tree) /\ Len(tree) \in Nat /\ emitted \in Nat
      /\ outer \in Seq([loop : Nodes, loop_has_else : BOOLEAN])
  <2>1. N \in Nat /\ DOMAIN outer = 1..N /\ N \in DOMAIN outer /\ top.loop \in Nodes
    BY <1>2, Stack DEF EmitInv
  <2>2. QED
    BY <2>1, NodesAre, Stack DEF EmitInv, Written
<1>4. /\ outer' \in Seq([loop : Nodes, loop_has_else : BOOLEAN])
      /\ Len(outer') = N - 1 /\ DOMAIN outer' = 1..N - 1
      /\ \A i \in 1..N - 1 : outer'[i] = outer[i]
      /\ outer' # <<>> <=> N # 1
  <2>1. outer \in Seq(R) /\ outer # <<>> /\ outer' = SubSeq(outer, 1, Len(outer) - 1)
    BY <1>1, <1>2, <1>3
  <2> HIDE DEF R
  <2>2. /\ outer' \in Seq(R)
        /\ Len(outer') = Len(outer) - 1 /\ DOMAIN outer' = 1..Len(outer) - 1
        /\ \A i \in 1..Len(outer) - 1 : outer'[i] = outer[i]
        /\ outer' # <<>> <=> Len(outer) # 1
    BY <2>1, Popped
  <2>3. QED
    BY <2>2 DEF R
<1>5. /\ Nodes' = Nodes
      /\ \A n : HasElse(n)' = HasElse(n)
      /\ \A n, u : InBodyOf(n, u)' = InBodyOf(n, u)
  BY <1>1, SameTree
<1>6. Written'
  <2>1. loop_has_else' = (N # 1 /\ HasElse(outer[N - 1].loop))
    <3>1. N \in DOMAIN outer
      BY <1>3
    <3>2. top.loop_has_else = (N # 1 /\ HasElse(outer[N - 1].loop))
      BY <3>1 DEF EmitInv, Stacked
    <3>3. QED
      BY <1>1, <3>2
  <2>2. N # 1 => outer'[Len(outer')] = outer[N - 1]
    <3>1. N # 1 => N - 1 \in 1..N - 1
      BY <1>3
    <3>2. QED
      BY <1>4, <3>1
  <2>3. loop_has_else' = (outer' # <<>> /\ HasElse(outer[Len(outer)].loop)')
    <3>1. N # 1 => HasElse(outer[N - 1].loop) = HasElse(outer[Len(outer)].loop)'
      BY <1>1, <2>2 DEF HasElse
    <3>2. QED
      BY <1>4, <2>1, <3>1
  <2>4. QED
    BY <1>1, <1>3, <1>4, <1>5, <2>3 DEF EmitInv, Written
<1>7. Stacked'
  <2>1. ASSUME NEW i \in 1..N - 1
        PROVE  /\ outer[i].loop <= emitted /\ tree[outer[i].loop].kind = "While"
               /\ outer[i].loop_has_else = (i # 1 /\ HasElse(outer[i - 1].loop))
               /\ flag[outer[i].loop] = IF HasElse(outer[i].loop) THEN i - 1 ELSE NoFlag
               /\ \A j \in 1..N - 1 : i < j => outer[i].loop < outer[j].loop
    <3>1. i \in DOMAIN outer /\ \A j \in 1..N - 1 : j \in DOMAIN outer
      BY <1>3
    <3>2. QED
      BY <3>1 DEF EmitInv, Stacked
  <2>2. QED
    <3>1. \A i \in 1..N - 1 : i # 1 => i - 1 \in 1..N - 1
      BY <1>3
    <3>2. \A i \in 1..N - 1 : /\ outer'[i] = outer[i]
                              /\ i # 1 => outer'[i - 1] = outer[i - 1]
      BY <1>4, <3>1
    <3>3. \A i \in 1..N - 1 : /\ HasElse(outer[i].loop)' = HasElse(outer[i].loop)
                              /\ i # 1 => HasElse(outer[i - 1].loop)' = HasElse(outer[i - 1].loop)
      BY <1>1, <3>2 DEF HasElse
    <3>4. ASSUME NEW i \in 1..N - 1
          PROVE  /\ outer'[i].loop <= emitted' /\ tree'[outer'[i].loop].kind = "While"
                 /\ outer'[i].loop_has_else = (i # 1 /\ HasElse(outer[i - 1].loop)')
                 /\ flag'[outer'[i].loop] = IF HasElse(outer[i].loop)' THEN i - 1 ELSE NoFlag
                 /\ \A j \in 1..N - 1 : i < j => outer'[i].loop < outer'[j].loop
      BY <1>1, <2>1, <3>2, <3>3
    <3>5. QED
      BY <1>4, <3>4, Zenon DEF Stacked
<1>8. OpenLoopsAreStacked'
  <2>1. \A n \in Nodes : emitted < n => ~InBodyOf(n, top.loop)
    <3>1. top.loop <= emitted
      BY <1>3 DEF EmitInv, Stacked
    <3>2. emitted < Len(tree) => ~InBodyOf(emitted + 1, top.loop)
      BY <1>1, <1>2 DEF InCurrentBody
    <3>3. QED
      BY <1>3, <3>1, <3>2, LeftForGood
  <2>2. SUFFICES ASSUME NEW loop \in 1..emitted, tree[loop].kind = "While", NEW n \in Nodes,
                        emitted < n, InBodyOf(n, loop)
                 PROVE  \E i \in 1..N - 1 : outer[i].loop = loop
    BY <1>1, <1>4, <1>5 DEF OpenLoopsAreStacked
  <2>3. PICK i \in DOMAIN outer : outer[i].loop = loop
    BY <2>2 DEF EmitInv, OpenLoopsAreStacked
  <2>4. i # N
    BY <2>1, <2>2, <2>3
  <2>5. QED
    BY <1>3, <2>3, <2>4
<1>9. Flagged'
  BY <1>1, <1>5 DEF EmitInv, Flagged
<1>10. QED
  BY <1>6, <1>7, <1>8, <1>9 DEF EmitInv

\* What is emitted: no stray terminator, no annotated assignment, the truth of values.
LEMMA WhatIsEmitted ==
  ASSUME decl \in Decls, TreeOK, SourceOrder, NEW n \in Nodes
  PROVE  /\ tree[n].kind = "Return" => InFunction
         /\ tree[n].kind \in {"Break", "Continue"} => /\ tree[n].loop \in Nodes
                                                      /\ tree[n].loop < n
                                                      /\ tree[n].loop # 0
         /\ tree[n].kind # "Declare" /\ tree[n].kind \in AllKinds
         /\ tree[n].value = AnyTruth
<1>1. ~decl.stray /\ decl.values = {AnyTruth} /\ "Declare" \notin decl.kinds
  BY EmitterAssumption
<1>2. Legal(tree[n].kind, tree[n].loop) /\ tree[n].kind \in decl.kinds
  BY <1>1 DEF SourceOrder
<1>3. tree[n] \in Statements /\ n \in Nat /\ Nodes = 1..Len(tree) /\ Len(tree) \in Nat
  BY NodesAre
<1>4. tree[n].value = AnyTruth /\ tree[n].kind \in AllKinds
  BY <1>1, <1>3 DEF Statements
<1>5. tree[n].loop # 0 => tree[n].loop \in 1..n - 1
  BY Nesting DEF Nested
<1>6. tree[n].loop # 0 => tree[n].loop \in Nodes /\ tree[n].loop < n
  BY <1>3, <1>5
<1>7. tree[n].kind # "Declare"
  BY <1>1, <1>2
<1>8. QED
  BY <1>2, <1>4, <1>6, <1>7 DEF Legal
\* What is written of a statement that is no loop changes no stack.
LEMMA PlainKeeps ==
  ASSUME decl \in Decls, TreeOK, SourceOrder, EmitInv, UNCHANGED <<tree, outer, loop_depth, loop_has_else>>,
         NEW n \in Nodes, n = emitted + 1, emitted' = n,
         tree[n].kind \notin {"While", "For"},
         flag' \in [Nodes -> {NoFlag} \union Nat],
         \A m \in Nodes : m # n => flag'[m] = flag[m],
         tree[n].kind = "Break" => flag'[n] = flag[tree[n].loop]
  PROVE  EmitInv'
<1>1. /\ n \in Nat /\ emitted \in Nat /\ Nodes = 1..Len(tree) /\ Len(tree) \in Nat
      /\ DOMAIN outer = 1..Len(outer) /\ Len(outer) \in Nat
      /\ \A i \in DOMAIN outer : outer[i].loop \in Nodes
  BY NodesAre, Stack DEF EmitInv
<1>2. /\ Nodes' = Nodes
      /\ \A m : HasElse(m)' = HasElse(m)
      /\ \A m, u : InBodyOf(m, u)' = InBodyOf(m, u)
  BY SameTree
<1>3. Written'
  BY <1>1, <1>2 DEF EmitInv, Written, HasElse
<1>4. Stacked'
  <2>1. ASSUME NEW i \in DOMAIN outer
        PROVE  /\ outer[i].loop <= n /\ tree[outer[i].loop].kind = "While"
               /\ outer[i].loop_has_else = (i # 1 /\ HasElse(outer[i - 1].loop))
               /\ flag'[outer[i].loop] = IF HasElse(outer[i].loop) THEN i - 1 ELSE NoFlag
               /\ \A j \in DOMAIN outer : i < j => outer[i].loop < outer[j].loop
    <3>1. /\ outer[i].loop <= emitted /\ tree[outer[i].loop].kind = "While"
          /\ outer[i].loop_has_else = (i # 1 /\ HasElse(outer[i - 1].loop))
          /\ flag[outer[i].loop] = IF HasElse(outer[i].loop) THEN i - 1 ELSE NoFlag
          /\ \A j \in DOMAIN outer : i < j => outer[i].loop < outer[j].loop
      BY DEF EmitInv, Stacked
    <3>2. outer[i].loop \in Nodes /\ outer[i].loop <= n /\ outer[i].loop # n
      BY <1>1, <3>1
    <3>3. flag'[outer[i].loop] = flag[outer[i].loop]
      BY <3>2
    <3>4. QED
      BY <3>1, <3>2, <3>3
  <2>2. QED
    BY <2>1 DEF Stacked, HasElse
<1>5. OpenLoopsAreStacked'
  <2>1. SUFFICES ASSUME NEW loop \in 1..n, tree[loop].kind = "While", NEW m \in Nodes,
                        n < m, InBodyOf(m, loop)
                 PROVE  \E i \in DOMAIN outer : outer[i].loop = loop
    BY <1>2 DEF OpenLoopsAreStacked
  <2>2. loop \in 1..emitted /\ emitted < m
    BY <1>1, <2>1
  <2>3. QED
    BY <2>1, <2>2 DEF EmitInv, OpenLoopsAreStacked
<1>6. Flagged'
  <2>1. ASSUME NEW m \in 1..n
        PROVE  /\ tree[m].kind # "For"
               /\ tree[m].kind = "While" =>
                    /\ HasElse(m) <=> flag'[m] # NoFlag
                    /\ tree[m].loop # 0 /\ HasElse(m) => flag'[m] # flag'[tree[m].loop]
               /\ tree[m].kind = "Break" => flag'[m] = flag'[tree[m].loop]
    <3>1. m \in Nodes /\ m \in Nat
      BY <1>1
    <3>2. tree[m].loop \in Nat /\ (tree[m].loop # 0 => tree[m].loop \in Nodes /\ tree[m].loop < m)
      <4>1. tree[m].loop # 0 => tree[m].loop \in 1..m - 1
        BY <3>1, Nesting DEF Nested
      <4>2. tree[m].loop \in Nat
        BY <3>1, NodesAre DEF Statements
      <4>3. QED
        BY <1>1, <3>1, <4>1, <4>2
    <3>3. CASE m = n
      <4>1. tree[n].kind = "Break" => tree[n].loop \in Nodes /\ tree[n].loop # n
        BY <1>1, WhatIsEmitted
      <4>2. QED
        BY <3>3, <4>1
    <3>4. CASE m # n
      <4>1. m \in 1..emitted
        BY <1>1, <3>4
      <4>2. /\ tree[m].kind # "For"
            /\ tree[m].kind = "While" =>
                 /\ HasElse(m) <=> flag[m] # NoFlag
                 /\ tree[m].loop # 0 /\ HasElse(m) => flag[m] # flag[tree[m].loop]
            /\ tree[m].kind = "Break" => flag[m] = flag[tree[m].loop]
        BY <4>1 DEF EmitInv, Flagged
      <4>3. flag'[m] = flag[m]
        BY <3>1, <3>4
      <4>4. tree[m].loop \in Nodes => flag'[tree[m].loop] = flag[tree[m].loop]
        BY <1>1, <3>1, <3>2
      <4>5. tree[m].kind = "Break" => tree[m].loop \in Nodes
        BY <3>1, WhatIsEmitted
      <4>6. QED
        BY <3>2, <4>2, <4>3, <4>4, <4>5
    <3>5. QED
      BY <3>3, <3>4
  <2>2. QED
    BY <1>2, <2>1 DEF Flagged
<1>7. QED
  BY <1>3, <1>4, <1>5, <1>6 DEF EmitInv

\* visit(Break) leaves the stack of loops alone and names a flag of the top one's.
LEMMA BreakKeeps ==
  ASSUME decl \in Decls, TreeOK, SourceOrder, EmitInv, NEW n \in Nodes, EmitBreak(n)
  PROVE  EmitInv'
<1>1. /\ n = emitted + 1 /\ InCurrentBody /\ tree[n].kind = "Break" /\ emitted' = n
      /\ flag' = [flag EXCEPT ![n] = IF loop_has_else THEN loop_depth - 1 ELSE NoFlag]
      /\ UNCHANGED <<tree, outer, loop_depth, loop_has_else>>
  BY DEF EmitBreak, Due, runUnchanged
<1>2. /\ tree[n].loop \in Nodes /\ tree[n].loop # 0 /\ tree[n].loop < n
  BY <1>1, WhatIsEmitted
<1>3. tree[n].loop = IF outer = <<>> THEN 0 ELSE outer[Len(outer)].loop
  BY <1>1, CurrentLoop
<1>4. outer # <<>> /\ tree[n].loop = outer[Len(outer)].loop
  BY <1>2, <1>3
<1>5. Len(outer) \in DOMAIN outer /\ Len(outer) \in Nat /\ DOMAIN outer = 1..Len(outer)
  BY <1>4, Stack DEF EmitInv
<1>6. flag[tree[n].loop] = IF HasElse(tree[n].loop) THEN Len(outer) - 1 ELSE NoFlag
  BY <1>4, <1>5 DEF EmitInv, Stacked
<1>7. loop_has_else = HasElse(tree[n].loop) /\ loop_depth = Len(outer)
  BY <1>4 DEF EmitInv, Written, HasElse
<1>8. flag \in [Nodes -> {NoFlag} \union Nat]
  BY DEF EmitInv, Written
<1>9. flag'[n] = flag[tree[n].loop] /\ \A m \in Nodes : m # n => flag'[m] = flag[m]
  BY <1>1, <1>6, <1>7, <1>8
<1>10. flag' \in [Nodes -> {NoFlag} \union Nat]
  <2>1. (IF loop_has_else THEN loop_depth - 1 ELSE NoFlag) \in {NoFlag} \union Nat
    BY <1>2, <1>6, <1>7, <1>8
  <2>2. QED
    <3>1. HasElse(n) \in BOOLEAN
      BY DEF HasElse
    <3>2. QED
      BY <1>1, <1>8, <2>1, <3>1
<1>11. QED
  BY <1>1, <1>9, <1>10, PlainKeeps

\* Every other statement that is written leaves the loops and the flags alone.
LEMMA OtherKeeps ==
  ASSUME decl \in Decls, TreeOK, SourceOrder, EmitInv, NEW n \in Nodes, EmitPlain(n)
  PROVE  EmitInv'
<1>1. /\ n = emitted + 1 /\ tree[n].kind \notin {"While", "Break", "For"} /\ emitted' = n
      /\ UNCHANGED <<tree, outer, loop_depth, loop_has_else, flag>>
  BY DEF EmitPlain, Due, runUnchanged
<1>2. flag' \in [Nodes -> {NoFlag} \union Nat]
  BY <1>1 DEF EmitInv, Written
<1>3. QED
  BY <1>1, <1>2, PlainKeeps

\* visit(While) opens one loop more, whose flag has the number of the loops around it.
LEMMA WhileKeeps ==
  ASSUME decl \in Decls, TreeOK, SourceOrder, EmitInv, NEW n \in Nodes, EmitWhile(n)
  PROVE  EmitInv'
<1> DEFINE N == Len(outer)
           R == [loop : Nodes, loop_has_else : BOOLEAN]
           new == [loop |-> n, loop_has_else |-> loop_has_else]
           name == IF HasElse(n) THEN loop_depth ELSE NoFlag
<1>1. /\ n = emitted + 1 /\ InCurrentBody /\ tree[n].kind = "While" /\ emitted' = n
      /\ flag' = [flag EXCEPT ![n] = name]
      /\ outer' = Append(outer, new)
      /\ loop_has_else' = HasElse(n)
      /\ loop_depth' = loop_depth + 1
      /\ UNCHANGED tree
  BY DEF EmitWhile, Due, runUnchanged
<1>2. /\ n \in Nat /\ emitted \in Nat /\ Nodes = 1..Len(tree) /\ Len(tree) \in Nat
      /\ DOMAIN outer = 1..N /\ N \in Nat
      /\ \A i \in 1..N : outer[i].loop \in Nodes
      /\ loop_depth = N /\ outer \in Seq(R)
      /\ loop_has_else = (outer # <<>> /\ HasElse(outer[N].loop))
      /\ loop_has_else \in BOOLEAN
      /\ flag \in [Nodes -> {NoFlag} \union Nat]
  <2>1. /\ DOMAIN outer = 1..N /\ N \in Nat /\ \A i \in 1..N : outer[i].loop \in Nodes
    BY Stack DEF EmitInv
  <2>2. QED
    BY <2>1, NodesAre, Stack DEF EmitInv, Written, HasElse
<1>3. /\ Nodes' = Nodes
      /\ \A m : HasElse(m)' = HasElse(m)
      /\ \A m, u : InBodyOf(m, u)' = InBodyOf(m, u)
  BY <1>1, SameTree
<1>4. name \in {NoFlag} \union Nat
  BY <1>2
<1>5. /\ flag' \in [Nodes -> {NoFlag} \union Nat] /\ flag'[n] = name
      /\ \A m \in Nodes : m # n => flag'[m] = flag[m]
  <2> HIDE DEF name
  <2>1. QED
    BY <1>1, <1>2, <1>4
<1>6. new \in R /\ new.loop = n /\ new.loop_has_else = loop_has_else
  BY <1>2
<1>7. /\ outer' \in Seq(R)
      /\ Len(outer') = N + 1 /\ DOMAIN outer' = 1..N + 1
      /\ \A i \in 1..N : outer'[i] = outer[i]
      /\ outer'[N + 1] = new
  <2> HIDE DEF R, new
  <2>1. QED
    BY <1>1, <1>2, <1>6, Appended
<1> HIDE DEF new
<1>8. outer' # <<>> /\ outer'[Len(outer')].loop = n
  BY <1>2, <1>6, <1>7, EmptySeq
<1>9. Written'
  <2>1. HasElse(outer[Len(outer)].loop)' = HasElse(n)
    BY <1>1, <1>8 DEF HasElse
  <2>2. emitted' \in 0..Len(tree')
    BY <1>1, <1>2
  <2>3. loop_depth' = Len(outer')
    BY <1>1, <1>2, <1>7
  <2>4. loop_has_else' = (outer' # <<>> /\ HasElse(outer[Len(outer)].loop)')
    <3>1. HasElse(n) \in BOOLEAN
      BY DEF HasElse
    <3>2. QED
      BY <1>1, <1>8, <2>1, <3>1
  <2>5. outer' \in Seq(R)' /\ flag' \in [Nodes' -> {NoFlag} \union Nat]
    BY <1>3, <1>5, <1>7
  <2>6. QED
    BY <2>2, <2>3, <2>4, <2>5, Zenon DEF Written
<1>10. Stacked'
  <2>1. ASSUME NEW i \in 1..N
        PROVE  /\ outer[i].loop < n /\ tree[outer[i].loop].kind = "While"
               /\ outer[i].loop_has_else = (i # 1 /\ HasElse(outer[i - 1].loop))
               /\ flag'[outer[i].loop] = IF HasElse(outer[i].loop) THEN i - 1 ELSE NoFlag
               /\ \A j \in 1..N : i < j => outer[i].loop < outer[j].loop
    <3>1. /\ outer[i].loop <= emitted /\ tree[outer[i].loop].kind = "While"
          /\ outer[i].loop_has_else = (i # 1 /\ HasElse(outer[i - 1].loop))
          /\ flag[outer[i].loop] = IF HasElse(outer[i].loop) THEN i - 1 ELSE NoFlag
          /\ \A j \in 1..N : i < j => outer[i].loop < outer[j].loop
      BY <1>2 DEF EmitInv, Stacked
    <3>2. outer[i].loop \in Nodes /\ outer[i].loop < n /\ outer[i].loop # n
      BY <1>1, <1>2, <3>1
    <3>3. flag'[outer[i].loop] = flag[outer[i].loop]
      BY <1>5, <3>2
    <3>4. QED
      BY <3>1, <3>2, <3>3
  <2>2. \A i \in 1..N : i # 1 => i - 1 \in 1..N
    BY <1>2
  <2>3. \A i \in 1..N : /\ HasElse(outer[i].loop)' = HasElse(outer[i].loop)
                        /\ i # 1 => HasElse(outer[i - 1].loop)' = HasElse(outer[i - 1].loop)
    BY <1>1, <1>7, <2>2 DEF HasElse
  <2>4. ASSUME NEW i \in 1..N
        PROVE  /\ outer'[i].loop <= emitted' /\ tree'[outer'[i].loop].kind = "While"
               /\ outer'[i].loop_has_else = (i # 1 /\ HasElse(outer[i - 1].loop)')
               /\ flag'[outer'[i].loop] = IF HasElse(outer[i].loop)' THEN i - 1 ELSE NoFlag
               /\ \A j \in 1..N + 1 : i < j => outer'[i].loop < outer'[j].loop
    <3>1. outer'[i] = outer[i] /\ outer[i].loop \in Nat
      BY <1>2, <1>7
    <3>2. ASSUME NEW j \in 1..N + 1, i < j PROVE outer'[i].loop < outer'[j].loop
      <4>1. CASE j = N + 1
        BY <1>6, <1>7, <2>1, <3>1, <4>1
      <4>2. CASE j # N + 1
        <5>1. j \in 1..N
          BY <1>2, <4>2
        <5>2. QED
          BY <1>7, <2>1, <3>1, <3>2, <5>1
      <4>3. QED
        BY <4>1, <4>2
    <3>3. outer'[i].loop_has_else = (i # 1 /\ HasElse(outer[i - 1].loop)')
      BY <2>1, <2>3, <3>1
    <3>4. flag'[outer'[i].loop] = IF HasElse(outer[i].loop)' THEN i - 1 ELSE NoFlag
      BY <2>1, <2>3, <3>1
    <3>5. outer'[i].loop <= emitted' /\ tree'[outer'[i].loop].kind = "While"
      BY <1>1, <1>2, <2>1, <3>1
    <3>6. QED
      BY <3>2, <3>3, <3>4, <3>5
  <2>5. ASSUME NEW i \in {N + 1}
        PROVE  /\ outer'[i].loop <= emitted' /\ tree'[outer'[i].loop].kind = "While"
               /\ outer'[i].loop_has_else = (i # 1 /\ HasElse(outer[i - 1].loop)')
               /\ flag'[outer'[i].loop] = IF HasElse(outer[i].loop)' THEN i - 1 ELSE NoFlag
               /\ \A j \in 1..N + 1 : i < j => outer'[i].loop < outer'[j].loop
    <3>1. i = N + 1 /\ outer'[i] = new /\ i - 1 = N
      BY <1>2, <1>7
    <3>2. outer'[i].loop <= emitted' /\ tree'[outer'[i].loop].kind = "While"
      BY <1>1, <1>2, <1>6, <3>1
    <3>3. flag'[outer'[i].loop] = IF HasElse(outer[i].loop)' THEN i - 1 ELSE NoFlag
      <4>1. HasElse(outer[i].loop)' = HasElse(n)
        BY <1>1, <1>6, <3>1 DEF HasElse
      <4>2. QED
        BY <1>2, <1>5, <1>6, <3>1, <4>1
    <3>4. outer'[i].loop_has_else = (i # 1 /\ HasElse(outer[i - 1].loop)')
      <4>1. outer # <<>> <=> N # 0
        BY <1>2, EmptySeq
      <4>2. CASE N = 0
        BY <1>2, <1>6, <3>1, <4>1, <4>2
      <4>3. CASE N # 0
        <5>1. N \in 1..N
          BY <1>2, <4>3
        <5>2. outer'[i - 1] = outer[N]
          BY <1>7, <3>1, <5>1
        <5>3. HasElse(outer[i - 1].loop)' = HasElse(outer[N].loop)
          BY <1>1, <5>2 DEF HasElse
        <5>4. QED
          BY <1>2, <1>6, <3>1, <4>1, <4>3, <5>3
      <4>4. QED
        BY <4>2, <4>3
    <3>5. \A j \in 1..N + 1 : ~(i < j)
      BY <1>2, <3>1
    <3>6. QED
      BY <3>2, <3>3, <3>4, <3>5
  <2>6. \A i \in 1..N + 1 : i \in 1..N \/ i \in {N + 1}
    BY <1>2
  <2>7. ASSUME NEW i \in 1..N + 1
        PROVE  /\ outer'[i].loop <= emitted' /\ tree'[outer'[i].loop].kind = "While"
               /\ outer'[i].loop_has_else = (i # 1 /\ HasElse(outer[i - 1].loop)')
               /\ flag'[outer'[i].loop] = IF HasElse(outer[i].loop)' THEN i - 1 ELSE NoFlag
               /\ \A j \in 1..N + 1 : i < j => outer'[i].loop < outer'[j].loop
    <3>1. CASE i \in 1..N
      BY <2>4, <3>1, Zenon
    <3>2. CASE i \in {N + 1}
      BY <2>5, <3>2, Zenon
    <3>3. QED
      BY <2>6, <3>1, <3>2
  <2>8. QED
    BY <1>7, <2>7, Zenon DEF Stacked
<1>11. OpenLoopsAreStacked'
  <2>1. SUFFICES ASSUME NEW loop \in 1..n, tree[loop].kind = "While", NEW m \in Nodes,
                        n < m, InBodyOf(m, loop)
                 PROVE  \E i \in 1..N + 1 : outer'[i].loop = loop
    BY <1>1, <1>3, <1>7 DEF OpenLoopsAreStacked
  <2>2. CASE loop = n
    <3>1. N + 1 \in 1..N + 1 /\ outer'[N + 1].loop = loop
      BY <1>2, <1>6, <1>7, <2>2
    <3>2. QED
      BY <3>1
  <2>3. CASE loop # n
    <3>1. loop \in 1..emitted /\ emitted < m
      BY <1>1, <1>2, <2>1, <2>3, NodesAre
    <3>2. PICK i \in 1..N : outer[i].loop = loop
      BY <1>2, <2>1, <3>1 DEF EmitInv, OpenLoopsAreStacked
    <3>3. QED
      BY <1>2, <1>7, <3>2
  <2>4. QED
    BY <2>2, <2>3
<1>12. Flagged'
  <2>1. ASSUME NEW m \in 1..n
        PROVE  /\ tree[m].kind # "For"
               /\ tree[m].kind = "While" =>
                    /\ HasElse(m) <=> flag'[m] # NoFlag
                    /\ tree[m].loop # 0 /\ HasElse(m) => flag'[m] # flag'[tree[m].loop]
               /\ tree[m].kind = "Break" => flag'[m] = flag'[tree[m].loop]
    <3>1. m \in Nodes /\ m \in Nat
      BY <1>1, <1>2
    <3>2. tree[m].loop \in Nat /\ (tree[m].loop # 0 => tree[m].loop \in Nodes /\ tree[m].loop < m)
      <4>1. tree[m].loop # 0 => tree[m].loop \in 1..m - 1
        BY <3>1, Nesting DEF Nested
      <4>2. tree[m].loop \in Nat
        BY <3>1, NodesAre DEF Statements
      <4>3. QED
        BY <1>2, <3>1, <4>1, <4>2
    <3>3. CASE m = n
      <4>1. HasElse(n) <=> flag'[n] # NoFlag
        BY <1>2, <1>5 DEF NoFlag
      <4>2. ASSUME tree[n].loop # 0, HasElse(n) PROVE flag'[n] # flag'[tree[n].loop]
        <5>1. tree[n].loop = IF outer = <<>> THEN 0 ELSE outer[N].loop
          BY <1>1, CurrentLoop
        <5>2. outer # <<>> /\ tree[n].loop = outer[N].loop /\ N \in 1..N
          <6>1. outer # <<>> => N \in DOMAIN outer
            BY Stack DEF EmitInv
          <6>2. QED
            BY <1>2, <4>2, <5>1, <6>1
        <5>3. flag[outer[N].loop] = IF HasElse(outer[N].loop) THEN N - 1 ELSE NoFlag
          BY <1>2, <5>2 DEF EmitInv, Stacked
        <5>4. flag'[tree[n].loop] = flag[tree[n].loop]
          BY <1>5, <3>2, <3>3, <4>2
        <5>5. QED
          BY <1>2, <1>5, <4>2, <5>2, <5>3, <5>4 DEF NoFlag
      <4>3. QED
        BY <1>1, <3>3, <4>1, <4>2
    <3>4. CASE m # n
      <4>1. m \in 1..emitted
        BY <1>1, <1>2, <3>4
      <4>2. /\ tree[m].kind # "For"
            /\ tree[m].kind = "While" =>
                 /\ HasElse(m) <=> flag[m] # NoFlag
                 /\ tree[m].loop # 0 /\ HasElse(m) => flag[m] # flag[tree[m].loop]
            /\ tree[m].kind = "Break" => flag[m] = flag[tree[m].loop]
        BY <4>1 DEF EmitInv, Flagged
      <4>3. flag'[m] = flag[m]
        BY <1>5, <3>1, <3>4
      <4>4. tree[m].loop \in Nodes => flag'[tree[m].loop] = flag[tree[m].loop]
        <5>1. tree[m].loop # n
          BY <1>2, <3>1, <3>2, <1>1
        <5>2. QED
          BY <1>5, <5>1
      <4>5. tree[m].kind = "Break" => tree[m].loop \in Nodes
        BY <3>1, WhatIsEmitted
      <4>6. QED
        BY <3>2, <4>2, <4>3, <4>4, <4>5
    <3>5. QED
      BY <3>3, <3>4
  <2>2. QED
    BY <1>1, <1>3, <2>1 DEF Flagged
<1>13. QED
  BY <1>9, <1>10, <1>11, <1>12 DEF EmitInv

-----------------------------------------------------------------------------
(* What every state satisfies, however far it has come.                    *)

Accepted ==
  /\ WholeProgram /\ NamesDefined
  /\ LET walked == check_definite_assignment(0, "body", bound_on_entry)
     IN walked.ok /\ names_read_by_defs \intersect module_unbound(walked) = {}

\* Before the run nothing has been executed, before the walk nothing has been written.
Progress ==
  /\ phase \in {"parse", "emit", "refused", "run"}
  /\ phase # "run" => pc = <<"idle", 0>> /\ assigned = {} /\ missed = <<>>
  /\ phase = "parse" => emitted = 0 /\ loop_depth = 0 /\ loop_has_else = FALSE /\ outer = <<>>
  /\ phase = "run" => emitted = Len(tree)

Translated == decl \in Decls /\ TreeOK /\ SourceOrder /\ Progress
              /\ (phase \in {"emit", "run"} => Accepted /\ EmitInv)

\* What the check of the reads has accepted stays accepted: nothing is parsed after it.
LEMMA AcceptedKeeps ==
  ASSUME UNCHANGED <<decl, tree>>
  PROVE  Accepted' <=> Accepted
BY DEF Accepted, WholeProgram, SuiteDue, NamesDefined, GuardName, scope_variables,
       check_definite_assignment, check_suite, walk, bound_on_entry, names_read_by_defs,
       module_unbound, check_statement, ReadOk, Later, Suite, Nodes, Names, Unassigned,
       InFunction

\* Steps that write nothing keep the invariant.
LEMMA StaysTranslated ==
  ASSUME Translated, UNCHANGED <<decl, tree, emitVars>>, Progress',
         phase' \in {"emit", "run"} => phase \in {"emit", "run"}
  PROVE  Translated'
<1>1. TreeOK' /\ Nodes' = Nodes
  BY TreeKeeps, SameTree DEF Translated
<1>2. SourceOrder'
  BY DEF Translated, SourceOrder, Nodes, Legal, InFunction, NamesFor, Names, Unassigned
<1>4. /\ \A n : HasElse(n)' = HasElse(n)
      /\ \A n, u : InBodyOf(n, u)' = InBodyOf(n, u)
  BY SameTree
<1>5. EmitInv => EmitInv'
  <2>1. Written => Written'
    BY <1>1 DEF Written, emitVars, HasElse
  <2>2. Stacked => Stacked'
    BY DEF Stacked, emitVars, HasElse
  <2>3. OpenLoopsAreStacked => OpenLoopsAreStacked'
    BY <1>1, <1>4 DEF OpenLoopsAreStacked, emitVars
  <2>4. Flagged => Flagged'
    BY <1>4 DEF Flagged, emitVars
  <2>5. QED
    BY <2>1, <2>2, <2>3, <2>4 DEF EmitInv
<1>6. QED
  BY <1>1, <1>2, <1>5, AcceptedKeeps DEF Translated

\* The invariant holds of an empty tree.
LEMMA TranslationStarts == Init => Translated
<1>1. SUFFICES ASSUME Init PROVE Translated
  OBVIOUS
<1>2. decl \in Decls /\ tree = <<>> /\ phase = "parse"
  BY <1>1 DEF Init, ProgInit
<1>3. Nodes = {} /\ tree \in Seq(Statements)
  BY <1>2 DEF Nodes
<1>4. TreeOK /\ SourceOrder
  BY <1>3 DEF TreeOK, SourceOrder
<1>5. Progress
  BY <1>1 DEF Init, ProgInit, Progress
<1>6. QED
  BY <1>2, <1>4, <1>5 DEF Translated

\* Every step keeps it, by phase.
LEMMA TranslationKeeps == Translated /\ [Next]_vars => Translated'
<1>1. SUFFICES ASSUME Translated, [Next]_vars PROVE Translated'
  OBVIOUS
<1>2. decl \in Decls /\ TreeOK /\ SourceOrder /\ Progress
  BY <1>1 DEF Translated
<1>3. CASE Parse /\ UNCHANGED <<emitVars, flags, assigned, missed>>
  <2>1. phase = "parse" /\ UNCHANGED <<decl, phase, pc>>
    BY <1>3 DEF Parse, AddStatement
  <2>2. Progress'
    BY <1>2, <1>3, <2>1 DEF Progress, emitVars
  <2>3. QED
    BY <1>2, <1>3, <2>1, <2>2, ParseKeepsTree, ParseKeepsOrder DEF Translated
<1>4. CASE CheckReads
  <2>1. /\ phase = "parse" /\ phase' \in {"emit", "refused"} /\ (phase' = "emit" => Accepted)
        /\ flag' = [n \in Nodes |-> NoFlag]
        /\ UNCHANGED <<decl, tree, pc, assigned, missed, emitted, loop_depth, loop_has_else, outer>>
    BY <1>4 DEF CheckReads, Prepared, runUnchanged, Accepted
  <2>2. emitted = 0 /\ loop_depth = 0 /\ loop_has_else = FALSE /\ outer = <<>>
    BY <1>2, <2>1 DEF Progress
  <2>3. Progress'
    BY <1>2, <2>1 DEF Progress
  <2>4. TreeOK' /\ SourceOrder' /\ Nodes' = Nodes
    BY <1>2, <2>1, TreeKeeps, SameTree
       DEF SourceOrder, Nodes, Legal, InFunction, NamesFor, Names, Unassigned
  <2>5. Written'
    <3>1. Len(tree) \in Nat
      BY <1>2, NodesAre
    <3>2. flag' \in [Nodes' -> {NoFlag} \union Nat]
      BY <2>1, <2>4
    <3>3. loop_depth' = Len(outer')
      BY <2>1, <2>2
    <3>4. loop_has_else' = (outer' # <<>> /\ HasElse(outer[Len(outer)].loop)')
      BY <2>1, <2>2
    <3>5. outer' \in Seq([loop : Nodes', loop_has_else : BOOLEAN])
      BY <2>1, <2>2, EmptySeq
    <3>6. emitted' \in 0..Len(tree')
      BY <2>1, <2>2, <3>1
    <3>7. QED
      BY <3>2, <3>3, <3>4, <3>5, <3>6, Zenon DEF Written
  <2>6. DOMAIN outer' = {} /\ 1..emitted' = {}
    BY <2>1, <2>2
  <2>7. Stacked' /\ OpenLoopsAreStacked' /\ Flagged'
    BY <2>6 DEF Stacked, OpenLoopsAreStacked, Flagged
  <2>8. QED
    BY <1>2, <2>1, <2>3, <2>4, <2>5, <2>7, AcceptedKeeps DEF Translated, EmitInv
<1>5. CASE Emit
  <2>1. /\ phase = "emit"
        /\ UNCHANGED <<decl, tree, pc, assigned, missed>>
        /\ phase' = phase \/ (phase' = "refused" /\ UNCHANGED emitVars)
    BY <1>5 DEF Emit, LeaveLoopBody, EmitWhile, EmitBreak, RefuseFor, EmitPlain, Due, runUnchanged
  <2>2. Progress'
    BY <1>2, <2>1 DEF Progress
  <2>3. CASE phase' = "refused"
    BY <1>1, <2>1, <2>2, <2>3, StaysTranslated
  <2>4. CASE phase' = phase
    <3>1. EmitInv /\ Accepted
      BY <1>1, <2>1 DEF Translated
    <3>2. EmitInv'
      <4>1. CASE LeaveLoopBody
        BY <1>2, <3>1, <4>1, LeaveKeeps
      <4>2. CASE \E n \in Nodes : EmitWhile(n)
        BY <1>2, <3>1, <4>2, WhileKeeps
      <4>3. CASE \E n \in Nodes : EmitBreak(n)
        BY <1>2, <3>1, <4>3, BreakKeeps
      <4>4. CASE \E n \in Nodes : EmitPlain(n)
        BY <1>2, <3>1, <4>4, OtherKeeps
      <4>5. CASE \E n \in Nodes : RefuseFor(n)
        BY <2>1, <2>4, <4>5 DEF RefuseFor
      <4>6. QED
        BY <1>5, <4>1, <4>2, <4>3, <4>4, <4>5 DEF Emit
    <3>3. TreeOK' /\ SourceOrder'
      BY <1>2, <2>1, TreeKeeps
         DEF SourceOrder, Nodes, Legal, InFunction, NamesFor, Names, Unassigned
    <3>4. QED
      BY <1>2, <2>1, <2>2, <3>1, <3>2, <3>3, AcceptedKeeps DEF Translated
  <2>5. QED
    BY <2>1, <2>3, <2>4
<1>6. CASE CppBegin
  <2>1. /\ phase = "emit" /\ phase' = "run" /\ emitted = Len(tree)
        /\ UNCHANGED <<decl, tree, emitVars>>
    BY <1>6 DEF CppBegin
  <2>2. Progress'
    BY <2>1 DEF Progress, emitVars
  <2>3. QED
    BY <1>1, <2>1, <2>2, StaysTranslated
<1>7. CASE CppRun
  <2>1. phase = "run" /\ UNCHANGED <<decl, tree, phase, emitVars>>
    BY <1>7 DEF CppRun, CppExpr, CppAssign, CppReturn, CppEnterLoop, CppIf, CppTest, CppAfter,
                CppBreak, CppContinue, CppNext, CppGoto, CppBranch, progUnchanged, At, AtOneOf
  <2>2. Progress'
    BY <1>2, <2>1 DEF Progress, emitVars
  <2>3. QED
    BY <1>1, <2>1, <2>2, StaysTranslated
<1>8. CASE UNCHANGED vars
  <2>1. UNCHANGED <<decl, tree, phase, pc, emitVars, assigned, missed>>
    BY <1>8 DEF vars, progVars
  <2>2. Progress'
    BY <1>2, <2>1 DEF Progress, emitVars
  <2>3. QED
    BY <1>1, <2>1, <2>2, StaysTranslated
<1>9. QED
  BY <1>1, <1>3, <1>4, <1>5, <1>6, <1>7, <1>8 DEF Next

\* How far the passes have got, what the walk of the reads accepted, and the depth and the
\* flag the emitter keeps for the loops it is in, belong together in every reachable state.
THEOREM Invariance == Spec => []Translated
BY TranslationStarts, TranslationKeeps, PTL DEF Spec

\* Of the loops around a break, its own is the innermost with a flag of that name.
LEMMA OwnLoopDeclares ==
  ASSUME decl \in Decls, TreeOK, SourceOrder, EmitInv, NEW n \in 1..emitted,
         tree[n].kind = "Break"
  PROVE  IF HasElse(tree[n].loop) THEN Declarers(n) # {} /\ Declarer(n) = tree[n].loop
                                       /\ flag[n] # NoFlag
         ELSE flag[n] = NoFlag
<1> DEFINE loop == tree[n].loop
<1>1. /\ emitted \in 0..Len(tree) /\ Len(tree) \in Nat /\ Nodes = 1..Len(tree)
      /\ n \in Nodes /\ n \in Nat /\ emitted \in Nat
  BY NodesAre DEF EmitInv, Written
<1>2. loop \in Nodes /\ loop < n /\ loop # 0 /\ loop \in 1..emitted
  BY <1>1, WhatIsEmitted
<1>3. Nested(n)
  BY <1>1, Nesting
<1>4. loop \in tree[n].within /\ tree[loop].kind = "While"
  BY <1>2, <1>3 DEF Nested, Loops, EmitInv, Flagged
<1>5. flag[n] = flag[loop] /\ (HasElse(loop) <=> flag[loop] # NoFlag)
  BY <1>2, <1>4 DEF EmitInv, Flagged
<1>6. CASE ~HasElse(loop)
  BY <1>5, <1>6
<1>7. CASE HasElse(loop)
  <2>1. loop \in Declarers(n)
    BY <1>4, <1>5 DEF Declarers
  <2>2. ASSUME NEW m \in Declarers(n) PROVE m \in Nat /\ m <= loop
    <3>1. m \in tree[n].within /\ tree[m].kind = "While" /\ flag[m] = flag[n]
      BY DEF Declarers
    <3>2. m \in 1..n - 1
      BY <1>3, <3>1 DEF Nested
    <3>3. m \in 1..emitted /\ m \in Nat /\ loop \in Nat
      BY <1>1, <1>2, <3>2
    <3>4. HasElse(m) /\ (tree[m].loop # 0 => flag[m] # flag[tree[m].loop])
      BY <1>5, <1>7, <3>1, <3>3 DEF EmitInv, Flagged
    <3>5. loop = tree[m].loop \/ loop >= m
      BY <1>3, <3>1 DEF Nested
    <3>6. QED
      BY <1>2, <1>5, <3>1, <3>3, <3>4, <3>5
  <2>3. ASSUME NEW m \in Declarers(n), \A k \in Declarers(n) : k <= m PROVE m = loop
    BY <1>2, <2>1, <2>2, <2>3, NodesAre
  <2>4. Declarer(n) = loop
    BY <2>1, <2>2, <2>3 DEF Declarer
  <2>5. QED
    BY <1>5, <1>7, <2>1, <2>4
<1>8. QED
  BY <1>6, <1>7

\* A break names a flag only if its own loop declares one of that name and no loop
\* between hides it (visit(Break), visit(While)).
THEOREM BreaksFindTheirFlags == Spec => []BreakFindsItsFlag
<1>1. Translated => BreakFindsItsFlag
  BY OwnLoopDeclares DEF Translated, BreakFindsItsFlag
<1>2. QED
  BY <1>1, Invariance, PTL

-----------------------------------------------------------------------------
(* The run: what the walk took for bound where the run now is, is assigned *)
(* (A), and every loop whose body the run is in has its flag down (F).  B  *)
(* is what the walk knew before each statement the run is inside of.       *)

Before(B, u) == IF u = 0 THEN bound_on_entry ELSE B[u]
SuiteOf(B, n) == check_suite(walk, tree[n].up, tree[n].arm, Before(B, tree[n].up))

Follows(n, B) == \A m \in Path(n) : walk[m][B[m]] = SuiteOf(B, m) /\ SuiteOf(B, m).ok
Held(n, B, A) == \A m \in Path(n) : B[m] \subseteq A
Completed(n, B, A) == LET first == check_statement(walk, n, B[n])
                      IN ~first.leaves /\ first.bound \subseteq A
FlagsDown(n, F) ==
  \A m \in Path(n) : tree[m].arm = "body" /\ tree[m].up # 0 /\ tree[tree[m].up].kind = "While"
                       => F[tree[m].up] = FALSE

Sound(where, n, B, A) ==
  /\ Follows(n, B) /\ Held(n, B, A)
  /\ where = "done" => Completed(n, B, A)

OnTrack(where, n, A, F) ==
  /\ where \in {"exec", "done", "test", "after"}
  /\ n \in Nodes
  /\ FlagsDown(n, F)
  /\ where \in {"test", "after"} => tree[n].kind = "While"
  /\ where = "test" => F[n] = FALSE
  /\ \E B \in [Nodes -> SUBSET Names] : Sound(where, n, B, A)

\* Being on track is a matter of the tree, not of the run's other state.
LEMMA TrackKeeps ==
  ASSUME UNCHANGED <<decl, tree>>
  PROVE  \A where, n, A, F : OnTrack(where, n, A, F)' = OnTrack(where, n, A, F)
<1>1. walk' = walk
  BY DEF walk, check_statement, check_suite, ReadOk, GuardName, scope_variables, Later, Suite,
         Nodes, Names
<1>2. Nodes' = Nodes /\ Names' = Names /\ \A n : Path(n)' = Path(n)
  BY DEF Nodes, Names, Path
<1>3. \A w, u, a, b : check_suite(w, u, a, b)' = check_suite(w, u, a, b)
  BY DEF check_suite, Suite
<1>4. \A w, n, b : check_statement(w, n, b)' = check_statement(w, n, b)
  BY DEF check_statement, check_suite, ReadOk, GuardName, scope_variables, Suite, Nodes, Names
<1>5. bound_on_entry' = bound_on_entry
  BY DEF bound_on_entry, InFunction, Names, Unassigned
<1>6. \A n, B : SuiteOf(B, n)' = SuiteOf(B, n)
  BY <1>1, <1>3, <1>5 DEF SuiteOf, Before
<1>7. \A n, B : Follows(n, B)' = Follows(n, B)
  BY <1>1, <1>2, <1>6 DEF Follows
<1>8. \A n, B, A : Completed(n, B, A)' = Completed(n, B, A) /\ Held(n, B, A)' = Held(n, B, A)
  BY <1>1, <1>2, <1>4 DEF Completed, Held
<1>9. \A n, F : FlagsDown(n, F)' = FlagsDown(n, F)
  BY <1>2 DEF FlagsDown
<1>10. QED
  BY <1>2, <1>7, <1>8, <1>9 DEF OnTrack, Sound

\* Of what a run is inside of, the walk refused nothing.
LEMMA StatementIsOk ==
  ASSUME TreeOK, SourceOrder, NEW n \in Nodes, NEW B \in [Nodes -> SUBSET Names], Follows(n, B)
  PROVE  LET first == check_statement(walk, n, B[n])
         IN /\ first \in Walks /\ first.ok
            /\ ~first.leaves /\ Later(tree, n) = {} => SuiteOf(B, n) = first
            /\ ~first.leaves /\ Later(tree, n) # {} =>
                 SuiteOf(B, n) = walk[FirstOf(Later(tree, n))][first.bound]
<1> DEFINE first == check_statement(walk, n, B[n])
           rest == Later(tree, n)
<1>1. B[n] \in SUBSET Names
  OBVIOUS
<1>2. first \in Walks
  BY <1>1, WalksAreWalks
<1>3. walk[n][B[n]] = IF first.leaves \/ ~first.ok \/ rest = {} THEN first
                      ELSE walk[FirstOf(rest)][first.bound]
  BY <1>1, WalkIs
<1>4. walk[n][B[n]] = SuiteOf(B, n) /\ SuiteOf(B, n).ok
  BY DEF Follows, Path
<1> HIDE DEF first, rest
<1>5. first.ok
  BY <1>3, <1>4
<1>6. QED
  BY <1>2, <1>3, <1>4, <1>5 DEF first, rest

\* A compound statement that is ok has its test and both its arms ok.
LEMMA ArmsAreOk ==
  ASSUME TreeOK, SourceOrder, NEW n \in Nodes, NEW b \in SUBSET Names,
         tree[n].kind \in {"If", "While"}, check_statement(walk, n, b).ok
  PROVE  LET body == check_suite(walk, n, "body", b)
             orelse == check_suite(walk, n, "orelse", b)
         IN /\ body.ok /\ orelse.ok /\ body \in Walks /\ orelse \in Walks
            /\ ReadOk(GuardName(n), b)
            /\ tree[n].kind = "If" => check_statement(walk, n, b) = merge_arms(body, orelse)
            /\ tree[n].kind = "While" =>
                 check_statement(walk, n, b) = loop_binds_nothing(b, body, orelse)
<1> DEFINE body == check_suite(walk, n, "body", b)
           orelse == check_suite(walk, n, "orelse", b)
           tested == ReadOk(GuardName(n), b)
           first == check_statement(walk, n, b)
<1>1. /\ tree[n].kind = "If" /\ tested => first = merge_arms(body, orelse)
      /\ tree[n].kind = "While" /\ tested => first = loop_binds_nothing(b, body, orelse)
      /\ tree[n].kind \in {"If", "While"} /\ ~tested => first = Walked(FALSE, FALSE, b)
  BY StatementWalks
<1>2. body \in Walks /\ orelse \in Walks
  BY WalksAreWalks
<1>3. first.ok
  OBVIOUS
<1> HIDE DEF body, orelse, tested, first
<1>4. tested
  BY <1>1, <1>3 DEF Walked
<1>5. /\ merge_arms(body, orelse).ok = (body.ok /\ orelse.ok)
      /\ loop_binds_nothing(b, body, orelse).ok = (body.ok /\ orelse.ok)
  BY DEF merge_arms, loop_binds_nothing, Walked
<1>6. body.ok /\ orelse.ok
  BY <1>1, <1>2, <1>3, <1>4, <1>5
<1>7. QED
  BY <1>1, <1>2, <1>4, <1>6 DEF body, orelse, tested, first

\* Into an arm.
LEMMA GoInto ==
  ASSUME TreeOK, SourceOrder, NEW n \in Nodes, NEW a, Suite(tree, n, a) # {},
         NEW B \in [Nodes -> SUBSET Names], NEW A,
         Follows(n, B), Held(n, B, A), check_suite(walk, n, a, B[n]).ok
  PROVE  LET c == FirstOf(Suite(tree, n, a))
         IN /\ c \in Nodes
            /\ \E C \in [Nodes -> SUBSET Names] : Follows(c, C) /\ Held(c, C, A)
<1> DEFINE c == FirstOf(Suite(tree, n, a))
           C == [B EXCEPT ![c] = B[n]]
<1>1. c \in Nodes /\ n < c /\ tree[c].up = n /\ tree[c].arm = a
  BY Onward
<1>2. check_suite(walk, n, a, B[n]) = walk[c][B[n]]
  BY DEF check_suite
<1> HIDE DEF c
<1>3. n \in Nat /\ c \in Nat /\ Nodes \subseteq Nat /\ n # 0
  BY <1>1, NodesAre
<1>4. Path(c) = {c} \union Path(n)
  BY <1>1, <1>3, Below
<1>5. C \in [Nodes -> SUBSET Names] /\ C[c] = B[n] /\ \A m \in Nodes : m # c => C[m] = B[m]
  BY <1>1
<1> HIDE DEF C
<1>6. ASSUME NEW m \in Path(n)
      PROVE  C[m] = B[m] /\ SuiteOf(C, m) = SuiteOf(B, m) /\ m \in Nodes
  <2>1. m \in Nodes /\ m <= n
    BY PathsAreNodes
  <2>2. m # c
    BY <1>1, <1>3, <2>1
  <2>3. tree[m].up # 0 => tree[m].up \in Nodes /\ tree[m].up < m
    BY <2>1, Below
  <2>4. tree[m].up # c
    BY <1>1, <1>3, <2>1, <2>3
  <2>5. Before(C, tree[m].up) = Before(B, tree[m].up)
    BY <1>5, <2>3, <2>4 DEF Before
  <2>6. QED
    BY <1>5, <2>1, <2>2, <2>5 DEF SuiteOf
<1>7. SuiteOf(C, c) = check_suite(walk, n, a, B[n])
  <2>1. C[n] = B[n]
    BY <1>1, <1>3, <1>5
  <2>2. QED
    BY <1>1, <1>3, <2>1 DEF SuiteOf, Before
<1>8. Follows(c, C)
  <2>1. \A m \in Path(n) : walk[m][C[m]] = SuiteOf(C, m) /\ SuiteOf(C, m).ok
    BY <1>6 DEF Follows
  <2>2. walk[c][C[c]] = SuiteOf(C, c) /\ SuiteOf(C, c).ok
    BY <1>2, <1>5, <1>7
  <2>3. QED
    BY <1>4, <2>1, <2>2 DEF Follows
<1>9. Held(c, C, A)
  <2>1. n \in Path(n)
    BY DEF Path
  <2>2. QED
    BY <1>4, <1>5, <1>6, <2>1 DEF Held
<1>10. QED
  BY <1>1, <1>5, <1>8, <1>9 DEF c

\* Along a suite.
LEMMA GoAlong ==
  ASSUME TreeOK, SourceOrder, NEW n \in Nodes, Later(tree, n) # {},
         NEW B \in [Nodes -> SUBSET Names], NEW A,
         Sound("done", n, B, A)
  PROVE  LET c == FirstOf(Later(tree, n))
         IN /\ c \in Nodes
            /\ \E C \in [Nodes -> SUBSET Names] : Follows(c, C) /\ Held(c, C, A)
<1> DEFINE c == FirstOf(Later(tree, n))
           b == check_statement(walk, n, B[n]).bound
           C == [B EXCEPT ![c] = b]
<1>1. /\ c \in Nodes /\ n < c /\ tree[c].up = tree[n].up /\ tree[c].arm = tree[n].arm
      /\ tree[c].within = tree[n].within
  <2>1. c \in Nodes /\ n < c /\ tree[c].up = tree[n].up /\ tree[c].arm = tree[n].arm
    BY Onward
  <2> HIDE DEF c
  <2>2. c \in Suite(tree, tree[n].up, tree[n].arm)
    BY <2>1 DEF Suite, Nodes
  <2>3. QED
    BY <2>1, <2>2, Neighbours
<1>2. /\ Follows(n, B) /\ Held(n, B, A)
      /\ ~check_statement(walk, n, B[n]).leaves /\ b \subseteq A
  BY DEF Sound, Completed
<1>3. SuiteOf(B, n) = walk[c][b] /\ b \in SUBSET Names
  BY <1>2, StatementIsOk DEF Walks
<1> HIDE DEF c, b
<1>4. n \in Nat /\ c \in Nat /\ Nodes \subseteq Nat
  BY <1>1, NodesAre
<1>5. C \in [Nodes -> SUBSET Names] /\ C[c] = b /\ \A m \in Nodes : m # c => C[m] = B[m]
  BY <1>1, <1>3
<1> HIDE DEF C
<1>6. ASSUME NEW m \in Path(n)
      PROVE  /\ Before(C, tree[m].up) = Before(B, tree[m].up)
             /\ C[m] = B[m] /\ SuiteOf(C, m) = SuiteOf(B, m) /\ m \in Nodes
  <2>1. m \in Nodes /\ m <= n
    BY PathsAreNodes
  <2>2. m # c
    BY <1>1, <1>4, <2>1
  <2>3. tree[m].up # 0 => tree[m].up \in Nodes /\ tree[m].up < m
    BY <2>1, Below
  <2>4. tree[m].up # c
    BY <1>1, <1>4, <2>1, <2>3, NodesAre
  <2>5. Before(C, tree[m].up) = Before(B, tree[m].up)
    BY <1>5, <2>3, <2>4 DEF Before
  <2>6. QED
    BY <1>5, <2>1, <2>2, <2>5 DEF SuiteOf
<1>7. SuiteOf(C, c) = SuiteOf(B, n) /\ SuiteOf(B, n).ok
  <2>1. n \in Path(n)
    BY DEF Path
  <2>2. QED
    BY <1>1, <1>2, <1>6, <2>1 DEF SuiteOf, Follows
<1>8. \A m \in Path(c) : m = c \/ m \in Path(n)
  BY <1>1 DEF Path
<1>9. Follows(c, C)
  <2>1. \A m \in Path(n) : walk[m][C[m]] = SuiteOf(C, m) /\ SuiteOf(C, m).ok
    BY <1>2, <1>6 DEF Follows
  <2>2. walk[c][C[c]] = SuiteOf(C, c) /\ SuiteOf(C, c).ok
    BY <1>3, <1>5, <1>7
  <2>3. QED
    BY <1>8, <2>1, <2>2 DEF Follows
<1>10. Held(c, C, A)
  BY <1>2, <1>5, <1>6, <1>8 DEF Held
<1>11. QED
  BY <1>1, <1>5, <1>9, <1>10 DEF c

\* Out of an arm, and on to what it was written in.
LEMMA GoOut ==
  ASSUME TreeOK, SourceOrder, NEW n \in Nodes, NEW m \in Path(n), NEW B, NEW A, NEW F
  PROVE  /\ m \in Nodes
         /\ Follows(n, B) => Follows(m, B)
         /\ Held(n, B, A) => Held(m, B, A)
         /\ FlagsDown(n, F) => FlagsDown(m, F)
<1>1. m \in Nodes /\ Path(m) \subseteq Path(n)
  BY PathsAreNodes
<1>2. QED
  BY <1>1 DEF Follows, Held, FlagsDown

\* With the last statement of an arm, the statement around it is done as the walk said.
LEMMA OutCompletes ==
  ASSUME TreeOK, SourceOrder, NEW n \in Nodes, tree[n].up # 0, Later(tree, n) = {},
         tree[tree[n].up].kind \in {"If", "While"},
         NEW B \in [Nodes -> SUBSET Names], NEW A, Sound("done", n, B, A)
  PROVE  Sound("done", tree[n].up, B, A)
<1> DEFINE u == tree[n].up
           first == check_statement(walk, n, B[n])
           body == check_suite(walk, u, "body", B[u])
           orelse == check_suite(walk, u, "orelse", B[u])
<1>1. Follows(n, B) /\ Held(n, B, A) /\ ~first.leaves /\ first.bound \subseteq A
  BY DEF Sound, Completed
<1>2. u \in Nodes /\ u \in Path(n) /\ tree[n].arm \in Arms
  BY Below, NodesAre DEF Path, Statements
<1>3. Follows(u, B) /\ Held(u, B, A)
  BY <1>1, <1>2, GoOut
<1>4. B[u] \subseteq A /\ B[u] \in SUBSET Names
  BY <1>1, <1>2 DEF Held
<1>5. check_statement(walk, u, B[u]).ok
  BY <1>2, <1>3, StatementIsOk
<1>6. /\ body \in Walks /\ orelse \in Walks
      /\ tree[u].kind = "If" => check_statement(walk, u, B[u]) = merge_arms(body, orelse)
      /\ tree[u].kind = "While" =>
           check_statement(walk, u, B[u]) = loop_binds_nothing(B[u], body, orelse)
  BY <1>2, <1>4, <1>5, ArmsAreOk
<1>7. SuiteOf(B, n) = first
  BY <1>1, StatementIsOk
<1>8. check_suite(walk, u, tree[n].arm, B[u]) = first
  BY <1>7 DEF SuiteOf, Before
<1>9. first = body \/ first = orelse
  BY <1>2, <1>8 DEF Arms
<1> HIDE DEF body, orelse, first
<1>10. CASE tree[u].kind = "While"
  <2>1. Completed(u, B, A)
    BY <1>4, <1>6, <1>10 DEF Completed, loop_binds_nothing, Walked
  <2>2. QED
    BY <1>3, <2>1 DEF Sound
<1>11. CASE tree[u].kind = "If"
  <2>1. merge_arms(body, orelse).leaves = (body.leaves /\ orelse.leaves)
    BY DEF merge_arms, Walked
  <2>2. merge_arms(body, orelse).bound \subseteq first.bound
    BY <1>1, <1>6, <1>9 DEF merge_arms, Walked, Walks
  <2>3. Completed(u, B, A)
    BY <1>1, <1>6, <1>9, <1>11, <2>1, <2>2 DEF Completed
  <2>4. QED
    BY <1>3, <2>3 DEF Sound
<1>12. QED
  BY <1>10, <1>11

Reaches(where, A, F) ==
  \/ OnTrack(where[1], where[2], A, F)
  \/ where[1] = "returned"
  \/ where[1] = "ended" /\ check_definite_assignment(0, "body", bound_on_entry).bound \subseteq A

\* No for is emitted, and no annotated assignment.
Plain == \A n \in Nodes : tree[n].kind \in AllKinds \ {"For", "Declare"}

\* Entering an arm stays on track.
LEMMA TrackInto ==
  ASSUME TreeOK, SourceOrder, NEW n \in Nodes, NEW a, NEW A, NEW F, NEW o,
         NEW B \in [Nodes -> SUBSET Names],
         tree[n].kind \in {"If", "While"}, Suite(tree, n, a) # {},
         Follows(n, B), Held(n, B, A), check_suite(walk, n, a, B[n]).ok, FlagsDown(n, F),
         ~(a = "body" /\ tree[n].kind = "While") \/ F[n] = FALSE
  PROVE  Reaches(Enter(n, a, o), A, F)
<1> DEFINE c == FirstOf(Suite(tree, n, a))
<1>1. Enter(n, a, o) = <<"exec", c>>
  BY DEF Enter
<1>2. c \in Nodes /\ n < c /\ tree[c].up = n /\ tree[c].arm = a
  BY Onward
<1>3. \E C \in [Nodes -> SUBSET Names] : Follows(c, C) /\ Held(c, C, A)
  BY GoInto
<1> HIDE DEF c
<1>4. n # 0 /\ Path(c) = {c} \union Path(n)
  BY <1>2, NodesAre, Below
<1>5. FlagsDown(c, F)
  BY <1>2, <1>4 DEF FlagsDown
<1>6. OnTrack("exec", c, A, F)
  BY <1>2, <1>3, <1>5 DEF OnTrack, Sound
<1>7. QED
  BY <1>1, <1>6 DEF Reaches

\* A statement that calls, reads or assigns stays on track.
LEMMA TrackSimple ==
  ASSUME TreeOK, SourceOrder, NEW n \in Nodes, NEW A, NEW A2, NEW F,
         OnTrack("exec", n, A, F), A \subseteq A2,
         tree[n].kind \in {"Expr", "Call", "Assign", "Update"},
         tree[n].kind \in {"Assign", "Update"} => tree[n].name \in A2
  PROVE  Reaches(<<"done", n>>, A2, F)
<1>1. PICK B \in [Nodes -> SUBSET Names] : Follows(n, B) /\ Held(n, B, A)
  BY DEF OnTrack, Sound
<1>2. Held(n, B, A2) /\ B[n] \subseteq A2
  BY <1>1 DEF Held, Path
<1> DEFINE first == check_statement(walk, n, B[n])
           read == ReadOk(tree[n].name, B[n])
<1>3. /\ tree[n].kind = "Expr" => first = Walked(read, FALSE, B[n])
      /\ tree[n].kind = "Call" => first = Walked(TRUE, FALSE, B[n])
      /\ tree[n].kind = "Assign" => first = Walked(TRUE, FALSE, B[n] \union {tree[n].name})
      /\ tree[n].kind = "Update" => first = Walked(read, FALSE, B[n] \union {tree[n].name})
  BY StatementWalks DEF Terminators
<1> HIDE DEF first, read
<1>4. Completed(n, B, A2)
  <2>1. ~first.leaves
    BY <1>3 DEF Walked
  <2>2. first.bound \subseteq A2
    BY <1>2, <1>3 DEF Walked
  <2>3. QED
    BY <2>1, <2>2 DEF Completed, first
<1>5. OnTrack("done", n, A2, F)
  BY <1>1, <1>2, <1>4 DEF OnTrack, Sound
<1>6. QED
  BY <1>5 DEF Reaches

\* Either way of an if stays on track.
LEMMA TrackIf ==
  ASSUME TreeOK, WholeProgram, SourceOrder, NEW n \in Nodes, NEW A, NEW F,
         OnTrack("exec", n, A, F), tree[n].kind = "If", NEW o
  PROVE  /\ Reaches(Enter(n, "body", o), A, F)
         /\ Reaches(Enter(n, "orelse", <<"done", n>>), A, F)
<1>1. PICK B \in [Nodes -> SUBSET Names] : Follows(n, B) /\ Held(n, B, A)
  BY DEF OnTrack, Sound
<1> DEFINE body == check_suite(walk, n, "body", B[n])
           orelse == check_suite(walk, n, "orelse", B[n])
<1>2. B[n] \in SUBSET Names /\ B[n] \subseteq A /\ FlagsDown(n, F)
  BY <1>1 DEF Held, Path, OnTrack
<1>3. /\ body.ok /\ orelse.ok /\ body \in Walks
      /\ check_statement(walk, n, B[n]) = merge_arms(body, orelse)
  BY <1>1, <1>2, StatementIsOk, ArmsAreOk
<1>4. Suite(tree, n, "body") # {}
  BY BodiesAreWritten DEF Compound
<1> HIDE DEF body, orelse
<1>5. ASSUME NEW a, Suite(tree, n, a) # {}, check_suite(walk, n, a, B[n]).ok, NEW x
      PROVE  Reaches(Enter(n, a, x), A, F)
  <2>1. tree[n].kind \in {"If", "While"}
    OBVIOUS
  <2>2. ~(a = "body" /\ tree[n].kind = "While")
    OBVIOUS
  <2>3. QED
    BY <1>1, <1>2, <1>5, <2>1, <2>2, TrackInto, Zenon
<1>6. Reaches(Enter(n, "body", o), A, F)
  BY <1>3, <1>4, <1>5 DEF body
<1>7. CASE Suite(tree, n, "orelse") # {}
  BY <1>3, <1>5, <1>7, <1>6 DEF orelse
<1>8. CASE Suite(tree, n, "orelse") = {}
  <2>1. orelse = Walked(TRUE, FALSE, B[n]) /\ Enter(n, "orelse", <<"done", n>>) = <<"done", n>>
    BY <1>8 DEF check_suite, Enter, orelse
  <2>2. Completed(n, B, A)
    <3>1. orelse.leaves = FALSE /\ orelse.bound = B[n]
      BY <2>1 DEF Walked
    <3>2. merge_arms(body, orelse).leaves = (body.leaves /\ orelse.leaves)
      BY DEF merge_arms, Walked
    <3>3. merge_arms(body, orelse).bound \subseteq B[n]
      BY <1>3, <3>1 DEF merge_arms, Walked, Walks
    <3>4. QED
      BY <1>2, <1>3, <3>1, <3>2, <3>3 DEF Completed
  <2>3. OnTrack("done", n, A, F)
    BY <1>1, <1>2, <2>2 DEF OnTrack, Sound
  <2>4. QED
    BY <1>6, <2>1, <2>3 DEF Reaches
<1>9. QED
  BY <1>7, <1>8

\* A loop's test, its body, its end and its else stay on track.
LEMMA TrackLoop ==
  ASSUME TreeOK, WholeProgram, SourceOrder, NEW n \in Nodes, NEW A, NEW F, NEW w,
         OnTrack(w, n, A, F), w # "done", tree[n].kind = "While", NEW o
  PROVE  /\ Reaches(<<"after", n>>, A, F)
         /\ F[n] = FALSE => Reaches(<<"test", n>>, A, F) /\ Reaches(Enter(n, "body", o), A, F)
         /\ Reaches(Enter(n, "orelse", <<"done", n>>), A, F)
         /\ Reaches(<<"done", n>>, A, F)
<1>1. PICK B \in [Nodes -> SUBSET Names] : Follows(n, B) /\ Held(n, B, A)
  BY DEF OnTrack, Sound
<1> DEFINE body == check_suite(walk, n, "body", B[n])
           orelse == check_suite(walk, n, "orelse", B[n])
<1>2. B[n] \in SUBSET Names /\ B[n] \subseteq A /\ FlagsDown(n, F)
  BY <1>1 DEF Held, Path, OnTrack
<1>3. /\ body.ok /\ orelse.ok
      /\ check_statement(walk, n, B[n]) = loop_binds_nothing(B[n], body, orelse)
  BY <1>1, <1>2, StatementIsOk, ArmsAreOk
<1>4. Suite(tree, n, "body") # {}
  BY BodiesAreWritten DEF Compound, Loops
<1> HIDE DEF body, orelse
<1>10. ASSUME NEW a, Suite(tree, n, a) # {}, check_suite(walk, n, a, B[n]).ok,
             a = "body" => F[n] = FALSE, NEW x
      PROVE  Reaches(Enter(n, a, x), A, F)
  <2>1. tree[n].kind \in {"If", "While"}
    OBVIOUS
  <2>2. ~(a = "body" /\ tree[n].kind = "While") \/ F[n] = FALSE
    BY <1>10
  <2>3. QED
    BY <1>1, <1>2, <1>10, <2>1, <2>2, TrackInto, Zenon
<1>5. F[n] = FALSE => Reaches(Enter(n, "body", o), A, F)
  BY <1>3, <1>4, <1>10 DEF body
<1>6. Completed(n, B, A)
  BY <1>2, <1>3 DEF Completed, loop_binds_nothing, Walked
<1>7. /\ OnTrack("after", n, A, F) /\ OnTrack("done", n, A, F)
      /\ F[n] = FALSE => OnTrack("test", n, A, F)
  BY <1>1, <1>2, <1>6 DEF OnTrack, Sound
<1>8. Reaches(Enter(n, "orelse", <<"done", n>>), A, F)
  <2>1. CASE Suite(tree, n, "orelse") # {}
    BY <1>3, <1>10, <2>1 DEF orelse
  <2>2. CASE Suite(tree, n, "orelse") = {}
    <3>1. Enter(n, "orelse", <<"done", n>>) = <<"done", n>>
      BY <2>2 DEF Enter
    <3>2. QED
      BY <1>7, <3>1 DEF Reaches
  <2>3. QED
    BY <2>1, <2>2
<1>9. QED
  BY <1>5, <1>7, <1>8 DEF Reaches

\* A break and a continue go to their loop.
LEMMA TrackOut ==
  ASSUME TreeOK, SourceOrder, Plain, NEW n \in Nodes, NEW A, NEW F, NEW G,
         OnTrack("exec", n, A, F), tree[n].loop # 0,
         \A m \in Nodes : m # tree[n].loop => G[m] = F[m]
  PROVE  LET loop == tree[n].loop
         IN Reaches(<<"after", loop>>, A, G) /\ Reaches(<<"test", loop>>, A, F)
<1> DEFINE loop == tree[n].loop
<1>1. Nested(n) /\ FlagsDown(n, F)
  BY Nesting DEF OnTrack
<1>2. /\ loop \in Path(n) /\ tree[loop].kind \in Loops
      /\ \E m \in Path(n) : tree[m].up = loop /\ tree[m].arm = "body"
  BY <1>1 DEF Nested, Path
<1>3. loop \in Nodes /\ tree[loop].kind = "While"
  BY <1>2, GoOut DEF Plain, Loops
<1>4. F[loop] = FALSE
  BY <1>1, <1>2, <1>3 DEF FlagsDown
<1>5. PICK B \in [Nodes -> SUBSET Names] : Follows(n, B) /\ Held(n, B, A)
  BY DEF OnTrack, Sound
<1>6. Follows(loop, B) /\ Held(loop, B, A) /\ FlagsDown(loop, F)
  BY <1>1, <1>2, <1>5, GoOut
<1>7. FlagsDown(loop, G)
  <2> HIDE DEF loop
  <2>1. SUFFICES ASSUME NEW m \in Path(loop), tree[m].arm = "body", tree[m].up # 0,
                        tree[tree[m].up].kind = "While"
                 PROVE  G[tree[m].up] = FALSE
    BY DEF FlagsDown
  <2>2. m \in Nodes /\ m <= loop /\ Nodes \subseteq Nat
    BY <1>3, PathsAreNodes, NodesAre
  <2>3. tree[m].up \in Nodes /\ tree[m].up < m
    BY <2>1, <2>2, Below
  <2>4. tree[m].up # loop
    BY <1>3, <2>2, <2>3
  <2>5. QED
    BY <1>6, <2>1, <2>3, <2>4 DEF FlagsDown, loop
<1>8. OnTrack("after", loop, A, G) /\ OnTrack("test", loop, A, F)
  BY <1>3, <1>4, <1>5, <1>6, <1>7 DEF OnTrack, Sound
<1>9. QED
  BY <1>8 DEF Reaches

\* On from a statement.
LEMMA TrackNext ==
  ASSUME TreeOK, SourceOrder, Plain, NEW n \in Nodes, NEW A, NEW F,
         OnTrack("done", n, A, F)
  PROVE  LET up == tree[n].up
             later == Later(tree, n)
         IN Reaches(CASE later # {} -> <<"exec", FirstOf(later)>>
                      [] later = {} /\ up = 0 -> <<"ended", 0>>
                      [] later = {} /\ up # 0 /\ tree[up].kind = "While" /\ tree[n].arm = "body"
                           -> <<"test", up>>
                      [] OTHER -> <<"done", up>>, A, F)
<1> DEFINE up == tree[n].up
           later == Later(tree, n)
           where == CASE later # {} -> <<"exec", FirstOf(later)>>
                      [] later = {} /\ up = 0 -> <<"ended", 0>>
                      [] later = {} /\ up # 0 /\ tree[up].kind = "While" /\ tree[n].arm = "body"
                           -> <<"test", up>>
                      [] OTHER -> <<"done", up>>
<1>1. PICK B \in [Nodes -> SUBSET Names] : Sound("done", n, B, A)
  BY DEF OnTrack
<1>2. FlagsDown(n, F)
  BY DEF OnTrack
<1>3. CASE later # {}
  <2> DEFINE c == FirstOf(later)
  <2>1. /\ c \in Nodes /\ tree[c].up = up /\ tree[c].arm = tree[n].arm
        /\ \E C \in [Nodes -> SUBSET Names] : Follows(c, C) /\ Held(c, C, A)
    BY <1>1, <1>3, GoAlong, Onward
  <2>2. where = <<"exec", c>>
    BY <1>3
  <2> HIDE DEF c, where
  <2>3. c \in Suite(tree, up, tree[n].arm)
    BY <2>1 DEF Suite, Nodes
  <2>4. tree[c].within = tree[n].within
    BY <2>3, Neighbours
  <2>5. FlagsDown(c, F)
    BY <1>2, <2>1, <2>4 DEF FlagsDown, Path
  <2>6. OnTrack("exec", c, A, F)
    BY <2>1, <2>5 DEF OnTrack, Sound
  <2>7. QED
    BY <2>2, <2>6 DEF Reaches, where
<1>4. CASE later = {} /\ up = 0
  <2>1. where = <<"ended", 0>>
    BY <1>4
  <2>2. SuiteOf(B, n) = check_statement(walk, n, B[n])
    BY <1>1, <1>4, StatementIsOk DEF Sound, Completed
  <2>3. Placed(n)
    BY DEF TreeOK
  <2>4. SuiteOf(B, n) = check_definite_assignment(0, "body", bound_on_entry)
    BY <1>4, <2>3 DEF Placed, SuiteOf, Before, check_definite_assignment
  <2>5. check_definite_assignment(0, "body", bound_on_entry).bound \subseteq A
    BY <1>1, <2>2, <2>4 DEF Sound, Completed
  <2> HIDE DEF where
  <2>6. QED
    BY <2>1, <2>5 DEF Reaches, where
<1>5. CASE later = {} /\ up # 0
  <2>1. up \in Nodes /\ up \in Path(n) /\ tree[up].kind \in Compound
    BY <1>5, Below DEF Path
  <2>2. tree[up].kind \in {"If", "While"}
    BY <2>1 DEF Plain, Compound, Loops
  <2>3. Follows(up, B) /\ Held(up, B, A) /\ FlagsDown(up, F)
    BY <1>1, <1>2, <2>1, GoOut DEF Sound
  <2>4. Sound("done", up, B, A)
    BY <1>1, <1>5, <2>2, OutCompletes
  <2>5. CASE tree[up].kind = "While" /\ tree[n].arm = "body"
    <3>1. where = <<"test", up>>
      BY <1>5, <2>5
    <3>2. F[up] = FALSE
      BY <1>2, <1>5, <2>5 DEF FlagsDown, Path
    <3> HIDE DEF where
    <3>3. OnTrack("test", up, A, F)
      BY <2>1, <2>3, <2>5, <3>2 DEF OnTrack, Sound
    <3>4. QED
      BY <3>1, <3>3 DEF Reaches, where
  <2>6. CASE ~(tree[up].kind = "While" /\ tree[n].arm = "body")
    <3>1. where = <<"done", up>>
      BY <1>5, <2>6
    <3> HIDE DEF where
    <3>2. OnTrack("done", up, A, F)
      BY <2>1, <2>3, <2>4 DEF OnTrack, Sound
    <3>3. QED
      BY <3>1, <3>2 DEF Reaches, where
  <2>7. QED
    BY <2>5, <2>6
<1>6. QED
  BY <1>3, <1>4, <1>5

\* The first statement is on track: what the walk began with is bound.
LEMMA TrackBegin ==
  ASSUME TreeOK, Accepted, Unassigned \subseteq Names, NEW F
  PROVE  Reaches(Enter(0, "body", <<"ended", 0>>), Names \ Unassigned, F)
<1> DEFINE s == Suite(tree, 0, "body")
           c == FirstOf(s)
           B == [n \in Nodes |-> bound_on_entry]
<1>1. s # {}
  <2>1. tree # <<>> /\ tree \in Seq(Statements)
    BY DEF Accepted, WholeProgram, TreeOK
  <2>2. 1 \in Nodes
    BY <2>1, EmptySeq DEF Nodes
  <2>3. Placed(1) /\ tree[1].up = 0 /\ tree[1].arm = "body"
    <3>1. Placed(1)
      BY <2>2 DEF TreeOK
    <3>2. tree[1].up \in 0..0
      BY <3>1 DEF Placed
    <3>3. tree[1].up = 0
      BY <3>2
    <3>4. QED
      BY <3>1, <3>3 DEF Placed
  <2>4. QED
    BY <2>2, <2>3 DEF Suite, Nodes
<1>2. c \in Nodes /\ tree[c].up = 0 /\ tree[c].arm = "body"
  BY <1>1, FirstOfSuite
<1>3. /\ check_suite(walk, 0, "body", bound_on_entry) = walk[c][bound_on_entry]
      /\ Enter(0, "body", <<"ended", 0>>) = <<"exec", c>>
  BY <1>1 DEF check_suite, Enter
<1>4. check_suite(walk, 0, "body", bound_on_entry).ok
  BY DEF Accepted, check_definite_assignment
<1> HIDE DEF c
<1>5. Path(c) = {c}
  BY <1>2 DEF TreeOK, Placed, Path
<1>6. bound_on_entry \in SUBSET Names /\ bound_on_entry \subseteq Names \ Unassigned
  BY DEF bound_on_entry
<1>7. B \in [Nodes -> SUBSET Names] /\ B[c] = bound_on_entry
  BY <1>2, <1>6
<1> HIDE DEF B
<1>8. SuiteOf(B, c) = check_suite(walk, 0, "body", bound_on_entry)
  BY <1>2 DEF SuiteOf, Before
<1>9. Follows(c, B)
  BY <1>3, <1>4, <1>5, <1>7, <1>8 DEF Follows
<1>10. Held(c, B, Names \ Unassigned) /\ FlagsDown(c, F)
  BY <1>2, <1>5, <1>6, <1>7 DEF Held, FlagsDown
<1>11. OnTrack("exec", c, Names \ Unassigned, F)
  BY <1>2, <1>7, <1>9, <1>10 DEF OnTrack, Sound
<1>12. QED
  BY <1>3, <1>11 DEF Reaches

\* Where the run is, what is assigned and what the flags are, as one.
Running == \E where, A, F : /\ where = pc /\ A = assigned /\ F = flags
                            /\ Reaches(where, A, F)

RunInv ==
  phase = "run" => /\ Names \ Unassigned \subseteq assigned
                   /\ env \in [Names -> Truth]
                   /\ flags \in [Nodes -> BOOLEAN]
                   /\ Running

\* A place that is on track, with what is assigned and the flags, restores the invariant.
LEMMA Arrives ==
  ASSUME UNCHANGED <<decl, tree>>, NEW where, NEW A, NEW F,
         where = pc', A = assigned', F = flags', Reaches(where, A, F),
         Names \ Unassigned \subseteq A, env' \in [Names -> Truth], F \in [Nodes -> BOOLEAN]
  PROVE  RunInv'
<1>1. check_definite_assignment(0, "body", bound_on_entry)'
        = check_definite_assignment(0, "body", bound_on_entry)
  BY DEF check_definite_assignment, check_suite, walk, bound_on_entry, check_statement, ReadOk,
         GuardName, scope_variables, Later, Suite, Nodes, Names, Unassigned, InFunction
<1>2. \A w, m, X, G : OnTrack(w, m, X, G)' = OnTrack(w, m, X, G)
  BY TrackKeeps
<1>3. Reaches(where, A, F)'
  BY <1>1, <1>2 DEF Reaches
<1>4. Running'
  BY <1>3 DEF Running
<1>5. QED
  BY <1>4 DEF RunInv, Names, Unassigned, Nodes

\* What a state of the run is.
LEMMA Underway ==
  ASSUME Translated, RunInv, phase = "run"
  PROVE  /\ TreeOK /\ SourceOrder /\ Accepted /\ Plain /\ WholeProgram /\ EmitInv
         /\ decl \in Decls /\ emitted = Len(tree) /\ Nodes = 1..Len(tree)
         /\ Names \ Unassigned \subseteq assigned
         /\ env \in [Names -> Truth] /\ flags \in [Nodes -> BOOLEAN]
         /\ Reaches(pc, assigned, flags)
         /\ pc[1] \in {"exec", "done", "test", "after"} =>
              OnTrack(pc[1], pc[2], assigned, flags) /\ pc[2] \in Nodes
<1>1. /\ TreeOK /\ SourceOrder /\ Accepted /\ EmitInv /\ decl \in Decls /\ emitted = Len(tree)
      /\ WholeProgram
  BY DEF Translated, Progress, Accepted
<1>2. Nodes = 1..Len(tree)
  BY <1>1, NodesAre
<1>3. Plain
  <2>1. ASSUME NEW n \in Nodes PROVE tree[n].kind \in AllKinds \ {"For", "Declare"}
    <3>1. tree[n].kind # "Declare" /\ tree[n].kind \in AllKinds
      BY <1>1, WhatIsEmitted
    <3>2. tree[n].kind # "For"
      BY <1>1, <1>2 DEF EmitInv, Flagged
    <3>3. QED
      BY <3>1, <3>2
  <2>2. QED
    BY <2>1 DEF Plain
<1>4. /\ Names \ Unassigned \subseteq assigned
      /\ env \in [Names -> Truth] /\ flags \in [Nodes -> BOOLEAN]
      /\ Running
  BY DEF RunInv
<1>5. PICK where, A, F : /\ where = pc /\ A = assigned /\ F = flags
                         /\ Reaches(where, A, F)
  BY <1>4 DEF Running
<1>6. Reaches(pc, assigned, flags)
  BY <1>5
<1>7. pc[1] \in {"exec", "done", "test", "after"} => OnTrack(pc[1], pc[2], assigned, flags)
  BY <1>6 DEF Reaches
<1>8. QED
  BY <1>1, <1>2, <1>3, <1>4, <1>6, <1>7 DEF OnTrack

\* Every step of the emitted program keeps the invariant of the run.
LEMMA RunKeeps ==
  ASSUME Translated, RunInv, [Next]_vars
  PROVE  RunInv'
<1>1. CASE CppBegin
  <2>1. /\ phase = "emit" /\ pc' = Enter(0, "body", <<"ended", 0>>)
        /\ env' \in [Names -> Truth] /\ assigned' = Names \ Unassigned
        /\ flags' = [n \in Nodes |-> FALSE] /\ UNCHANGED <<decl, tree>>
    BY <1>1 DEF CppBegin
  <2>2. Accepted /\ TreeOK /\ Unassigned \subseteq Names
    BY <2>1, DeclOK DEF Translated
  <2>3. \A F : Reaches(Enter(0, "body", <<"ended", 0>>), Names \ Unassigned, F)
    BY <2>2, TrackBegin
  <2>4. flags' \in [Nodes -> BOOLEAN]
    BY <2>1
  <2>5. QED
    BY <2>1, <2>3, <2>4, Arrives
<1>2. ASSUME phase = "run", CppRun PROVE RunInv'
  <2> DEFINE n == pc[2]
             kind == tree[n].kind
  <2>1. /\ TreeOK /\ SourceOrder /\ Plain /\ WholeProgram /\ EmitInv
        /\ decl \in Decls /\ emitted = Len(tree) /\ Nodes = 1..Len(tree)
        /\ Names \ Unassigned \subseteq assigned
        /\ env \in [Names -> Truth] /\ flags \in [Nodes -> BOOLEAN]
        /\ pc[1] \in {"exec", "done", "test", "after"} =>
             OnTrack(pc[1], n, assigned, flags) /\ n \in Nodes
    BY <1>2, Underway
  <2>2. UNCHANGED <<decl, tree>>
    BY <1>2 DEF CppRun, CppExpr, CppAssign, CppReturn, CppEnterLoop, CppIf, CppTest, CppAfter,
                CppBreak, CppContinue, CppNext, CppGoto, CppBranch, progUnchanged, At, AtOneOf
  <2> HIDE DEF n
  <2>3. CASE CppExpr
    <3>1. /\ pc[1] = "exec" /\ kind \in {"Expr", "Call"} /\ pc' = <<"done", n>>
          /\ UNCHANGED <<env, flags, assigned>>
      BY <2>3 DEF CppExpr, AtOneOf, CppGoto, n
    <3>2. Reaches(<<"done", n>>, assigned, flags)
      BY <2>1, <3>1, TrackSimple
    <3>3. QED
      BY <2>1, <2>2, <3>1, <3>2, Arrives
  <2>4. CASE CppAssign
    <3>1. /\ pc[1] = "exec" /\ kind \in {"Assign", "Update"} /\ pc' = <<"done", n>>
          /\ assigned' = assigned \union {tree[n].name} /\ flags' = flags
          /\ \E v \in Truth : env' = [env EXCEPT ![tree[n].name] = v]
      BY <2>4 DEF CppAssign, AtOneOf, CppGoto, n
    <3>2. env' \in [Names -> Truth]
      BY <2>1, <3>1
    <3>3. Reaches(<<"done", n>>, assigned \union {tree[n].name}, flags)
      BY <2>1, <3>1, TrackSimple
    <3>4. QED
      BY <2>1, <2>2, <3>1, <3>2, <3>3, Arrives
  <2>5. CASE CppReturn
    <3>1. pc' = <<"returned", n>> /\ UNCHANGED <<env, flags, assigned>>
      BY <2>5 DEF CppReturn, CppGoto, n
    <3>2. Reaches(<<"returned", n>>, assigned, flags)
      BY DEF Reaches
    <3>3. QED
      BY <2>1, <2>2, <3>1, <3>2, Arrives
  <2>6. CASE CppEnterLoop
    <3>1. /\ pc[1] = "exec" /\ kind = "While" /\ pc' = <<"test", n>>
          /\ flags' = [flags EXCEPT ![n] = FALSE] /\ UNCHANGED <<env, assigned>>
      BY <2>6 DEF CppEnterLoop, At, AtOneOf, CppGoto, n
    <3>2. PICK G : G = [flags EXCEPT ![n] = FALSE]
      OBVIOUS
    <3>3. /\ G \in [Nodes -> BOOLEAN] /\ G[n] = FALSE
          /\ \A m \in Nodes : G[m] = IF m = n THEN FALSE ELSE flags[m]
      BY <2>1, <3>1, <3>2
    <3>4. OnTrack("exec", n, assigned, G)
      <4>1. FlagsDown(n, flags)
        BY <2>1, <3>1 DEF OnTrack
      <4>2. ASSUME NEW m \in Path(n), tree[m].arm = "body", tree[m].up # 0,
                   tree[tree[m].up].kind = "While"
            PROVE  G[tree[m].up] = FALSE
        <5>1. tree[m].up \in Nodes
          BY <2>1, <3>1, <4>2, PathsAreNodes, Below
        <5>2. flags[tree[m].up] = FALSE
          BY <4>1, <4>2 DEF FlagsDown
        <5>3. QED
          BY <3>3, <5>1, <5>2
      <4>3. QED
        BY <2>1, <3>1, <4>2 DEF OnTrack, FlagsDown
    <3>5. Reaches(<<"test", n>>, assigned, G)
      BY <2>1, <3>1, <3>3, <3>4, TrackLoop
    <3>6. QED
      BY <2>1, <2>2, <3>1, <3>2, <3>3, <3>5, Arrives
  <2>7. CASE CppIf
    <3>1. /\ pc[1] = "exec" /\ kind = "If" /\ UNCHANGED <<env, flags, assigned>>
          /\ \/ pc' = Enter(n, "body", Enter(n, "orelse", <<"done", n>>))
             \/ pc' = Enter(n, "orelse", <<"done", n>>)
      BY <2>7 DEF CppIf, At, AtOneOf, CppBranch, CppGoto, n
    <3>2. Reaches(pc', assigned, flags)
      BY <2>1, <3>1, TrackIf
    <3>3. QED
      BY <2>1, <2>2, <3>1, <3>2, Arrives
  <2>8. CASE CppTest
    <3>1. /\ pc[1] = "test" /\ UNCHANGED <<env, flags, assigned>>
          /\ pc' = Enter(n, "body", <<"after", n>>) \/ pc' = <<"after", n>>
      BY <2>8 DEF CppTest, CppBranch, CppGoto, n
    <3>2. kind = "While" /\ flags[n] = FALSE
      BY <2>1, <3>1 DEF OnTrack
    <3>3. Reaches(pc', assigned, flags)
      BY <2>1, <3>1, <3>2, TrackLoop
    <3>4. QED
      BY <2>1, <2>2, <3>1, <3>3, Arrives
  <2>9. CASE CppAfter
    <3>1. /\ pc[1] = "after" /\ UNCHANGED <<env, flags, assigned>>
          /\ pc' = Enter(n, "orelse", <<"done", n>>) \/ pc' = <<"done", n>>
      BY <2>9 DEF CppAfter, AfterLoop, CppGoto, n
    <3>2. kind = "While"
      BY <2>1, <3>1 DEF OnTrack
    <3>3. Reaches(pc', assigned, flags)
      BY <2>1, <3>1, <3>2, TrackLoop
    <3>4. QED
      BY <2>1, <2>2, <3>1, <3>3, Arrives
  <2>10. CASE CppBreak
    <3>1. /\ pc[1] = "exec" /\ kind = "Break" /\ UNCHANGED <<env, assigned>>
          /\ pc' = <<"after", tree[n].loop>>
          /\ flags' = IF flag[n] = NoFlag THEN flags ELSE [flags EXCEPT ![Declarer(n)] = TRUE]
      BY <2>10 DEF CppBreak, At, AtOneOf, CppGoto, n
    <3>2. n \in 1..emitted /\ n \in Nodes /\ tree[n].loop # 0
      BY <2>1, <3>1, WhatIsEmitted
    <3>3. flag[n] # NoFlag => Declarer(n) = tree[n].loop
      BY <2>1, <3>1, <3>2, OwnLoopDeclares
    <3>4. PICK G : G = flags'
      OBVIOUS
    <3>5. G \in [Nodes -> BOOLEAN] /\ \A m \in Nodes : m # tree[n].loop => G[m] = flags[m]
      BY <2>1, <3>1, <3>3, <3>4
    <3>6. Reaches(<<"after", tree[n].loop>>, assigned, G)
      BY <2>1, <3>1, <3>2, <3>5, TrackOut
    <3>7. QED
      BY <2>1, <2>2, <3>1, <3>4, <3>5, <3>6, Arrives
  <2>11. CASE CppContinue
    <3>1. /\ pc[1] = "exec" /\ kind = "Continue" /\ UNCHANGED <<env, flags, assigned>>
          /\ pc' = <<"test", tree[n].loop>>
      BY <2>11 DEF CppContinue, At, AtOneOf, CppGoto, n
    <3>2. n \in Nodes /\ tree[n].loop # 0
      BY <2>1, <3>1, WhatIsEmitted
    <3>3. Reaches(<<"test", tree[n].loop>>, assigned, flags)
      BY <2>1, <3>1, <3>2, TrackOut
    <3>4. QED
      BY <2>1, <2>2, <3>1, <3>3, Arrives
  <2>12. CASE CppNext
    <3>1. /\ pc[1] = "done" /\ UNCHANGED <<env, flags, assigned>>
          /\ LET up == tree[n].up
                 later == Later(tree, n)
             IN pc' = CASE later # {} -> <<"exec", FirstOf(later)>>
                        [] later = {} /\ up = 0 -> <<"ended", 0>>
                        [] later = {} /\ up # 0 /\ tree[up].kind = "While" /\ tree[n].arm = "body"
                             -> <<"test", up>>
                        [] OTHER -> <<"done", up>>
      BY <2>12 DEF CppNext, CppGoto, n
    <3>2. Reaches(pc', assigned, flags)
      BY <2>1, <3>1, TrackNext
    <3>3. QED
      BY <2>1, <2>2, <3>1, <3>2, Arrives
  <2>13. QED
    BY <1>2, <2>3, <2>4, <2>5, <2>6, <2>7, <2>8, <2>9, <2>10, <2>11, <2>12 DEF CppRun
<1>3. CASE UNCHANGED vars
  <2>1. UNCHANGED <<decl, tree, phase, pc, env, assigned, flags>>
    BY <1>3 DEF vars, progVars
  <2>2. CASE phase = "run"
    BY <2>1, <2>2, Underway, Arrives
  <2>3. QED
    BY <2>1, <2>2 DEF RunInv
<1>4. CASE phase' # "run"
  BY <1>4 DEF RunInv
<1>5. Parse => phase' # "run"
  <2>1. Parse => phase = "parse" /\ phase' = phase
    BY DEF Parse, AddStatement
  <2>2. QED
    BY <2>1
<1>6. CheckReads \/ Emit => phase' # "run"
  BY DEF CheckReads, Emit, LeaveLoopBody, EmitWhile, EmitBreak, RefuseFor, EmitPlain, Due
<1>7. CppRun => phase = "run"
  BY DEF CppRun, CppExpr, CppAssign, CppReturn, CppEnterLoop, CppIf, CppTest, CppAfter,
         CppBreak, CppContinue, CppNext, CppGoto, CppBranch, progUnchanged, At, AtOneOf
<1>8. QED
  BY <1>1, <1>2, <1>3, <1>4, <1>5, <1>6, <1>7 DEF Next

\* Before the run there is nothing to show.
LEMMA RunStarts == Init => RunInv
BY DEF Init, ProgInit, RunInv

\* Where the run is, is a place and a statement.
AtAPlace == phase = "run" => pc = <<pc[1], pc[2]>>

\* Entering an arm comes to a place and a statement.
LEMMA EntersPlaces == \A n, a, k, m : \E h, c : Enter(n, a, <<k, m>>) = <<h, c>>
BY DEF Enter

\* Every step of the run goes to a place and a statement.
LEMMA StaysPlaced ==
  ASSUME AtAPlace, [Next]_vars
  PROVE  AtAPlace'
<1>1. CASE phase = "emit" /\ CppBegin
  <2>1. pc' = Enter(0, "body", <<"ended", 0>>)
    BY <1>1 DEF CppBegin
  <2>2. PICK h, c : pc' = <<h, c>>
    BY <2>1, EntersPlaces
  <2>3. QED
    BY <2>2 DEF AtAPlace
<1>2. CASE CppRun
  <2> DEFINE n == pc[2]
             last == Enter(n, "orelse", <<"done", n>>)
  <2>1. \/ \E k, m : pc' = <<k, m>>
        \/ pc' = last \/ pc' = Enter(n, "body", last)
        \/ pc' = Enter(n, "body", <<"after", n>>)
    <3>1. CASE CppExpr \/ CppAssign \/ CppReturn \/ CppEnterLoop \/ CppBreak \/ CppContinue
      BY <3>1 DEF CppExpr, CppAssign, CppReturn, CppEnterLoop, CppBreak, CppContinue, CppGoto
    <3>2. CASE CppIf
      BY <3>2 DEF CppIf, CppBranch, CppGoto
    <3>3. CASE CppTest
      BY <3>3 DEF CppTest, CppBranch, CppGoto
    <3>4. CASE CppAfter
      BY <3>4 DEF CppAfter, AfterLoop, CppGoto
    <3>5. CASE CppNext
      <4> DEFINE later == Later(tree, n)
                 up == tree[n].up
                 again == up # 0 /\ tree[up].kind = "While" /\ tree[n].arm = "body"
      <4>1. pc' = CASE later # {} -> <<"exec", FirstOf(later)>>
                    [] later = {} /\ up = 0 -> <<"ended", 0>>
                    [] later = {} /\ up # 0 /\ tree[up].kind = "While" /\ tree[n].arm = "body"
                         -> <<"test", up>>
                    [] OTHER -> <<"done", up>>
        BY <3>5 DEF CppNext, CppGoto
      <4> HIDE DEF later, up
      <4>2. QED
        BY <4>1
    <3>6. QED
      BY <1>2, <3>1, <3>2, <3>3, <3>4, <3>5 DEF CppRun
  <2>2. PICK k, m : last = <<k, m>>
    BY EntersPlaces
  <2> HIDE DEF last
  <2>3. PICK h, c : pc' = <<h, c>>
    <3>1. CASE pc' = Enter(n, "body", last)
      <4>1. \E h, c : Enter(n, "body", <<k, m>>) = <<h, c>>
        BY EntersPlaces
      <4>2. QED
        BY <2>2, <3>1, <4>1
    <3>2. CASE pc' = Enter(n, "body", <<"after", n>>)
      BY <3>2, EntersPlaces
    <3>3. QED
      BY <2>1, <2>2, <3>1, <3>2
  <2>4. QED
    BY <2>3 DEF AtAPlace
<1>3. CASE UNCHANGED <<phase, pc>>
  BY <1>3 DEF AtAPlace
<1>4. CASE phase' # "run"
  BY <1>4 DEF AtAPlace
<1>5. QED
  <2>1. ASSUME CheckReads PROVE phase' # "run"
    BY <2>1 DEF CheckReads
  <2>2. ASSUME Emit PROVE phase' # "run"
    BY <2>2 DEF Emit, LeaveLoopBody, EmitWhile, EmitBreak, RefuseFor, EmitPlain, Due
  <2>3. ASSUME Parse PROVE phase' # "run"
    BY <2>3 DEF Parse, AddStatement
  <2>4. ASSUME CppBegin PROVE phase = "emit"
    BY <2>4 DEF CppBegin
  <2>5. QED
    BY <1>1, <1>2, <1>3, <1>4, <2>1, <2>2, <2>3, <2>4 DEF Next, vars, progVars

\* The inductive invariant.
IInv == Translated /\ RunInv /\ AtAPlace

\* Wherever the run of the C++ is, the statements around it were accepted from names that
\* are assigned by now, and the flags of the loops being run are down.
THEOREM RunInvariance == Spec => []IInv
<1>1. Init => IInv
  BY TranslationStarts, RunStarts DEF IInv, AtAPlace, Init, ProgInit
<1>2. IInv /\ [Next]_vars => IInv'
  BY TranslationKeeps, RunKeeps, StaysPlaced DEF IInv
<1>3. QED
  BY <1>1, <1>2, PTL DEF Spec

\* What a def reads has a value by the end of the module's body, whichever way the body
\* went: what check_definite_assignment takes for bound at its end is assigned then, and
\* module_unbound_ withholds the rest.
THEOREM GlobalsAreBoundAtTheEnd == Spec => []GlobalsOfDefsAreBoundAtTheEnd
<1>1. IInv => GlobalsOfDefsAreBoundAtTheEnd
  <2>1. SUFFICES ASSUME IInv, phase = "run", pc[1] = "ended"
                 PROVE  names_read_by_defs \subseteq assigned
    BY DEF GlobalsOfDefsAreBoundAtTheEnd
  <2>2. /\ TreeOK /\ SourceOrder /\ Accepted /\ decl \in Decls
        /\ Names \ Unassigned \subseteq assigned /\ Reaches(pc, assigned, flags)
    BY <2>1, Underway DEF IInv
  <2> DEFINE walked == check_definite_assignment(0, "body", bound_on_entry)
  <2>3. walked.bound \subseteq assigned
    BY <2>1, <2>2 DEF Reaches, OnTrack
  <2>4. names_read_by_defs \intersect (scope_variables \ walked.bound) = {} /\ NamesDefined
    BY <2>2 DEF Accepted, module_unbound
  <2> HIDE DEF walked
  <2>5. ASSUME NEW n \in Nodes, tree[n].kind = "Call"
        PROVE  tree[n].name \in assigned
    <3>1. tree[n].name \in NamesFor("Call")
      BY <2>2, <2>5 DEF SourceOrder
    <3>2. tree[n].name \in Unassigned
      BY <3>1 DEF NamesFor, Stores
    <3>3. tree[n].name \in scope_variables
      BY <2>4, <2>5, <3>2 DEF NamesDefined, Readers
    <3>4. tree[n].name \in names_read_by_defs
      BY <2>5 DEF names_read_by_defs
    <3>5. QED
      BY <2>3, <2>4, <3>3, <3>4
  <2>6. QED
    BY <2>5 DEF names_read_by_defs
<1>2. QED
  BY <1>1, RunInvariance, PTL

-----------------------------------------------------------------------------
(* The run of the C++ is a run of the Python.                              *)

\* Python reads the same tree.
LEMMA SameTrees ==
  /\ Py!Names = Names /\ Py!Unassigned = Unassigned /\ Py!InFunction = InFunction
  /\ Py!Nodes = Nodes /\ Py!Truth = Truth
  /\ \A t, u, a : Py!Suite(t, u, a) = Suite(t, u, a)
  /\ \A S : Py!FirstOf(S) = FirstOf(S)
  /\ \A t, n : Py!Later(t, n) = Later(t, n)
  /\ \A u, a, o : Py!Enter(u, a, o) = Enter(u, a, o)
<1>1. Py!Names = Names /\ Py!Unassigned = Unassigned /\ Py!InFunction = InFunction
      /\ Py!Nodes = Nodes /\ Py!Truth = Truth
  BY DEF Py!Names, Names, Py!Unassigned, Unassigned, Py!InFunction, InFunction, Py!Nodes, Nodes,
         Py!Truth, Truth
<1>2. \A t, u, a : Py!Suite(t, u, a) = Suite(t, u, a)
  BY DEF Py!Suite, Suite
<1>3. \A S : Py!FirstOf(S) = FirstOf(S)
  BY DEF Py!FirstOf, FirstOf
<1>4. \A t, n : Py!Later(t, n) = Later(t, n)
  BY <1>2 DEF Py!Later, Later
<1>5. \A u, a, o : Py!Enter(u, a, o) = Enter(u, a, o)
  BY <1>2, <1>3 DEF Py!Enter, Enter
<1>6. QED
  BY <1>1, <1>2, <1>3, <1>4, <1>5

\* Before the run.
LEMMA Waiting ==
  ASSUME Progress, phase # "run"
  PROVE  PyPhase = "parse" /\ PyPc = <<"idle", 0>> /\ PyEnv = [x \in Names |-> "unset"]
BY DEF Progress, PyPhase, PyPc, PyEnv

\* An empty tree, in Python too.
LEMMA StartsAsPython == Init => Py!ProgInit
<1>1. SUFFICES ASSUME Init PROVE Py!ProgInit
  OBVIOUS
<1>2. Progress /\ phase = "parse" /\ decl \in Decls /\ tree = <<>>
  BY <1>1 DEF Init, ProgInit, Progress
<1>3. PyPhase = "parse" /\ PyPc = <<"idle", 0>> /\ PyEnv = [x \in Names |-> "unset"]
  BY <1>2, Waiting
<1>4. QED
  BY <1>2, <1>3 DEF Py!ProgInit, Py!Names, Names

\* Python parses the statement that is parsed.
LEMMA ParsesAsPython ==
  ASSUME IInv, IInv', Parse, UNCHANGED <<emitVars, flags, assigned, missed>>
  PROVE  Py!Parse
<1>1. PICK kind \in decl.kinds, u \in 0..Len(tree), a \in {"body", "orelse"} :
        \E guard \in (IF kind \in {"If", "While"} THEN decl.guards ELSE {Opaque}),
           value \in (IF kind \in Binders THEN decl.values ELSE {AnyTruth}),
           name \in NamesFor(kind) :
          AddStatement(kind, guard, name, value, u, a)
  BY Zenon DEF Parse
<1>2. PICK guard \in (IF kind \in {"If", "While"} THEN decl.guards ELSE {Opaque}),
           value \in (IF kind \in Binders THEN decl.values ELSE {AnyTruth}),
           name \in NamesFor(kind) :
          AddStatement(kind, guard, name, value, u, a)
  BY <1>1, Zenon
<1>3. phase = "parse" /\ phase' = "parse" /\ decl' = decl
  BY <1>2 DEF AddStatement
<1>4. PyPhase = "parse" /\ UNCHANGED <<PyPhase, PyPc, PyEnv>>
  <2>1. /\ PyPhase = "parse" /\ PyPc = <<"idle", 0>> /\ PyEnv = [x \in Names |-> "unset"]
    BY <1>3, Waiting DEF IInv, Translated
  <2>2. PyPhase' = "parse" /\ PyPc' = <<"idle", 0>> /\ PyEnv' = [x \in Names' |-> "unset"]
    <3>1. Progress' /\ phase' # "run"
      BY <1>3 DEF IInv, Translated
    <3>2. QED
      BY <3>1 DEF Progress, PyPhase, PyPc, PyEnv
  <2>3. Names' = Names
    BY <1>3 DEF Names
  <2>4. QED
    BY <2>1, <2>2, <2>3
<1>5. /\ Py!Compound = Compound /\ Py!Loops = Loops /\ Py!Binders = Binders
      /\ Py!Opaque = Opaque /\ Py!AnyTruth = AnyTruth
  BY DEF Py!Compound, Compound, Py!Loops, Loops, Py!Binders, Binders, Py!Stores, Stores,
         Py!Opaque, Opaque, Py!AnyTruth, AnyTruth
<1>6. Py!NamesFor(kind) = NamesFor(kind)
  BY DEF Py!NamesFor, NamesFor, Py!Stores, Stores, Py!Names, Names, Py!Unassigned, Unassigned,
         Py!NoName, NoName
<1>7. Py!LoopAt(u, a) = LoopAt(u, a)
  BY <1>5 DEF Py!LoopAt, LoopAt
<1>8. Open(u) => Py!Open(u)
  BY <1>5 DEF Py!Open, Open, Py!SuiteDue, SuiteDue, Py!Nodes, Nodes
<1>9. HasPlace(u, a) => Py!HasPlace(u, a)
  BY <1>5, SameTrees DEF Py!HasPlace, HasPlace
<1>10. Legal(kind, LoopAt(u, a)) => Py!Legal(kind, LoopAt(u, a))
  BY DEF Py!Legal, Legal, Py!InFunction, InFunction
<1>11. Py!AddStatement(kind, guard, name, value, u, a)
  BY <1>2, <1>3, <1>4, <1>5, <1>7, <1>8, <1>9, <1>10, Zenon DEF Py!AddStatement, AddStatement
<1>12. /\ guard \in (IF kind \in {"If", "While"} THEN decl.guards ELSE {Py!Opaque})
       /\ value \in (IF kind \in Py!Binders THEN decl.values ELSE {Py!AnyTruth})
       /\ name \in Py!NamesFor(kind)
  BY <1>5, <1>6
<1>13. \E gd \in (IF kind \in {"If", "While"} THEN decl.guards ELSE {Py!Opaque}),
           vl \in (IF kind \in Py!Binders THEN decl.values ELSE {Py!AnyTruth}),
           nm \in Py!NamesFor(kind) :
          Py!AddStatement(kind, gd, nm, vl, u, a)
  BY <1>11, <1>12, Zenon
<1>14. QED
  BY <1>13, Zenon DEF Py!Parse

\* Where the C++ begins, Python begins, with the same parameters bound.
LEMMA BeginsAsPython ==
  ASSUME IInv, CppBegin
  PROVE  PyPhase = "parse" /\ Py!WholeProgram /\ Py!Begin
<1>1. /\ phase = "emit" /\ phase' = "run" /\ pc' = Enter(0, "body", <<"ended", 0>>)
      /\ env' \in [Names -> Truth] /\ assigned' = Names \ Unassigned
      /\ UNCHANGED <<decl, tree, missed>>
  BY DEF CppBegin
<1>2. Progress /\ Accepted /\ missed = <<>> /\ Unassigned \subseteq Names
  BY <1>1, DeclOK DEF IInv, Translated, Progress
<1>3. PyPhase = "parse" /\ PyPhase' = "run"
  BY <1>1 DEF PyPhase
<1>4. Py!WholeProgram
  BY <1>2 DEF Accepted, WholeProgram, SuiteDue, Compound, Loops, Py!WholeProgram, Py!SuiteDue,
              Py!Compound, Py!Loops
<1>5. PyPc' = Py!Enter(0, "body", <<"ended", 0>>)
  <2>1. pc'[1] # "test" /\ pc'[1] # "after" /\ missed' = <<>>
    BY <1>1, <1>2 DEF Enter
  <2>2. PyPc' = pc'
    BY <2>1 DEF PyPc
  <2>3. QED
    BY <1>1, <2>2, SameTrees
<1>6. PyEnv' = [x \in Names |-> IF x \in assigned' THEN env'[x] ELSE "unset"]
  BY <1>1, <1>2 DEF PyEnv, Names
<1>7. PyEnv' \in [Names -> Truth \union {"unset"}]
  BY <1>1, <1>6
<1>8. \A x \in Names : PyEnv'[x] = "unset" <=> x \in Unassigned
  BY <1>1, <1>6 DEF Truth
<1>9. QED
  BY <1>1, <1>3, <1>4, <1>5, <1>7, <1>8, SameTrees DEF Py!Begin

\* What a statement of the run reads, the program has assigned.
LEMMA ReadsAreBound ==
  ASSUME IInv, phase = "run", pc[1] \in {"exec", "test"}
  PROVE  LET n == pc[2]
             x == tree[n].name
             g == tree[n].guard.atom
         IN /\ tree[n].kind \in {"Expr", "Update"} /\ x \in Names => x \in assigned
            /\ tree[n].kind \in {"If", "While"} /\ g \in Names => g \in assigned
<1> DEFINE n == pc[2]
           x == tree[n].name
           g == tree[n].guard.atom
<1>1. /\ TreeOK /\ SourceOrder /\ Accepted /\ n \in Nodes
      /\ Names \ Unassigned \subseteq assigned /\ OnTrack(pc[1], n, assigned, flags)
  BY Underway DEF IInv
<1> HIDE DEF n
<1>2. PICK B \in [Nodes -> SUBSET Names] : Follows(n, B) /\ Held(n, B, assigned)
  BY <1>1 DEF OnTrack, Sound
<1>3. B[n] \in SUBSET Names /\ B[n] \subseteq assigned
  BY <1>1, <1>2 DEF Held, Path
<1>4. check_statement(walk, n, B[n]).ok
  BY <1>1, <1>2, StatementIsOk
<1>5. \A y \in Names : /\ ReadOk(y, B[n])
                       /\ y \in Unassigned => y \in scope_variables
                       => y \in assigned
  BY <1>1, <1>3 DEF ReadOk
<1>6. NamesDefined
  BY <1>1 DEF Accepted
<1>7. ASSUME tree[n].kind \in {"Expr", "Update"}, x \in Names PROVE x \in assigned
  <2>1. ReadOk(x, B[n])
    BY <1>4, <1>7, StatementWalks DEF Walked
  <2>2. x \in Unassigned => x \in scope_variables
    BY <1>1, <1>6, <1>7 DEF NamesDefined, Readers
  <2>3. QED
    BY <1>5, <1>7, <2>1, <2>2
<1>8. ASSUME tree[n].kind \in {"If", "While"}, g \in Names PROVE g \in assigned
  <2>1. GuardName(n) = g
    BY <1>8 DEF GuardName
  <2>2. ReadOk(g, B[n])
    BY <1>1, <1>3, <1>4, <1>8, <2>1, ArmsAreOk
  <2>3. g \in Unassigned => g \in scope_variables
    BY <1>1, <1>6, <2>1 DEF NamesDefined
  <2>4. QED
    BY <1>5, <1>8, <2>2, <2>3
<1>9. QED
  BY <1>7, <1>8 DEF n

\* The state Python is in while no def has been called too early.
LEMMA AsPython ==
  ASSUME IInv, phase = "run", missed = <<>>
  PROVE  /\ PyPhase = "run"
         /\ PyEnv = [x \in Names |-> IF x \in assigned THEN env[x] ELSE "unset"]
         /\ pc[1] \notin {"test", "after"} => PyPc = pc
         /\ pc[1] = "test" => PyPc = <<"exec", pc[2]>>
         /\ pc[1] = "after" => PyPc = AfterLoop(pc[2])
         /\ \A x \in Names : x \in assigned => PyEnv[x] = env[x] /\ PyEnv[x] # "unset"
<1>1. env \in [Names -> Truth]
  BY Underway DEF IInv
<1>2. PyEnv = [x \in Names |-> IF x \in assigned THEN env[x] ELSE "unset"]
  BY DEF PyEnv
<1>3. \A x \in Names : x \in assigned => PyEnv[x] = env[x] /\ PyEnv[x] # "unset"
  BY <1>1, <1>2 DEF Truth
<1>4. QED
  BY <1>2, <1>3 DEF PyPhase, PyPc

\* Once Python has raised, the C++ runs on alone.
LEMMA RunsOnAlone ==
  ASSUME phase = "run", missed # <<>>, CppRun
  PROVE  UNCHANGED Py!progVars
<1>1. phase' = phase /\ UNCHANGED <<decl, tree>>
  BY DEF CppRun, CppExpr, CppAssign, CppReturn, CppEnterLoop, CppIf, CppTest, CppAfter,
         CppBreak, CppContinue, CppNext, CppGoto, CppBranch, progUnchanged, At, AtOneOf
<1>2. missed' = missed
  BY DEF CppRun, CppExpr, CppAssign, CppReturn, CppEnterLoop, CppIf, CppTest, CppAfter,
         CppBreak, CppContinue, CppNext, CppGoto, CppBranch, progUnchanged, At, AtOneOf
<1>3. PyPhase' = PyPhase /\ PyPc' = PyPc /\ PyEnv' = PyEnv
  BY <1>1, <1>2 DEF PyPhase, PyPc, PyEnv
<1>4. QED
  BY <1>1, <1>3 DEF Py!progVars

\* Where no name is bound and the C++ goes on, so does Python.
LEMMA SameEnv ==
  ASSUME missed = <<>>, missed' = <<>>, UNCHANGED <<decl, env, assigned>>
  PROVE  PyEnv' = PyEnv
BY DEF PyEnv, Names

\* A read that has a value goes on; a def called before its global is bound raises.
LEMMA ExprAsPython ==
  ASSUME IInv, missed = <<>>, CppExpr
  PROVE  Py!RunExpr
<1> DEFINE n == pc[2]
           x == tree[n].name
<1>1. /\ phase = "run" /\ pc[1] = "exec" /\ tree[n].kind \in {"Expr", "Call"}
      /\ pc' = <<"done", n>> /\ UNCHANGED <<decl, tree, phase, env, assigned>>
      /\ missed' = IF tree[n].kind = "Call" /\ x \notin assigned THEN <<n, PyEnv>> ELSE <<>>
  BY DEF CppExpr, AtOneOf, CppGoto, progUnchanged
<1>2. /\ PyPhase = "run" /\ PyPhase' = "run" /\ PyPc = pc
      /\ PyEnv = [y \in Names |-> IF y \in assigned THEN env[y] ELSE "unset"]
      /\ \A y \in Names : y \in assigned => PyEnv[y] = env[y] /\ PyEnv[y] # "unset"
  BY <1>1, AsPython DEF PyPhase
<1>3. Py!AtOneOf({"Expr", "Call"})
  BY <1>1, <1>2 DEF Py!AtOneOf
<1>4. /\ TreeOK /\ SourceOrder /\ n \in Nodes /\ env \in [Names -> Truth]
      /\ Unassigned \subseteq Names /\ decl \in Decls
  BY <1>1, Underway, DeclOK DEF IInv
<1>5. CASE tree[n].kind = "Call" /\ x \notin assigned
  <2>1. x \in Names
    BY <1>4, <1>5 DEF SourceOrder, NamesFor, Stores
  <2>2. Py!Unbound(x)
    BY <1>2, <1>5, <2>1 DEF Py!Unbound, Py!Names, Names
  <2>3. missed' = <<n, PyEnv>> /\ missed' # <<>> /\ missed'[1] = n /\ missed'[2] = PyEnv
    BY <1>1, <1>5
  <2>4. PyPc' = <<"raised", n>> /\ PyEnv' = PyEnv
    BY <2>3 DEF PyPc, PyEnv
  <2>5. Py!Raise
    BY <1>1, <1>2, <2>4 DEF Py!Raise, Py!Goto
  <2>6. QED
    BY <1>2, <1>3, <2>2, <2>5 DEF Py!RunExpr
<1>6. CASE ~(tree[n].kind = "Call" /\ x \notin assigned)
  <2>1. x \in Names => x \in assigned
    BY <1>1, <1>6, ReadsAreBound
  <2>2. ~Py!Unbound(x)
    BY <1>2, <2>1 DEF Py!Unbound, Py!Names, Names
  <2>3. missed' = <<>>
    BY <1>1, <1>6
  <2>4. PyPc' = <<"done", n>> /\ PyEnv' = PyEnv
    BY <1>1, <2>3, SameEnv DEF PyPc
  <2>5. Py!MayMutate
    <3> DEFINE e == [y \in decl.mutable |-> IF y \in assigned THEN env[y] ELSE "true"]
    <3>1. decl.mutable \subseteq Names
      BY <1>4, ProgramAssumption DEF Names
    <3>2. e \in [decl.mutable -> Truth]
      BY <1>4, <3>1 DEF Truth
    <3>3. PyEnv = [y \in Names |-> IF y \in decl.mutable /\ PyEnv[y] # "unset" THEN e[y]
                                   ELSE PyEnv[y]]
      <4>1. \A y \in Names : y \in decl.mutable /\ PyEnv[y] # "unset" => e[y] = PyEnv[y]
        BY <1>2
      <4>2. PyEnv = [y \in Names |-> PyEnv[y]]
        BY <1>2
      <4> HIDE DEF e
      <4>3. QED
        BY <4>1, <4>2
    <3> HIDE DEF e
    <3>4. QED
      BY <2>4, <3>2, <3>3, SameTrees DEF Py!MayMutate
  <2>6. Py!Goto(<<"done", n>>)
    BY <1>1, <1>2, <2>4 DEF Py!Goto
  <2>7. QED
    BY <1>2, <1>3, <2>2, <2>5, <2>6 DEF Py!RunExpr
<1>7. QED
  BY <1>5, <1>6

\* An assignment stores the same value under the same name, and does not raise.
LEMMA AssignAsPython ==
  ASSUME IInv, missed = <<>>, CppAssign
  PROVE  Py!RunAssign
<1> DEFINE n == pc[2]
           x == tree[n].name
<1>1. /\ phase = "run" /\ pc[1] = "exec" /\ tree[n].kind \in {"Assign", "Update"}
      /\ pc' = <<"done", n>> /\ assigned' = assigned \union {x}
      /\ UNCHANGED <<decl, tree, phase, missed>>
  BY DEF CppAssign, AtOneOf, CppGoto, progUnchanged
<1>2. PICK v \in Truth : env' = [env EXCEPT ![x] = v]
  BY DEF CppAssign
<1>3. /\ PyPhase = "run" /\ PyPhase' = "run" /\ PyPc = pc
      /\ PyEnv = [y \in Names |-> IF y \in assigned THEN env[y] ELSE "unset"]
      /\ \A y \in Names : y \in assigned => PyEnv[y] = env[y] /\ PyEnv[y] # "unset"
  BY <1>1, AsPython DEF PyPhase
<1>4. Py!AtOneOf(Py!Stores)
  BY <1>1, <1>3 DEF Py!AtOneOf, Py!Stores
<1>5. /\ TreeOK /\ SourceOrder /\ n \in Nodes /\ env \in [Names -> Truth] /\ decl \in Decls
  BY <1>1, Underway DEF IInv
<1>6. ~(tree[n].kind = "Update" /\ Py!Unbound(x))
  BY <1>1, <1>3, ReadsAreBound DEF Py!Unbound, Py!Names, Names
<1>7. PyPc' = <<"done", n>>
  BY <1>1 DEF PyPc
<1>8. Py!Goto(<<"done", n>>)
  BY <1>1, <1>3, <1>7 DEF Py!Goto
<1>9. Py!Stored(n) = Truth
  BY <1>5, WhatIsEmitted DEF Py!Stored, Py!AnyTruth, AnyTruth, Py!Truth, Truth
<1>10. PyEnv' = [y \in Names |-> IF y = x THEN v ELSE PyEnv[y]]
  <2>1. PyEnv' = [y \in Names |-> IF y \in assigned' THEN env'[y] ELSE "unset"]
    BY <1>1 DEF PyEnv, Names
  <2>2. ASSUME NEW y \in Names
        PROVE  (IF y \in assigned' THEN env'[y] ELSE "unset") = IF y = x THEN v ELSE PyEnv[y]
    BY <1>1, <1>2, <1>3, <1>5
  <2>3. QED
    BY <2>1, <2>2
<1>11. Py!Bind(n)
  BY <1>9, <1>10, SameTrees DEF Py!Bind
<1>12. QED
  BY <1>3, <1>4, <1>6, <1>8, <1>11 DEF Py!RunAssign

\* A return leaves the def; the checker has let none stand outside of one.
LEMMA ReturnAsPython ==
  ASSUME IInv, missed = <<>>, CppReturn
  PROVE  Py!RunReturn
<1> DEFINE n == pc[2]
<1>1. /\ phase = "run" /\ pc[1] = "exec" /\ tree[n].kind = "Return" /\ pc' = <<"returned", n>>
      /\ UNCHANGED <<decl, tree, phase, env, assigned, missed>>
  BY DEF CppReturn, At, AtOneOf, CppGoto, progUnchanged
<1>2. PyPhase = "run" /\ PyPhase' = "run" /\ PyPc = pc /\ PyEnv' = PyEnv
  BY <1>1, AsPython, SameEnv DEF PyPhase
<1>3. PyPc' = <<"returned", n>>
  BY <1>1 DEF PyPc
<1>4. Py!InFunction
  <2>1. /\ TreeOK /\ SourceOrder /\ n \in Nodes /\ decl \in Decls
    BY <1>1, Underway DEF IInv
  <2>2. QED
    BY <1>1, <2>1, WhatIsEmitted DEF Py!InFunction, InFunction
<1>5. QED
  BY <1>1, <1>2, <1>3, <1>4 DEF Py!RunReturn, Py!At, Py!AtOneOf, Py!Goto

\* A test comes out in the C++ as it does in Python.
LEMMA SameOutcomes ==
  ASSUME IInv, phase = "run", missed = <<>>, pc[1] \in {"exec", "test"},
         tree[pc[2]].kind \in {"If", "While"}
  PROVE  LET g == tree[pc[2]].guard
         IN ~Py!Unbound(g.atom) /\ Py!Outcomes(g) = Outcomes(g)
<1> DEFINE g == tree[pc[2]].guard
<1>1. /\ TreeOK /\ pc[2] \in Nodes
      /\ \A x \in Names : x \in assigned => PyEnv[x] = env[x] /\ PyEnv[x] # "unset"
  BY Underway, AsPython DEF IInv
<1>2. g.atom \in {"True", "False", "opaque"} \union Names
  BY <1>1, NodesAre DEF Statements, Guards, Atoms
<1>3. g.atom \in Names => g.atom \in assigned
  BY ReadsAreBound
<1> HIDE DEF g
<1>4. ~Py!Unbound(g.atom)
  BY <1>1, <1>3 DEF Py!Unbound, Py!Names, Names
<1>5. g.atom \notin {"True", "False", "opaque"} => PyEnv[g.atom] = env[g.atom]
  BY <1>1, <1>2, <1>3
<1>6. Py!Outcomes(g) = Outcomes(g)
  BY <1>5 DEF Py!Outcomes, Outcomes
<1>7. QED
  BY <1>4, <1>6 DEF g

\* An if goes the way Python's does.
LEMMA IfAsPython ==
  ASSUME IInv, missed = <<>>, CppIf
  PROVE  Py!RunIf
<1> DEFINE n == pc[2]
           g == tree[n].guard
<1>1. /\ phase = "run" /\ pc[1] = "exec" /\ tree[n].kind = "If"
      /\ UNCHANGED <<decl, tree, phase, env, assigned, missed>>
  BY DEF CppIf, CppBranch, At, AtOneOf, CppGoto, progUnchanged
<1>2. PICK b \in Outcomes(g) : pc' = IF b THEN Enter(n, "body", Enter(n, "orelse", <<"done", n>>))
                                     ELSE Enter(n, "orelse", <<"done", n>>)
  BY DEF CppIf, CppBranch, CppGoto
<1>3. PyPhase = "run" /\ PyPhase' = "run" /\ PyPc = pc /\ PyEnv' = PyEnv
  BY <1>1, AsPython, SameEnv DEF PyPhase
<1>4. ~Py!Unbound(g.atom) /\ b \in Py!Outcomes(g)
  BY <1>1, SameOutcomes
<1>5. TreeOK /\ WholeProgram /\ n \in Nodes
  BY <1>1, Underway DEF IInv
<1>6. Suite(tree, n, "body") # {}
  BY <1>1, <1>5, BodiesAreWritten DEF Compound
<1> HIDE DEF n
<1>7. pc' = Enter(n, IF b THEN "body" ELSE "orelse", <<"done", n>>)
  BY <1>2, <1>6 DEF Enter
<1>8. pc'[1] \in {"exec", "done"}
  BY <1>7 DEF Enter
<1>9. PyPc' = pc'
  BY <1>1, <1>8 DEF PyPc
<1>10. Py!Goto(Py!Enter(n, IF b THEN "body" ELSE "orelse", <<"done", n>>))
  BY <1>1, <1>3, <1>7, <1>9, SameTrees DEF Py!Goto
<1>11. QED
  BY <1>1, <1>3, <1>4, <1>10 DEF Py!RunIf, Py!RunTest, Py!At, Py!AtOneOf, n

\* A loop's test goes the way Python's does; one that fails comes to the else.
LEMMA TestAsPython ==
  ASSUME IInv, missed = <<>>, CppTest
  PROVE  Py!RunWhile
<1> DEFINE n == pc[2]
           g == tree[n].guard
<1>1. /\ phase = "run" /\ pc[1] = "test"
      /\ UNCHANGED <<decl, tree, phase, env, assigned, missed, flags>>
  BY DEF CppTest, CppBranch, CppGoto, progUnchanged
<1>2. PICK b \in Outcomes(g) : pc' = IF b THEN Enter(n, "body", <<"after", n>>) ELSE <<"after", n>>
  BY DEF CppTest, CppBranch, CppGoto
<1>3. PyPhase = "run" /\ PyPhase' = "run" /\ PyPc = <<"exec", n>> /\ PyEnv' = PyEnv
  BY <1>1, AsPython, SameEnv DEF PyPhase
<1>4. /\ TreeOK /\ WholeProgram /\ n \in Nodes
      /\ tree[n].kind = "While" /\ flags[n] = FALSE
  BY <1>1, Underway DEF IInv, OnTrack
<1>5. ~Py!Unbound(g.atom) /\ b \in Py!Outcomes(g)
  BY <1>1, <1>4, SameOutcomes
<1>6. Suite(tree, n, "body") # {}
  BY <1>4, BodiesAreWritten DEF Compound, Loops
<1> HIDE DEF n
<1>7. PyPc' = Enter(n, IF b THEN "body" ELSE "orelse", <<"done", n>>)
  <2>1. CASE b
    <3>1. pc' = <<"exec", FirstOf(Suite(tree, n, "body"))>>
      BY <1>2, <1>6, <2>1 DEF Enter
    <3>2. PyPc' = pc'
      BY <1>1, <3>1 DEF PyPc
    <3>3. QED
      BY <1>6, <2>1, <3>1, <3>2 DEF Enter
  <2>2. CASE ~b
    <3>1. pc' = <<"after", n>>
      BY <1>2, <2>2
    <3>2. PyPc' = AfterLoop(pc[2])'
      BY <1>1, <3>1 DEF PyPc
    <3>3. AfterLoop(pc[2])' = IF Suite(tree, n, "orelse") # {}
                              THEN <<"exec", FirstOf(Suite(tree, n, "orelse"))>>
                              ELSE <<"done", n>>
      BY <1>1, <1>4, <3>1 DEF AfterLoop, HasElse, Enter
    <3>4. QED
      BY <2>2, <3>2, <3>3 DEF Enter
  <2>3. QED
    BY <2>1, <2>2
<1>8. Py!Goto(Py!Enter(n, IF b THEN "body" ELSE "orelse", <<"done", n>>))
  BY <1>1, <1>3, <1>7, SameTrees DEF Py!Goto
<1>9. QED
  BY <1>3, <1>4, <1>5, <1>8 DEF Py!RunWhile, Py!RunTest, Py!At, Py!AtOneOf, n

\* A break goes past the else of its own loop.
LEMMA BreakAsPython ==
  ASSUME IInv, missed = <<>>, CppBreak
  PROVE  Py!RunBreak
<1> DEFINE n == pc[2]
           loop == tree[n].loop
<1>1. /\ phase = "run" /\ pc[1] = "exec" /\ tree[n].kind = "Break" /\ pc' = <<"after", loop>>
      /\ flags' = IF flag[n] = NoFlag THEN flags ELSE [flags EXCEPT ![Declarer(n)] = TRUE]
      /\ UNCHANGED <<decl, tree, phase, env, assigned, missed>>
  BY DEF CppBreak, At, AtOneOf, CppGoto, progUnchanged
<1>2. PyPhase = "run" /\ PyPhase' = "run" /\ PyPc = pc /\ PyEnv' = PyEnv
  BY <1>1, AsPython, SameEnv DEF PyPhase
<1>3. /\ TreeOK /\ SourceOrder /\ EmitInv /\ decl \in Decls /\ n \in 1..emitted /\ n \in Nodes
      /\ flags \in [Nodes -> BOOLEAN]
  BY <1>1, Underway DEF IInv
<1>4. loop # 0 /\ loop \in Nodes
  BY <1>1, <1>3, WhatIsEmitted
<1>5. HasElse(loop) => flags'[loop] = TRUE
  BY <1>1, <1>3, <1>4, OwnLoopDeclares
<1> HIDE DEF n, loop
<1>6. PyPc' = AfterLoop(pc[2])'
  BY <1>1 DEF PyPc
<1>7. AfterLoop(pc[2])' = <<"done", loop>>
  BY <1>1, <1>5 DEF AfterLoop, HasElse
<1>8. Py!Goto(<<"done", loop>>)
  BY <1>1, <1>2, <1>6, <1>7 DEF Py!Goto
<1>9. QED
  BY <1>1, <1>2, <1>4, <1>8 DEF Py!RunBreak, Py!At, Py!AtOneOf, n, loop

\* A continue goes to the test of its own loop.
LEMMA ContinueAsPython ==
  ASSUME IInv, missed = <<>>, CppContinue
  PROVE  Py!RunContinue
<1> DEFINE n == pc[2]
           loop == tree[n].loop
<1>1. /\ phase = "run" /\ pc[1] = "exec" /\ tree[n].kind = "Continue" /\ pc' = <<"test", loop>>
      /\ UNCHANGED <<decl, tree, phase, env, assigned, missed>>
  BY DEF CppContinue, At, AtOneOf, CppGoto, progUnchanged
<1>2. PyPhase = "run" /\ PyPhase' = "run" /\ PyPc = pc /\ PyEnv' = PyEnv
  BY <1>1, AsPython, SameEnv DEF PyPhase
<1>3. /\ TreeOK /\ SourceOrder /\ decl \in Decls /\ n \in Nodes
  BY <1>1, Underway DEF IInv
<1>4. loop # 0
  BY <1>1, <1>3, WhatIsEmitted
<1> HIDE DEF loop
<1>5. PyPc' = <<"exec", loop>>
  BY <1>1 DEF PyPc
<1>6. QED
  BY <1>1, <1>2, <1>4, <1>5 DEF Py!RunContinue, Py!At, Py!AtOneOf, Py!Goto, loop

\* After a statement comes the one that comes in Python.
LEMMA NextAsPython ==
  ASSUME IInv, missed = <<>>, CppNext
  PROVE  Py!RunNext
<1> DEFINE n == pc[2]
           up == tree[n].up
           later == Later(tree, n)
<1>1. /\ phase = "run" /\ pc[1] = "done"
      /\ pc' = CASE later # {} -> <<"exec", FirstOf(later)>>
                 [] later = {} /\ up = 0 -> <<"ended", 0>>
                 [] later = {} /\ up # 0 /\ tree[up].kind = "While" /\ tree[n].arm = "body"
                      -> <<"test", up>>
                 [] OTHER -> <<"done", up>>
      /\ UNCHANGED <<decl, tree, phase, env, assigned, missed>>
  BY DEF CppNext, CppGoto, progUnchanged
<1>2. PyPhase = "run" /\ PyPhase' = "run" /\ PyPc = pc /\ PyEnv' = PyEnv
  BY <1>1, AsPython, SameEnv DEF PyPhase
<1>3. /\ TreeOK /\ Plain /\ n \in Nodes
  BY <1>1, Underway DEF IInv
<1>4. up # 0 => (tree[up].kind \in {"While", "For"} <=> tree[up].kind = "While")
  BY <1>3, Below DEF Plain
<1> HIDE DEF n, up, later
<1>5. PyPc' = CASE later # {} -> <<"exec", FirstOf(later)>>
                [] later = {} /\ up = 0 -> <<"ended", 0>>
                [] later = {} /\ up # 0 /\ tree[up].kind \in {"While", "For"} /\ tree[n].arm = "body"
                     -> <<"exec", up>>
                [] OTHER -> <<"done", up>>
  <2>1. CASE later # {}
    BY <1>1, <2>1 DEF PyPc
  <2>2. CASE later = {} /\ up = 0
    BY <1>1, <2>2 DEF PyPc
  <2>3. CASE later = {} /\ up # 0 /\ tree[up].kind = "While" /\ tree[n].arm = "body"
    BY <1>1, <2>3 DEF PyPc
  <2>4. CASE later = {} /\ up # 0 /\ ~(tree[up].kind = "While" /\ tree[n].arm = "body")
    BY <1>1, <1>4, <2>4 DEF PyPc
  <2>5. QED
    BY <2>1, <2>2, <2>3, <2>4
<1>6. QED
  BY <1>1, <1>2, <1>5, SameTrees DEF Py!RunNext, Py!Goto, Py!Loops, n, up, later

\* Setting a flag up, and coming to a loop's end, are no steps of the Python.
LEMMA LoopsAsPython ==
  ASSUME IInv, missed = <<>>, CppEnterLoop \/ CppAfter
  PROVE  UNCHANGED Py!progVars
<1>1. phase = "run" /\ UNCHANGED <<decl, tree, phase, env, assigned, missed>>
  BY DEF CppEnterLoop, CppAfter, At, AtOneOf, CppGoto, progUnchanged
<1>2. PyPhase' = PyPhase /\ PyEnv' = PyEnv
  BY <1>1, SameEnv DEF PyPhase
<1>3. PyPc' = PyPc
  <2>1. CASE CppEnterLoop
    <3>1. pc[1] = "exec" /\ pc' = <<"test", pc[2]>>
      BY <2>1 DEF CppEnterLoop, At, AtOneOf, CppGoto
    <3>2. pc = <<"exec", pc[2]>>
      BY <1>1, <3>1 DEF IInv, AtAPlace
    <3>3. PyPc' = <<"exec", pc[2]>> /\ PyPc = pc
      BY <1>1, <3>1, AsPython DEF PyPc
    <3>4. QED
      BY <3>2, <3>3
  <2>2. CASE CppAfter
    <3>1. pc[1] = "after" /\ pc' = AfterLoop(pc[2])
      BY <2>2 DEF CppAfter, CppGoto
    <3>2. pc'[1] \in {"exec", "done"}
      BY <3>1 DEF AfterLoop, Enter
    <3>3. PyPc' = pc' /\ PyPc = AfterLoop(pc[2])
      BY <1>1, <3>1, <3>2, AsPython DEF PyPc
    <3>4. QED
      BY <3>1, <3>3
  <2>3. QED
    BY <2>1, <2>2
<1>4. QED
  BY <1>1, <1>2, <1>3 DEF Py!progVars

\* Every step of the emitted program is one of the Python, or of none.
LEMMA RunsAsItShould ==
  ASSUME IInv, CppRun
  PROVE  Py!Run \/ UNCHANGED Py!progVars
<1>1. phase = "run"
  BY DEF CppRun, CppExpr, CppAssign, CppReturn, CppEnterLoop, CppIf, CppTest, CppAfter, CppBreak,
         CppContinue, CppNext, At, AtOneOf
<1>2. CASE missed # <<>>
  BY <1>1, <1>2, RunsOnAlone
<1>3. CASE missed = <<>>
  <2>1. CppExpr => Py!RunExpr
    BY <1>3, ExprAsPython
  <2>2. CppAssign => Py!RunAssign
    BY <1>3, AssignAsPython
  <2>3. CppReturn => Py!RunReturn
    BY <1>3, ReturnAsPython
  <2>4. CppIf => Py!RunIf
    BY <1>3, IfAsPython
  <2>5. CppTest => Py!RunWhile
    BY <1>3, TestAsPython
  <2>6. CppBreak => Py!RunBreak
    BY <1>3, BreakAsPython
  <2>7. CppContinue => Py!RunContinue
    BY <1>3, ContinueAsPython
  <2>8. CppNext => Py!RunNext
    BY <1>3, NextAsPython
  <2>9. CppEnterLoop \/ CppAfter => UNCHANGED Py!progVars
    BY <1>3, LoopsAsPython
  <2>10. QED
    BY <2>1, <2>2, <2>3, <2>4, <2>5, <2>6, <2>7, <2>8, <2>9, Zenon DEF CppRun, Py!Run
<1>4. QED
  BY <1>2, <1>3

\* The checks and the writing of the C++ are no steps of the Python.
LEMMA EmitsUnnoticed ==
  ASSUME IInv, IInv', CheckReads \/ Emit
  PROVE  UNCHANGED Py!progVars
<1>1. phase # "run" /\ phase' # "run" /\ UNCHANGED <<decl, tree>>
  BY DEF CheckReads, Prepared, Emit, LeaveLoopBody, EmitWhile, EmitBreak, RefuseFor, EmitPlain,
         Due, runUnchanged
<1>2. PyPhase = "parse" /\ PyPc = <<"idle", 0>> /\ PyEnv = [x \in Names |-> "unset"]
  BY <1>1, Waiting DEF IInv, Translated
<1>3. PyPhase' = "parse" /\ PyPc' = <<"idle", 0>> /\ PyEnv' = [x \in Names' |-> "unset"]
  <2>1. Progress'
    BY DEF IInv, Translated
  <2>2. QED
    BY <1>1, <2>1 DEF Progress, PyPhase, PyPc, PyEnv
<1>4. Names' = Names
  BY <1>1 DEF Names
<1>5. QED
  BY <1>1, <1>2, <1>3, <1>4 DEF Py!progVars

\* Every step of the compiler and of its output is a step of Python, or of none.
LEMMA StepsAsPython == IInv /\ IInv' /\ [Next]_vars => [Py!ProgNext]_(Py!progVars)
<1>1. SUFFICES ASSUME IInv, IInv', [Next]_vars
               PROVE  Py!ProgNext \/ UNCHANGED Py!progVars
  OBVIOUS
<1>2. CASE Parse /\ UNCHANGED <<emitVars, flags, assigned, missed>>
  BY <1>1, <1>2, ParsesAsPython DEF Py!ProgNext
<1>3. CASE CheckReads \/ Emit
  BY <1>1, <1>3, EmitsUnnoticed
<1>4. CASE CppBegin
  BY <1>1, <1>4, BeginsAsPython DEF Py!ProgNext
<1>5. CASE CppRun
  BY <1>1, <1>5, RunsAsItShould DEF Py!ProgNext
<1>6. CASE UNCHANGED vars
  <2>1. UNCHANGED <<decl, tree, phase, pc, env, assigned, missed, flags>>
    BY <1>6 DEF vars, progVars
  <2>2. PyPhase' = PyPhase
    BY <2>1 DEF PyPhase
  <2>3. PyEnv' = PyEnv
    BY <2>1 DEF PyEnv, Names
  <2>4. HasElse(pc[2])' = HasElse(pc[2])
    BY <2>1 DEF HasElse, Suite
  <2>5. Enter(pc[2], "orelse", <<"done", pc[2]>>)' = Enter(pc[2], "orelse", <<"done", pc[2]>>)
    BY <2>1 DEF Enter, Suite
  <2>6. AfterLoop(pc[2])' = AfterLoop(pc[2])
    BY <2>1, <2>4, <2>5 DEF AfterLoop
  <2>7. PyPc' = PyPc
    BY <2>1, <2>6 DEF PyPc
  <2>8. QED
    BY <2>1, <2>2, <2>3, <2>7 DEF Py!progVars
<1>7. QED
  BY <1>1, <1>2, <1>3, <1>4, <1>5, <1>6 DEF Next

\* The contract of the repository for a body of statements: the C++ written for it runs as
\* the Python does, statement for statement and value for value, up to the place where
\* Python would raise for a def that is called too early.
THEOREM RunsAsPython == Spec => Implements
<1>1. Init => Py!ProgInit
  BY StartsAsPython
<1>2. IInv /\ IInv' /\ [Next]_vars => [Py!ProgNext]_(Py!progVars)
  BY StepsAsPython
<1>3. QED
  BY <1>1, <1>2, RunInvariance, PTL DEF Spec, Implements, Py!ProgSpec
=============================================================================
