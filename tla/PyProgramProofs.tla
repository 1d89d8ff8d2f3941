--------------------------- MODULE PyProgramProofs ---------------------------
(***************************************************************************)
(* Facts about the trees of PyProgram, for the proofs about the checker    *)
(* and the emitter: induction over their statements, what the place of a   *)
(* statement says of its surroundings, and that growing the tree keeps it  *)
(* so.                                                                     *)
(***************************************************************************)
EXTENDS PyProgram, WellFoundedInduction, TLAPS

-----------------------------------------------------------------------------
(* Induction over the statements.  The theorem WFMin speaks of a set, so   *)
(* what is shown of every statement is shown of the set of those it holds  *)
(* of.                                                                     *)

\* A set of naturals that is not empty has a least one.
LEMMA LeastNatural ==
  ASSUME NEW T \in SUBSET Nat, T # {}
  PROVE  \E x \in T : \A y \in T : x <= y
<1>1. IsWellFoundedOn(OpToRel(<, Nat), Nat)
  BY NatLessThanWellFounded
<1>2. PICK x \in T : \A y \in T : ~(<<y, x>> \in OpToRel(<, Nat))
  BY <1>1, WFMin
<1>3. ASSUME NEW y \in T PROVE x <= y
  <2>1. ~(<<y, x>> \in OpToRel(<, Nat))
    BY <1>2
  <2>2. x \in Nat /\ y \in Nat
    OBVIOUS
  <2>3. ~(y < x)
    BY <2>1, <2>2 DEF OpToRel
  <2>4. QED
    BY <2>2, <2>3
<1>4. QED
  BY <1>3

\* FirstOf chooses it.
LEMMA LeastOf ==
  ASSUME NEW S \in SUBSET Nat, S # {}
  PROVE  FirstOf(S) \in S /\ \A k \in S : FirstOf(S) <= k
BY LeastNatural DEF FirstOf

\* What holds of m, and of each number from one above it, holds down to 1.
LEMMA Downward ==
  ASSUME NEW m \in Nat, NEW T,
         m \in T,
         \A n \in 1..m : n # m /\ n + 1 \in T => n \in T
  PROVE  \A n \in 1..m : n \in T
<1>1. SUFFICES ASSUME NEW n \in 1..m, n \notin T PROVE FALSE
  OBVIOUS
<1> DEFINE Gap == {d \in Nat : d <= m /\ m - d \in 1..m /\ m - d \notin T}
<1>2. m - n \in Gap
  BY <1>1
<1>3. PICK d \in Gap : \A e \in Gap : d <= e
  BY <1>2, LeastNatural
<1>4. d # 0
  BY <1>3
<1>5. d - 1 \notin Gap
  BY <1>3
<1>6. m - d \in 1..m /\ m - d # m /\ (m - d) + 1 \in 1..m /\ m - (d - 1) = (m - d) + 1
  BY <1>3, <1>4
<1>7. (m - d) + 1 \in T
  BY <1>3, <1>4, <1>5, <1>6
<1>8. m - d \in T
  BY <1>6, <1>7
<1>9. QED
  BY <1>3, <1>8

\* What holds of a node once it holds of the nodes behind it holds of every node.
LEMMA LastFirst ==
  ASSUME NEW m \in Nat, NEW T,
         \A n \in 1..m : (\A k \in 1..m : n < k => k \in T) => n \in T
  PROVE  \A n \in 1..m : n \in T
<1>1. SUFFICES ASSUME NEW n \in 1..m, n \notin T PROVE FALSE
  OBVIOUS
<1> DEFINE Gap == {d \in Nat : d <= m /\ m - d \in 1..m /\ m - d \notin T}
<1>2. m - n \in Gap
  BY <1>1
<1>3. PICK d \in Gap : \A e \in Gap : d <= e
  BY <1>2, LeastNatural
<1>4. PICK k \in 1..m : m - d < k /\ k \notin T
  BY <1>3
<1>5. m - k \in Gap /\ m - k < d
  BY <1>3, <1>4
<1>6. QED
  BY <1>3, <1>5

-----------------------------------------------------------------------------
(* The tree: every statement stands where its place says, and every        *)
(* compound statement but the one just begun has a body.                   *)

Arms == {"body", "orelse"}
Atoms == {"True", "False", "opaque"} \union Names
Guards == [negated : BOOLEAN, atom : Atoms]
Statements == [kind : AllKinds, guard : Guards, name : Names \union {NoName},
               value : decl.values \union {AnyTruth}, up : Nat, arm : Arms, loop : Nat,
               within : SUBSET Nat]

Placed(n) ==
  LET u == tree[n].up
  IN /\ u \in 0..n - 1
     /\ u = 0 => tree[n].arm = "body"
     /\ u # 0 => tree[u].kind \in Compound
     /\ tree[n].within = IF u = 0 THEN {} ELSE {u} \union tree[u].within
     /\ tree[n].loop = LoopAt(u, tree[n].arm)

TreeOK == /\ tree \in Seq(Statements)
          /\ \A n \in Nodes : Placed(n)
          /\ \A n \in Nodes : tree[n].kind \in Compound /\ n # Len(tree)
                                => Suite(tree, n, "body") # {}

\* A statement and those it is inside of.
Path(n) == {n} \union tree[n].within

\* What follows for the whole of the path.
Nested(n) ==
  /\ tree[n].within \subseteq 1..n - 1
  /\ \A k \in tree[n].within : /\ tree[k].within \subseteq tree[n].within
                               /\ \E c \in Path(n) : tree[c].up = k
                               /\ tree[n].loop = tree[k].loop \/ tree[n].loop >= k
  /\ tree[n].loop # 0 =>
       /\ tree[n].loop \in tree[n].within
       /\ tree[tree[n].loop].kind \in Loops
       /\ \E m \in Path(n) : tree[m].up = tree[n].loop /\ tree[m].arm = "body"

\* A statement's number is a natural, and the statement a record of the grammar.
LEMMA NodesAre == TreeOK => /\ Len(tree) \in Nat
                            /\ Nodes = 1..Len(tree)
                            /\ \A n \in Nodes : tree[n] \in Statements /\ n \in Nat
BY DEF TreeOK, Nodes

\* Every statement is nested as its number, arm and loop say.
LEMMA Nesting ==
  ASSUME TreeOK
  PROVE  \A n \in Nodes : Nested(n)
<1> DEFINE Bad == {n \in Nodes : ~Nested(n)}
<1>1. SUFFICES ASSUME Bad # {} PROVE FALSE
  OBVIOUS
<1>2. Bad \in SUBSET Nat
  BY NodesAre
<1>3. PICK n \in Bad : \A y \in Bad : n <= y
  BY <1>1, <1>2, LeastNatural
<1>4. n \in Nodes /\ Nodes = 1..Len(tree) /\ Len(tree) \in Nat /\ Placed(n) /\ tree[n] \in Statements
  BY NodesAre DEF TreeOK
<1> DEFINE u == tree[n].up
<1>5. CASE u = 0
  <2>1. tree[n].within = {} /\ tree[n].loop = 0
    BY <1>4, <1>5 DEF Placed, LoopAt
  <2>2. Nested(n)
    BY <2>1 DEF Nested
  <2>3. QED
    BY <2>2
<1>6. CASE u # 0
  <2>1. u \in Nodes /\ u < n /\ u \in Nat /\ n \in Nat
    BY <1>4, <1>6 DEF Placed
  <2>2. Nested(u)
    BY <2>1, <1>3
  <2>3. tree[n].within = {u} \union tree[u].within
    BY <1>4, <1>6 DEF Placed
  <2>4. tree[n].within \subseteq 1..n - 1
    <3>1. SUFFICES ASSUME NEW k \in tree[n].within PROVE k \in 1..n - 1
      OBVIOUS
    <3>2. k = u \/ k \in 1..u - 1
      BY <2>2, <2>3 DEF Nested
    <3>3. QED
      BY <2>1, <3>2, <1>6
  <2>5. ASSUME NEW k \in tree[n].within
        PROVE  /\ tree[k].within \subseteq tree[n].within
               /\ \E c \in Path(n) : tree[c].up = k
    <3>1. CASE k = u
      BY <3>1, <2>3 DEF Path
    <3>2. CASE k \in tree[u].within
      BY <3>2, <2>2, <2>3 DEF Nested, Path
    <3>3. QED
      BY <3>1, <3>2, <2>3
  <2>6. tree[n].loop = u \/ tree[n].loop = tree[u].loop
    BY <1>4, <1>6 DEF Placed, LoopAt
  <2>7. ASSUME NEW k \in tree[n].within
        PROVE  tree[n].loop = tree[k].loop \/ tree[n].loop >= k
    <3>1. k \in Nat /\ k <= u
      BY <2>1, <2>2, <2>3 DEF Nested
    <3>2. CASE tree[n].loop = u
      BY <3>1, <3>2, <2>1
    <3>3. CASE tree[n].loop = tree[u].loop
      BY <3>3, <2>2, <2>3 DEF Nested
    <3>4. QED
      BY <3>2, <3>3, <2>6
  <2>8. ASSUME tree[n].loop # 0
        PROVE  /\ tree[n].loop \in tree[n].within
               /\ tree[tree[n].loop].kind \in Loops
               /\ \E m \in Path(n) : tree[m].up = tree[n].loop /\ tree[m].arm = "body"
    <3>1. CASE tree[u].kind \in Loops /\ tree[n].arm = "body"
      BY <3>1, <1>4, <1>6, <2>3 DEF Placed, LoopAt, Path
    <3>2. CASE ~(tree[u].kind \in Loops /\ tree[n].arm = "body")
      <4>1. tree[n].loop = tree[u].loop
        BY <3>2, <1>4, <1>6 DEF Placed, LoopAt
      <4>2. Path(u) \subseteq Path(n)
        BY <2>3 DEF Path
      <4>3. QED
        BY <4>1, <4>2, <2>2, <2>3, <2>8 DEF Nested
    <3>3. QED
      BY <3>1, <3>2
  <2>9. Nested(n)
    BY <2>4, <2>5, <2>7, <2>8 DEF Nested
  <2>10. QED
    BY <2>9
<1>7. QED
  BY <1>5, <1>6

\* The statements of a suite have all they stand in in common.
LEMMA Neighbours ==
  ASSUME TreeOK, NEW n \in Nodes, NEW k \in Suite(tree, tree[n].up, tree[n].arm)
  PROVE  /\ k \in Nodes
         /\ tree[k].up = tree[n].up /\ tree[k].arm = tree[n].arm
         /\ tree[k].loop = tree[n].loop
         /\ tree[k].within = tree[n].within
<1>1. k \in Nodes /\ tree[k].up = tree[n].up /\ tree[k].arm = tree[n].arm
  BY DEF Suite, Nodes
<1>2. Placed(n) /\ Placed(k)
  BY <1>1 DEF TreeOK
<1>3. tree[k].loop = tree[n].loop
  BY <1>1, <1>2, Zenon DEF Placed
<1>4. tree[k].within = tree[n].within
  BY <1>1, <1>2, Zenon DEF Placed
<1>5. QED
  BY <1>1, <1>3, <1>4

\* A statement inside another one comes after it.
LEMMA Below ==
  ASSUME TreeOK, NEW n \in Nodes, tree[n].up # 0
  PROVE  /\ tree[n].up \in Nodes /\ tree[n].up < n
         /\ tree[n].within = {tree[n].up} \union tree[tree[n].up].within
         /\ Path(n) = {n} \union Path(tree[n].up)
         /\ tree[tree[n].up].kind \in Compound
<1>1. Placed(n) /\ n \in 1..Len(tree) /\ Nodes = 1..Len(tree) /\ Len(tree) \in Nat
  BY NodesAre DEF TreeOK
<1>2. QED
  BY <1>1 DEF Placed, Path

\* The statements around a statement are statements, with theirs around them.
LEMMA PathsAreNodes ==
  ASSUME TreeOK, NEW n \in Nodes
  PROVE  /\ Path(n) \subseteq Nodes
         /\ n \in Path(n)
         /\ \A m \in Path(n) : Path(m) \subseteq Path(n) /\ m <= n
<1>1. Nested(n) /\ n \in 1..Len(tree) /\ Nodes = 1..Len(tree) /\ Len(tree) \in Nat
  BY NodesAre, Nesting
<1>2. tree[n].within \subseteq 1..n - 1
  BY <1>1 DEF Nested
<1>3. \A m \in tree[n].within : m \in 1..Len(tree) /\ m <= n
  BY <1>1, <1>2
<1>4. \A m \in tree[n].within : Path(m) \subseteq Path(n)
  BY <1>1 DEF Nested, Path
<1>5. QED
  BY <1>1, <1>3, <1>4 DEF Path

\* What Decls says of a declaration.
LEMMA DeclOK ==
  ASSUME decl \in Decls
  PROVE  /\ NoName \notin Names
         /\ Names \intersect {"True", "False", "opaque"} = {}
         /\ decl.bools \subseteq Names
         /\ decl.bools \intersect decl.mutable = {}
         /\ decl.guards \subseteq Guards
         /\ InFunction \in BOOLEAN
         /\ decl.kinds \subseteq AllKinds
         /\ Unassigned \subseteq Names
BY ProgramAssumption DEF Names, InFunction, Guards, Atoms, Unassigned

\* In a whole program every body has a statement.
LEMMA BodiesAreWritten ==
  ASSUME TreeOK, WholeProgram, NEW n \in Nodes, tree[n].kind \in Compound
  PROVE  Suite(tree, n, "body") # {}
BY DEF TreeOK, WholeProgram, SuiteDue

\* The first statement of a suite is in it.
LEMMA FirstOfSuite ==
  ASSUME TreeOK, NEW u, NEW a, Suite(tree, u, a) # {}
  PROVE  LET c == FirstOf(Suite(tree, u, a))
         IN c \in Nodes /\ tree[c].up = u /\ tree[c].arm = a /\ Earlier(tree, c) = {}
<1> DEFINE c == FirstOf(Suite(tree, u, a))
<1>1. Suite(tree, u, a) \in SUBSET Nat
  BY NodesAre DEF Suite, Nodes
<1>2. c \in Suite(tree, u, a) /\ \A k \in Suite(tree, u, a) : c <= k
  BY <1>1, LeastOf
<1> HIDE DEF c
<1>3. c \in Nodes /\ tree[c].up = u /\ tree[c].arm = a
  BY <1>2 DEF Suite, Nodes
<1>4. Earlier(tree, c) = {}
  <2>1. SUFFICES ASSUME NEW k \in Earlier(tree, c) PROVE FALSE
    OBVIOUS
  <2>2. k \in Suite(tree, u, a) /\ k < c
    BY <1>3 DEF Earlier
  <2>3. k \in Nat /\ c \in Nat /\ c <= k
    BY <1>1, <1>2, <2>2
  <2>4. QED
    BY <2>2, <2>3
<1>5. QED
  BY <1>3, <1>4 DEF c

-----------------------------------------------------------------------------
(* Writing the tree down keeps it in order, and so does all that follows.  *)

\* A sequence with one element more.
LEMMA Appended ==
  ASSUME NEW S, NEW s \in Seq(S), NEW e \in S, NEW r, r = Append(s, e)
  PROVE  /\ r \in Seq(S)
         /\ Len(r) = Len(s) + 1
         /\ DOMAIN r = 1..Len(s) + 1
         /\ DOMAIN s = 1..Len(s)
         /\ \A n \in 1..Len(s) : r[n] = s[n]
         /\ r[Len(s) + 1] = e
OBVIOUS

\* Parse adds a statement in its place.
LEMMA ParseKeepsTree ==
  ASSUME decl \in Decls, TreeOK, Parse
  PROVE  TreeOK'
<1>1. PICK kind \in decl.kinds, u \in 0..Len(tree), a \in {"body", "orelse"} :
        \E guard \in (IF kind \in {"If", "While"} THEN decl.guards ELSE {Opaque}),
           value \in (IF kind \in Binders THEN decl.values ELSE {AnyTruth}),
           name \in NamesFor(kind) :
          AddStatement(kind, guard, name, value, u, a)
  BY Zenon DEF Parse
<1>2. PICK guard \in (IF kind \in {"If", "While"} THEN decl.guards ELSE {Opaque}),
           value \in (IF kind \in Binders THEN decl.values ELSE {AnyTruth}),
           name \in NamesFor(kind) :
          AddStatement(kind, guard, name, value, u, a)
  BY <1>1, Zenon
<1> DEFINE N == Len(tree)
           new == [kind |-> kind, guard |-> guard, name |-> name, value |-> value,
                   up |-> u, arm |-> a, loop |-> LoopAt(u, a),
                   within |-> IF u = 0 THEN {} ELSE {u} \union tree[u].within]
<1>3. /\ tree' = Append(tree, new) /\ decl' = decl
      /\ Open(u) /\ HasPlace(u, a)
  BY <1>2, Zenon DEF AddStatement
<1>4. N \in Nat /\ Nodes = 1..N /\ tree \in Seq(Statements)
  BY NodesAre DEF TreeOK
<1>5. u # 0 => u \in Nodes /\ tree[u] \in Statements /\ tree[u].kind \in Compound
  BY <1>3, <1>4, NodesAre DEF HasPlace
<1>6. new \in Statements
  <2>1. kind \in AllKinds
    BY DeclOK
  <2>2. guard \in Guards
    <3>1. Opaque \in Guards
      BY DEF Opaque, Guards, Atoms
    <3>2. QED
      BY <3>1, DeclOK
  <2>3. name \in Names \union {NoName}
    BY DeclOK DEF NamesFor
  <2>4. value \in decl.values \union {AnyTruth}
    OBVIOUS
  <2>5. LoopAt(u, a) \in Nat
    BY <1>4, <1>5 DEF LoopAt, Statements
  <2>6. (IF u = 0 THEN {} ELSE {u} \union tree[u].within) \in SUBSET Nat
    BY <1>4, <1>5 DEF Statements
  <2>7. QED
    BY <1>4, <2>1, <2>2, <2>3, <2>4, <2>5, <2>6 DEF Statements, Arms
<1> HIDE DEF new
<1>7. /\ tree' \in Seq(Statements)
      /\ Len(tree') = N + 1
      /\ DOMAIN tree' = 1..N + 1
      /\ \A n \in 1..N : tree'[n] = tree[n]
      /\ tree'[N + 1] = new
  BY <1>3, <1>4, <1>6, Appended
<1>8. Statements' = Statements
  BY <1>3 DEF Statements, Guards, Atoms, Names
<1>9. ASSUME NEW n \in 1..N PROVE Placed(n)'
  <2>1. Placed(n)
    BY <1>4 DEF TreeOK
  <2>2. tree'[n] = tree[n]
    BY <1>7
  <2>3. tree[n].up # 0 => tree'[tree[n].up] = tree[tree[n].up]
    BY <1>4, <1>7, <2>1 DEF Placed
  <2>4. QED
    BY <2>1, <2>2, <2>3 DEF Placed, LoopAt
<1>10. ASSUME NEW n \in {N + 1} PROVE Placed(n)'
  <2>1. tree'[n] = new
    BY <1>7
  <2>2. u # 0 => tree'[u] = tree[u]
    BY <1>4, <1>5, <1>7
  <2>3. u \in 0..n - 1
    BY <1>4
  <2>4. u = 0 => a = "body"
    BY <1>3 DEF HasPlace
  <2>5. /\ new.up = u /\ new.arm = a /\ new.loop = LoopAt(u, a)
        /\ new.within = IF u = 0 THEN {} ELSE {u} \union tree[u].within
    BY DEF new
  <2>6. LoopAt(u, a)' = LoopAt(u, a)
    BY <2>2 DEF LoopAt
  <2>7. /\ tree'[n].up = u /\ tree'[n].arm = a /\ tree'[n].loop = LoopAt(u, a)'
        /\ tree'[n].within = IF u = 0 THEN {} ELSE {u} \union tree'[u].within
    BY <2>1, <2>2, <2>5, <2>6
  <2>8. u # 0 => tree'[u].kind \in Compound
    BY <1>5, <2>2
  <2>9. tree'[n].loop = LoopAt(tree[n].up, tree[n].arm)'
    BY <2>7 DEF LoopAt
  <2>10. QED
    BY <2>3, <2>4, <2>7, <2>8, <2>9, Zenon DEF Placed
<1>11. ASSUME NEW n \in 1..N, tree[n].kind \in Compound
       PROVE  Suite(tree', n, "body") # {}
  <2>1. CASE n # N
    <3>1. PICK m \in Suite(tree, n, "body") : TRUE
      BY <1>4, <1>11, <2>1 DEF TreeOK
    <3>2. m \in 1..N /\ tree[m].up = n /\ tree[m].arm = "body"
      BY <1>4 DEF Suite, Nodes
    <3>3. m \in Suite(tree', n, "body")
      BY <1>4, <1>7, <3>2 DEF Suite
    <3>4. QED
      BY <3>3
  <2>2. CASE n = N
    <3>1. SuiteDue
      BY <1>4, <1>11, <2>2 DEF SuiteDue
    <3>2. u = N
      BY <1>3, <3>1 DEF Open
    <3>3. ASSUME NEW m \in Suite(tree, N, "body") PROVE FALSE
      <4>1. m \in 1..N /\ tree[m].up = N
        BY <1>4 DEF Suite, Nodes
      <4>2. Placed(m)
        BY <1>4, <4>1 DEF TreeOK
      <4>3. QED
        BY <1>4, <4>1, <4>2 DEF Placed
    <3>4. a = "body"
      BY <1>3, <1>4, <2>2, <3>2, <3>3 DEF HasPlace
    <3>5. N + 1 \in Suite(tree', n, "body")
      BY <1>4, <1>7, <2>2, <3>2, <3>4 DEF Suite, new
    <3>6. QED
      BY <3>5
  <2>3. QED
    BY <2>1, <2>2
<1>12. ASSUME NEW n \in 1..N + 1 PROVE Placed(n)'
  <2>1. n \in 1..N \/ n \in {N + 1}
    BY <1>4
  <2>2. QED
    BY <1>9, <1>10, <2>1
<1>13. \A n \in 1..N + 1 : tree'[n].kind \in Compound /\ n # N + 1 => Suite(tree', n, "body") # {}
  BY <1>4, <1>7, <1>11
<1>14. QED
  BY <1>4, <1>7, <1>8, <1>12, <1>13 DEF TreeOK, Nodes

\* Being a tree, and whole, is a matter of the tree alone.
LEMMA TreeKeeps ==
  ASSUME UNCHANGED <<decl, tree>>
  PROVE  (TreeOK' <=> TreeOK) /\ (WholeProgram' <=> WholeProgram)
<1>1. Statements' = Statements /\ Nodes' = Nodes
  BY DEF Statements, Guards, Atoms, Names, Nodes
<1>2. \A n : Placed(n)' <=> Placed(n)
  BY DEF Placed, LoopAt
<1>3. \A n : Suite(tree, n, "body")' = Suite(tree, n, "body")
  BY DEF Suite
<1>4. TreeOK' <=> TreeOK
  BY <1>1, <1>2, <1>3 DEF TreeOK
<1>5. WholeProgram' <=> WholeProgram
  BY DEF WholeProgram, SuiteDue
<1>6. QED
  BY <1>4, <1>5


-----------------------------------------------------------------------------
(* Statements are written down in the order of the text: what is inside a  *)
(* statement follows it, its body before its else, and nothing between.    *)

SourceOrder ==
  /\ \A n, k \in Nodes : \A u \in tree[n].within : u < k /\ k < n => u \in tree[k].within
  /\ \A n, k \in Nodes : tree[n].up = tree[k].up /\ tree[n].arm = "body" /\ tree[k].arm = "orelse"
                           => n < k
  /\ \A n \in Nodes : /\ tree[n].kind \in decl.kinds
                      /\ tree[n].name \in NamesFor(tree[n].kind)
                      /\ tree[n].kind \in Binders => tree[n].value \in decl.values
                      /\ decl.stray \/ Legal(tree[n].kind, tree[n].loop)

\* Parse adds a statement at the end of the text, inside what is open there.
LEMMA ParseKeepsOrder ==
  ASSUME decl \in Decls, TreeOK, SourceOrder, Parse
  PROVE  SourceOrder'
<1>1. PICK kind \in decl.kinds, u \in 0..Len(tree), a \in {"body", "orelse"} :
        \E guard \in (IF kind \in {"If", "While"} THEN decl.guards ELSE {Opaque}),
           value \in (IF kind \in Binders THEN decl.values ELSE {AnyTruth}),
           name \in NamesFor(kind) :
          AddStatement(kind, guard, name, value, u, a)
  BY Zenon DEF Parse
<1>2. PICK guard \in (IF kind \in {"If", "While"} THEN decl.guards ELSE {Opaque}),
           value \in (IF kind \in Binders THEN decl.values ELSE {AnyTruth}),
           name \in NamesFor(kind) :
          AddStatement(kind, guard, name, value, u, a)
  BY <1>1, Zenon
<1> DEFINE N == Len(tree)
           new == [kind |-> kind, guard |-> guard, name |-> name, value |-> value,
                   up |-> u, arm |-> a, loop |-> LoopAt(u, a),
                   within |-> IF u = 0 THEN {} ELSE {u} \union tree[u].within]
<1>3. /\ tree' = Append(tree, new) /\ decl' = decl
      /\ Open(u) /\ HasPlace(u, a) /\ (decl.stray \/ Legal(kind, LoopAt(u, a)))
      /\ kind \in Binders => value \in decl.values
  BY <1>2, Zenon DEF AddStatement
<1>4. N \in Nat /\ Nodes = 1..N /\ tree \in Seq(Statements)
  BY NodesAre DEF TreeOK
<1>5. u # 0 => u \in Nodes
  BY <1>3, <1>4 DEF HasPlace
<1>6. /\ new.up = u /\ new.arm = a /\ new.kind = kind /\ new.name = name /\ new.loop = LoopAt(u, a)
      /\ new.value = value
      /\ new.within = IF u = 0 THEN {} ELSE {u} \union tree[u].within
  OBVIOUS
<1> HIDE DEF new
<1>7. /\ DOMAIN tree' = 1..N + 1
      /\ \A n \in 1..N : tree'[n] = tree[n]
      /\ tree'[N + 1] = new
  BY <1>3, <1>4, Appended
<1>8. Nodes' = Nodes \union {N + 1}
  BY <1>4, <1>7 DEF Nodes
<1>9. ASSUME NEW k \in Nodes, NEW m \in new.within, m < k
      PROVE  m \in tree[k].within
  <2>1. u # 0 /\ u \in Nodes /\ k \in Nat /\ u \in Nat /\ (m = u \/ m \in tree[u].within)
    BY <1>4, <1>5, <1>6, <1>9
  <2>2. CASE k < u
    <3>1. m \in tree[u].within
      BY <1>9, <2>1, <2>2
    <3>2. QED
      BY <1>9, <2>1, <2>2, <3>1 DEF SourceOrder
  <2>3. CASE k = u
    BY <1>9, <2>1, <2>3
  <2>4. CASE u < k
    <3>1. u \in tree[k].within
      <4>1. CASE SuiteDue
        BY <1>3, <1>4, <2>1, <2>4, <4>1 DEF Open
      <4>2. CASE ~SuiteDue
        BY <1>3, <2>1, <2>4, <4>2 DEF Open
      <4>3. QED
        BY <4>1, <4>2
    <3>2. tree[u].within \subseteq tree[k].within
      BY <3>1, Nesting DEF Nested
    <3>3. QED
      BY <2>1, <3>1, <3>2
  <2>5. QED
    BY <2>1, <2>2, <2>3, <2>4
<1>10. ASSUME NEW n \in Nodes', NEW k \in Nodes', NEW m \in tree'[n].within, m < k, k < n
       PROVE  m \in tree'[k].within
  <2>1. k \in Nodes /\ tree'[k] = tree[k]
    BY <1>4, <1>7, <1>8, <1>10
  <2>2. CASE n \in Nodes
    <3>1. tree'[n] = tree[n]
      BY <1>4, <1>7, <2>2
    <3>2. QED
      BY <1>10, <2>1, <2>2, <3>1 DEF SourceOrder
  <2>3. CASE n = N + 1
    BY <1>7, <1>9, <1>10, <2>1, <2>3
  <2>4. QED
    BY <1>8, <2>2, <2>3
<1>11. ASSUME NEW n \in Nodes', NEW k \in Nodes', tree'[n].up = tree'[k].up,
              tree'[n].arm = "body", tree'[k].arm = "orelse"
       PROVE  n < k
  <2>1. CASE n \in Nodes /\ k \in Nodes
    <3>1. tree'[n] = tree[n] /\ tree'[k] = tree[k]
      BY <1>4, <1>7, <2>1
    <3>2. QED
      BY <1>11, <2>1, <3>1 DEF SourceOrder
  <2>2. CASE n \in Nodes /\ k = N + 1
    BY <1>4, <2>2
  <2>3. CASE n = N + 1
    <3>1. a = "body" /\ tree'[n].up = u
      BY <1>6, <1>7, <1>11, <2>3
    <3>2. CASE k = N + 1
      BY <1>6, <1>7, <1>11, <3>1, <3>2
    <3>3. CASE k \in Nodes
      <4>1. tree'[k] = tree[k]
        BY <1>4, <1>7, <3>3
      <4>2. k \in Suite(tree, u, "orelse")
        BY <1>11, <3>1, <3>3, <4>1 DEF Suite, Nodes
      <4>3. u # 0
        BY <1>11, <3>1, <3>3, <4>1 DEF TreeOK, Placed
      <4>4. QED
        BY <1>3, <3>1, <4>2, <4>3 DEF HasPlace
    <3>4. QED
      BY <1>8, <3>2, <3>3
  <2>4. QED
    BY <1>8, <2>1, <2>2, <2>3
<1>12. ASSUME NEW n \in Nodes'
       PROVE  /\ tree'[n].kind \in decl'.kinds
              /\ tree'[n].name \in NamesFor(tree'[n].kind)
              /\ tree'[n].kind \in Binders => tree'[n].value \in decl'.values
              /\ decl'.stray \/ Legal(tree'[n].kind, tree'[n].loop)
  <2>1. CASE n \in Nodes
    <3>1. tree'[n] = tree[n]
      BY <1>4, <1>7, <2>1
    <3>2. QED
      BY <1>3, <2>1, <3>1 DEF SourceOrder
  <2>2. CASE n = N + 1
    BY <1>3, <1>6, <1>7, <2>2
  <2>3. QED
    BY <1>8, <2>1, <2>2
<1>13. \A x, y : NamesFor(x)' = NamesFor(x) /\ (Legal(x, y)' <=> Legal(x, y))
  BY <1>3 DEF NamesFor, Names, Unassigned, Legal, InFunction
<1>14. QED
  BY <1>10, <1>11, <1>12, <1>13 DEF SourceOrder
=============================================================================
