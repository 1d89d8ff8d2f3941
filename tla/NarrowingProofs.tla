-------------------------- MODULE NarrowingProofs --------------------------
(***************************************************************************)
(* What the type checker takes for dead is dead, and what it takes a name  *)
(* to hold is what it holds, whatever the body: proofs of the properties   *)
(* of Reachability, then of those of Narrowing.                            *)
(***************************************************************************)
EXTENDS Narrowing, PyProgramProofs, SequenceTheorems


-----------------------------------------------------------------------------
(* Headers: an answer about a guard is right when the name it takes for    *)
(* true is true.                                                           *)

\* A literal guard is decided as it comes out; a name that is found true is.
LEMMA LiteralSound ==
  ASSUME decl \in Decls, NEW g \in Guards, NEW b \in Outcomes(g)
  PROVE  /\ b \in BOOLEAN
         /\ (IF b THEN "body" ELSE "orelse") \in LiveArms(literal_guard_verdict(g))
         /\ b /\ ~g.negated /\ g.atom \in Names => env[g.atom] = "true"
<1>1. g.negated \in BOOLEAN /\ g.atom \in Atoms
  BY DEF Guards
<1>2. CASE g.atom = "True"
  BY <1>1, <1>2, DeclOK DEF Outcomes, LiveArms, literal_guard_verdict, Invert
<1>3. CASE g.atom = "False"
  BY <1>1, <1>3, DeclOK DEF Outcomes, LiveArms, literal_guard_verdict, Invert
<1>4. CASE g.atom \notin {"True", "False"}
  <2>1. literal_guard_verdict(g) = "Unknown"
    BY <1>4 DEF literal_guard_verdict, Invert
  <2>2. "body" \in LiveArms("Unknown") /\ "orelse" \in LiveArms("Unknown")
    BY DEF LiveArms
  <2>3. CASE g.atom = "opaque"
    BY <1>1, <2>1, <2>2, <2>3, DeclOK DEF Outcomes
  <2>4. CASE g.atom # "opaque"
    <3>1. PICK c \in {env[g.atom] = "true"} : b = (c # g.negated)
      BY <1>4, <2>4, Zenon DEF Outcomes
    <3>2. b \in BOOLEAN /\ (b /\ ~g.negated => env[g.atom] = "true")
      BY <1>1, <3>1
    <3>3. QED
      BY <2>1, <2>2, <3>2
  <2>5. QED
    BY <2>3, <2>4
<1>5. QED
  BY <1>2, <1>3, <1>4

\* So is a guard on a name that is narrowed to true, where the name is true.
LEMMA GuardSound ==
  ASSUME decl \in Decls, NEW g \in Guards, NEW b \in Outcomes(g),
         NEW x \in Names \union {NoName}, x # NoName => env[x] = "true"
  PROVE  (IF b THEN "body" ELSE "orelse") \in LiveArms(guard_verdict(g, x))
<1>1. g.negated \in BOOLEAN /\ g.atom \in Atoms
  BY DEF Guards
<1>2. CASE literal_guard_verdict(g) # "Unknown"
  BY <1>2, LiteralSound DEF guard_verdict
<1>3. CASE literal_guard_verdict(g) = "Unknown" /\ g.atom # x
  BY <1>3 DEF guard_verdict, narrowing_guard_verdict, LiveArms
<1>4. CASE literal_guard_verdict(g) = "Unknown" /\ g.atom = x
  <2>1. x # NoName
    BY <1>1, <1>4, DeclOK DEF Atoms, NoName
  <2>2. x \in Names /\ x \notin {"True", "False", "opaque"}
    BY <2>1, DeclOK
  <2>3. env[x] = "true"
    BY <2>1
  <2>4. PICK c \in {env[g.atom] = "true"} : b = (c # g.negated)
    BY <1>4, <2>2, Zenon DEF Outcomes
  <2>5. b = ~g.negated
    BY <1>1, <1>4, <2>3, <2>4
  <2>6. guard_verdict(g, x) = IF g.negated THEN "AlwaysFalse" ELSE "AlwaysTrue"
    BY <1>4 DEF guard_verdict, narrowing_guard_verdict
  <2>7. QED
    BY <1>1, <2>5, <2>6 DEF LiveArms
<1>5. QED
  BY <1>2, <1>3, <1>4

-----------------------------------------------------------------------------
(* The table of answers exists, and an answer in it is the one that        *)
(* follows from the others.                                                *)

Row(g, n) == IF n > Len(tree) THEN <<>>
             ELSE [m \in n..Len(tree) |-> IF m = n THEN Answer(tree, g[n + 1], n)
                                                   ELSE g[n + 1][m]]

\* A row depends on the row after it only.
LEMMA RowsAgree ==
  ASSUME NEW g, NEW h, NEW n \in Nat, Len(tree) \in Nat,
         n <= Len(tree) => g[n + 1] = h[n + 1]
  PROVE  Row(g, n) = Row(h, n)
<1>1. CASE n <= Len(tree)
  BY <1>1 DEF Row
<1>2. CASE ~(n <= Len(tree))
  BY <1>2 DEF Row
<1>3. QED
  BY <1>1, <1>2

\* So there is a table: built from the last row back.
LEMMA TableExists ==
  ASSUME Len(tree) \in Nat
  PROVE  \E g : g = [n \in 1..Len(tree) + 1 |-> Row(g, n)]
<1> DEFINE M == Len(tree) + 1
           Up(k) == \E g : g = [n \in k..M |-> Row(g, n)]
           T == {k \in 1..M : Up(k)}
<1>1. M \in T
  <2> DEFINE g == [n \in M..M |-> <<>>]
  <2>1. \A n \in M..M : Row(g, n) = <<>> /\ g[n] = <<>>
    BY DEF Row
  <2>2. g = [n \in M..M |-> g[n]]
    OBVIOUS
  <2> HIDE DEF g
  <2>3. g = [n \in M..M |-> Row(g, n)]
    BY <2>1, <2>2
  <2>4. Up(M)
    BY <2>3
  <2>5. QED
    BY <2>4
<1>2. ASSUME NEW k \in 1..M, k # M, k + 1 \in T
      PROVE  k \in T
  <2>1. PICK g : g = [n \in k + 1..M |-> Row(g, n)]
    BY <1>2
  <2> DEFINE h == [n \in k..M |-> IF n = k THEN Row(g, k) ELSE g[n]]
  <2>2. \A n \in k + 1..M : h[n] = g[n]
    OBVIOUS
  <2>3. ASSUME NEW n \in k..M PROVE h[n] = Row(h, n)
    <3>1. n <= Len(tree) => h[n + 1] = g[n + 1]
      BY <2>2
    <3> HIDE DEF h
    <3>2. Row(h, n) = Row(g, n)
      BY <3>1, RowsAgree
    <3>3. CASE n = k
      BY <3>2, <3>3 DEF h
    <3>4. CASE n # k
      <4>1. n \in k + 1..M
        BY <3>4
      <4>2. g[n] = Row(g, n)
        BY <2>1, <4>1
      <4>3. QED
        BY <2>2, <3>2, <4>1, <4>2
    <3>5. QED
      BY <3>3, <3>4
  <2>4. h = [n \in k..M |-> h[n]]
    OBVIOUS
  <2> HIDE DEF h
  <2>5. h = [n \in k..M |-> Row(h, n)]
    BY <2>3, <2>4
  <2>6. QED
    BY <2>5
<1> HIDE DEF T
<1>3. \A k \in 1..M : k \in T
  BY <1>1, <1>2, Downward
<1>4. QED
  BY <1>3 DEF T

\* Tabulated is that table.
LEMMA Rows ==
  ASSUME Len(tree) \in Nat
  PROVE  \A n \in 1..Len(tree) + 1 : Tabulated[n] = Row(Tabulated, n)
<1>1. Tabulated = CHOOSE g : g = [n \in 1..Len(tree) + 1 |-> Row(g, n)]
  BY DEF Tabulated, Row
<1>2. Tabulated = [n \in 1..Len(tree) + 1 |-> Row(Tabulated, n)]
  BY <1>1, TableExists
<1>3. QED
  BY <1>2

\* statement_always_leaves, kind by kind.
LEMMA LeavesByKind ==
  ASSUME NEW v, NEW n, NEW place
  PROVE  statement_always_leaves(tree, v, n, place) <=>
           \/ tree[n].kind = "Return" /\ InFunction
           \/ tree[n].kind \in {"Break", "Continue"} /\ place.in_loop
           \/ tree[n].kind = "If" /\ if_always_leaves(tree, v, n, place)
           \/ tree[n].kind \in Loops /\ loop_always_leaves(tree, v, n, place)
<1> DEFINE kind == tree[n].kind
<1> USE DEF Loops
<1>1. CASE kind = "Return"
  BY <1>1 DEF statement_always_leaves
<1>2. CASE kind \in {"Break", "Continue"}
  BY <1>2 DEF statement_always_leaves
<1>3. CASE kind = "If"
  BY <1>3 DEF statement_always_leaves
<1>4. CASE kind \in Loops
  BY <1>4 DEF statement_always_leaves
<1>5. CASE kind \notin {"Return", "Break", "Continue", "If"} \union Loops
  BY <1>5 DEF statement_always_leaves
<1>6. QED
  BY <1>1, <1>2, <1>3, <1>4, <1>5

\* An answer looks at the answers for what is inside the statement, and no other.
LEMMA AnswersAreLocal ==
  ASSUME NEW n, NEW v, NEW w,
         \A a \in Arms : \A m \in Suite(tree, n, a) : v[m] = w[m]
  PROVE  Answer(tree, v, n) = Answer(tree, w, n)
<1>1. ASSUME NEW a \in Arms, NEW m \in Suite(tree, n, a)
      PROVE  Earlier(tree, m) \subseteq Suite(tree, n, a)
  BY DEF Suite, Earlier
<1>2. \A place : \A a \in Arms : always_leaves_branch(tree, v, n, a, place)
                                = always_leaves_branch(tree, w, n, a, place)
  BY DEF always_leaves_branch
<1>3. \A x : \A a \in Arms : contains_reachable_break(tree, v, n, a, x)
                            = contains_reachable_break(tree, w, n, a, x)
  <2>1. SUFFICES ASSUME NEW a \in Arms, NEW x
                 PROVE  contains_reachable_break(tree, v, n, a, x)
                          = contains_reachable_break(tree, w, n, a, x)
    OBVIOUS
  <2>2. ASSUME NEW m \in Suite(tree, n, a)
        PROVE  v[m] = w[m] /\ \A k \in Earlier(tree, m) : v[k] = w[k]
    BY <1>1
  <2>3. QED
    BY <2>2, Zenon DEF contains_reachable_break
<1>4. \A a \in Arms : always_returns(tree, v, n, a) = always_returns(tree, w, n, a)
  BY DEF always_returns
<1>5. \A a \in Arms : BoundIn(tree, v, n, a) = BoundIn(tree, w, n, a)
  <2>1. SUFFICES ASSUME NEW a \in Arms
                 PROVE  BoundIn(tree, v, n, a) = BoundIn(tree, w, n, a)
    OBVIOUS
  <2>2. {v[m].binds : m \in Suite(tree, n, a)} = {w[m].binds : m \in Suite(tree, n, a)}
    OBVIOUS
  <2>3. QED
    BY <2>2 DEF BoundIn
<1>6. "body" \in Arms /\ "orelse" \in Arms
      /\ (\A verdict : LiveArms(verdict) \subseteq Arms /\ LiveArm(verdict) \in Arms)
  BY DEF Arms, LiveArms, LiveArm
<1>7. loop_narrows_truthy(tree, v, n) = loop_narrows_truthy(tree, w, n)
  BY <1>5, <1>6 DEF loop_narrows_truthy
<1>8. \A place : statement_always_leaves(tree, v, n, place)
                   = statement_always_leaves(tree, w, n, place)
  <2>1. SUFFICES ASSUME NEW place
                 PROVE  statement_always_leaves(tree, v, n, place)
                          = statement_always_leaves(tree, w, n, place)
    OBVIOUS
  <2>2. if_always_leaves(tree, v, n, place) = if_always_leaves(tree, w, n, place)
    BY <1>2, <1>6 DEF if_always_leaves
  <2>3. loop_always_leaves(tree, v, n, place) = loop_always_leaves(tree, w, n, place)
    BY <1>2, <1>3, <1>6 DEF loop_always_leaves
  <2>4. QED
    BY <2>2, <2>3 DEF statement_always_leaves
<1>9. \A x : statement_breaks(tree, v, n, x) = statement_breaks(tree, w, n, x)
  BY <1>3, <1>6 DEF statement_breaks
<1>10. statement_returns(tree, v, n) = statement_returns(tree, w, n)
  BY <1>3, <1>4, <1>6, <1>7 DEF statement_returns, loop_else_always_returns
<1>11. statement_binds(tree, v, n) = statement_binds(tree, w, n)
  BY <1>5, <1>6 DEF statement_binds
<1>12. [place \in Places |-> statement_always_leaves(tree, v, n, place)]
         = [place \in Places |-> statement_always_leaves(tree, w, n, place)]
  BY <1>8, Zenon
<1>13. [x \in Names \union {NoName} |-> statement_breaks(tree, v, n, x)]
         = [x \in Names \union {NoName} |-> statement_breaks(tree, w, n, x)]
  BY <1>9, Zenon
<1>14. QED
  BY <1>10, <1>11, <1>12, <1>13, Zenon DEF Answer

\* An answer stays as it is in all rows before its own.
LEMMA RowsShareAnswers ==
  ASSUME TreeOK, NEW m \in Nodes
  PROVE  \A n \in 1..m : Tabulated[n][m] = Tabulated[m][m]
<1>1. Len(tree) \in Nat /\ m \in 1..Len(tree) /\ m \in Nat
  BY NodesAre
<1> DEFINE T == {n \in 1..m : Tabulated[n][m] = Tabulated[m][m]}
<1>2. ASSUME NEW n \in 1..m, n # m, n + 1 \in T PROVE n \in T
  <2>1. Tabulated[n] = Row(Tabulated, n)
    BY <1>1, Rows
  <2>2. Tabulated[n][m] = Tabulated[n + 1][m]
    BY <1>1, <1>2, <2>1 DEF Row
  <2>3. QED
    BY <1>2, <2>2
<1>3. m \in T
  BY <1>1
<1> HIDE DEF T
<1>4. \A n \in 1..m : n \in T
  BY <1>1, <1>2, <1>3, Downward
<1>5. QED
  BY <1>4 DEF T

Table == \A n \in Nodes : answer[n] = Answer(tree, answer, n)

\* The first row answers every statement from the answers in itself.
LEMMA TableOK ==
  ASSUME TreeOK
  PROVE  \A n \in Nodes : Tabulated[1][n] = Answer(tree, Tabulated[1], n)
<1>1. SUFFICES ASSUME NEW n \in Nodes
               PROVE  Tabulated[1][n] = Answer(tree, Tabulated[1], n)
  OBVIOUS
<1>2. Len(tree) \in Nat /\ Nodes = 1..Len(tree) /\ n \in 1..Len(tree) /\ n \in Nat
  BY NodesAre
<1>3. Tabulated[1][n] = Tabulated[n][n]
  BY <1>2, RowsShareAnswers
<1>4. Tabulated[n] = Row(Tabulated, n)
  BY <1>2, Rows
<1>5. Tabulated[n][n] = Answer(tree, Tabulated[n + 1], n)
  BY <1>2, <1>4 DEF Row
<1>6. ASSUME NEW a \in Arms, NEW m \in Suite(tree, n, a)
      PROVE  Tabulated[n + 1][m] = Tabulated[1][m]
  <2>1. m \in Nodes /\ Placed(m) /\ tree[m].up = n
    BY DEF Suite, TreeOK, Nodes
  <2>2. m \in n + 1..Len(tree) /\ n + 1 \in 1..m /\ 1 \in 1..m
    BY <1>2, <2>1 DEF Placed
  <2>3. QED
    BY <2>1, <2>2, RowsShareAnswers
<1>7. Answer(tree, Tabulated[n + 1], n) = Answer(tree, Tabulated[1], n)
  BY <1>6, AnswersAreLocal
<1>8. QED
  BY <1>3, <1>5, <1>7

-----------------------------------------------------------------------------
(* What it takes for a statement to be said to complete, kind by kind.     *)

Tracked == Names \union {NoName}
Leaves(n, in_loop, x) == answer[n].leaves[Place(in_loop, x)]
Breaks(n, x) == answer[n].breaks[x]
Returns(n) == answer[n].returns
Breakable(n, x) == contains_reachable_break(tree, answer, n, "body", x)
Verdict(n) == literal_guard_verdict(tree[n].guard)
Narrows(n) == loop_narrows_truthy(tree, answer, n)

\* The answer table, looked into, is the answer of the checker's recursion.
LEMMA Answers ==
  ASSUME Table, NEW n \in Nodes
  PROVE  /\ \A b \in BOOLEAN, x \in Tracked :
              Leaves(n, b, x) = statement_always_leaves(tree, answer, n, Place(b, x))
         /\ \A x \in Tracked : Breaks(n, x) = statement_breaks(tree, answer, n, x)
         /\ Returns(n) = statement_returns(tree, answer, n)
         /\ answer[n].binds = statement_binds(tree, answer, n)
<1>1. answer[n] = Answer(tree, answer, n)
  BY DEF Table
<1>2. ASSUME NEW b \in BOOLEAN, NEW x \in Tracked PROVE Place(b, x) \in Places
  BY DEF Place, Places, Tracked
<1>3. /\ answer[n].leaves = [place \in Places |-> statement_always_leaves(tree, answer, n, place)]
      /\ answer[n].breaks = [x \in Tracked |-> statement_breaks(tree, answer, n, x)]
      /\ answer[n].returns = statement_returns(tree, answer, n)
      /\ answer[n].binds = statement_binds(tree, answer, n)
  BY <1>1 DEF Answer, Tracked
<1>4. QED
  BY <1>2, <1>3, Zenon DEF Leaves, Breaks, Returns

\* A statement that is not compound and does not jump is not said to leave.
LEMMA PlainCompletes ==
  ASSUME Table, NEW n \in Nodes, NEW b \in BOOLEAN, NEW x \in Tracked,
         tree[n].kind \notin Compound,
         tree[n].kind = "Return" => ~InFunction,
         tree[n].kind \in {"Break", "Continue"} => ~b
  PROVE  ~Leaves(n, b, x)
<1>1. Place(b, x).in_loop = b
  BY DEF Place
<1>2. tree[n].kind # "If" /\ tree[n].kind \notin Loops
      /\ (tree[n].kind \in {"Break", "Continue"} => ~Place(b, x).in_loop)
  BY <1>1, Zenon DEF Compound
<1>3. ~statement_always_leaves(tree, answer, n, Place(b, x))
  BY <1>1, <1>2, LeavesByKind, Zenon
<1>4. QED
  BY <1>3, Answers, Zenon

\* An if is not said to leave if an arm that may be taken is not.
LEMMA IfCompletes ==
  ASSUME Table, NEW n \in Nodes, NEW b \in BOOLEAN, NEW x \in Tracked, tree[n].kind = "If",
         NEW a \in LiveArms(guard_verdict(tree[n].guard, x)),
         \A m \in Suite(tree, n, a) : ~Leaves(m, b, x) /\ ~Leaves(m, b, NoName)
  PROVE  ~Leaves(n, b, x)
<1> DEFINE verdict == guard_verdict(tree[n].guard, x)
           p == Place(b, x)
<1>1. p.narrowed = x /\ p.in_loop = b
  BY DEF Place
<1>2. ~always_leaves_branch(tree, answer, n, a, p)
  BY Zenon DEF always_leaves_branch, Leaves
<1>3. ~always_leaves_branch(tree, answer, n, a, Place(b, NoName))
  BY Zenon DEF always_leaves_branch, Leaves
<1>4. CASE verdict # "Unknown"
  <2>1. verdict \in {"AlwaysTrue", "AlwaysFalse"}
    BY <1>4 DEF guard_verdict, literal_guard_verdict, narrowing_guard_verdict, Invert
  <2>2. a = LiveArm(verdict)
    BY <2>1 DEF LiveArms, LiveArm
  <2>3. ~if_always_leaves(tree, answer, n, p)
    BY <1>1, <1>2, <1>4, <2>2 DEF if_always_leaves
  <2>4. QED
    BY <2>3, LeavesByKind, Answers, Zenon DEF Loops
<1>5. CASE verdict = "Unknown"
  <2>1. a \in {"body", "orelse"}
    BY <1>5 DEF LiveArms
  <2>2. ~if_always_leaves(tree, answer, n, p)
    BY <1>1, <1>3, <1>5, <2>1 DEF if_always_leaves
  <2>3. QED
    BY <2>2, LeavesByKind, Answers, Zenon DEF Loops
<1>6. QED
  BY <1>4, <1>5

\* A loop that ends by its header and completes its else.
LEMMA LoopCompletes ==
  ASSUME Table, NEW n \in Nodes, NEW b \in BOOLEAN, NEW x \in Tracked, tree[n].kind \in Loops,
         tree[n].kind = "While" => Verdict(n) # "AlwaysTrue",
         \A m \in Suite(tree, n, "orelse") : ~Leaves(m, b, NoName)
  PROVE  ~Leaves(n, b, x)
<1>1. Place(b, x).in_loop = b
  BY DEF Place
<1>2. ~always_leaves_branch(tree, answer, n, "orelse", Place(b, NoName))
  BY Zenon DEF always_leaves_branch, Leaves
<1>3. ~loop_always_leaves(tree, answer, n, Place(b, x))
  BY <1>1, <1>2 DEF loop_always_leaves, Verdict
<1>4. tree[n].kind \notin {"Return", "Break", "Continue", "If"}
  BY DEF Loops
<1>5. QED
  BY <1>3, <1>4, LeavesByKind, Answers, Zenon

\* A loop that is left by a break.
LEMMA BrokenLoopCompletes ==
  ASSUME Table, NEW n \in Nodes, NEW b \in BOOLEAN, NEW x \in Tracked, tree[n].kind \in Loops,
         tree[n].kind = "While" => Verdict(n) # "AlwaysFalse",
         Breakable(n, NoName)
  PROVE  ~Leaves(n, b, x)
<1>1. ~loop_always_leaves(tree, answer, n, Place(b, x))
  BY DEF loop_always_leaves, Verdict, Breakable
<1>2. tree[n].kind \notin {"Return", "Break", "Continue", "If"}
  BY DEF Loops
<1>3. QED
  BY <1>1, <1>2, LeavesByKind, Answers, Zenon

\* A statement that is not compound and no return is not said to return.
LEMMA PlainDoesNotReturn ==
  ASSUME Table, NEW n \in Nodes, tree[n].kind \notin {"Return"} \union Compound
  PROVE  ~Returns(n)
<1>1. ~statement_returns(tree, answer, n)
  BY DEF statement_returns, Compound, Loops
<1>2. QED
  BY <1>1, Answers, Zenon

\* An if is not said to return if an arm that may be taken is not.
LEMMA IfDoesNotReturn ==
  ASSUME Table, NEW n \in Nodes, tree[n].kind = "If",
         NEW a \in LiveArms(Verdict(n)),
         \A m \in Suite(tree, n, a) : ~Returns(m)
  PROVE  ~Returns(n)
<1>1. ~always_returns(tree, answer, n, a)
  BY Zenon DEF always_returns, Returns
<1>2. ~statement_returns(tree, answer, n)
  BY <1>1 DEF statement_returns, Loops, Verdict
<1>3. QED
  BY <1>2, Answers, Zenon

\* A loop that may end by its test is not said to return if its else is not.
LEMMA LoopDoesNotReturn ==
  ASSUME Table, NEW n \in Nodes, tree[n].kind \in Loops,
         tree[n].kind = "While" => Verdict(n) # "AlwaysTrue",
         \A m \in Suite(tree, n, "orelse") : ~Returns(m)
  PROVE  ~Returns(n)
<1>1. ~always_returns(tree, answer, n, "orelse")
  BY Zenon DEF always_returns, Returns
<1>2. ~statement_returns(tree, answer, n)
  BY <1>1 DEF statement_returns, loop_else_always_returns, Loops, Verdict
<1>3. QED
  BY <1>2, Answers, Zenon

\* A loop with a break in reach is not said to return.
LEMMA BrokenLoopDoesNotReturn ==
  ASSUME Table, NEW n \in Nodes, tree[n].kind \in Loops,
         tree[n].kind = "While" => Verdict(n) # "AlwaysFalse",
         Breakable(n, NoName), Breakable(n, Narrows(n))
  PROVE  ~Returns(n)
<1>1. ~statement_returns(tree, answer, n)
  BY DEF statement_returns, loop_else_always_returns, Loops, Verdict, Breakable, Narrows
<1>2. QED
  BY <1>1, Answers, Zenon

-----------------------------------------------------------------------------
(* Names held true by the headers around a statement, and what is known of *)
(* a statement that control has come to.                                   *)

Held(n, x) == \/ x = NoName
              \/ \E m \in Path(n) : /\ tree[m].up # 0 /\ tree[m].arm = "body"
                                    /\ x = Narrows(tree[m].up)

Live(n) ==
  LET u == tree[n].up
  IN /\ \A k \in Earlier(tree, n), x \in Tracked : Held(n, x) => ~Leaves(k, InLoopBody(n), x)
     /\ InFunction => \A k \in Earlier(tree, n) : ~Returns(k)
     /\ u # 0 /\ tree[u].kind \in {"If", "While"} => tree[n].arm \in LiveArms(Verdict(u))
     /\ u # 0 /\ tree[u].kind = "If" =>
          \A x \in Tracked : Held(u, x) =>
            tree[n].arm \in LiveArms(guard_verdict(tree[u].guard, x))

\* What is held inside an arm: what is held outside, and what the header of a body says.
LEMMA HeldInside ==
  ASSUME TreeOK, NEW n \in Nodes, tree[n].up # 0
  PROVE  \A x : Held(n, x) <=> \/ Held(tree[n].up, x)
                               \/ tree[n].arm = "body" /\ x = Narrows(tree[n].up)
<1>1. Path(n) = {n} \union Path(tree[n].up)
  BY Below
<1>2. QED
  BY <1>1, Zenon DEF Held

\* The statements of a suite are under the same headers.
LEMMA HeldAlike ==
  ASSUME TreeOK, NEW n \in Nodes, NEW k \in Suite(tree, tree[n].up, tree[n].arm)
  PROVE  \A x : Held(k, x) <=> Held(n, x)
<1>1. /\ k \in Nodes /\ tree[k].up = tree[n].up /\ tree[k].arm = tree[n].arm
      /\ tree[k].within = tree[n].within
  BY Neighbours
<1>2. CASE tree[n].up = 0
  <2>1. tree[n].within = {} /\ tree[k].within = {}
    BY <1>1, <1>2 DEF TreeOK, Placed
  <2>2. QED
    BY <1>1, <1>2, <2>1 DEF Held, Path
<1>3. CASE tree[n].up # 0
  <2>1. \A x : Held(n, x) <=> \/ Held(tree[n].up, x)
                              \/ tree[n].arm = "body" /\ x = Narrows(tree[n].up)
    BY <1>3, HeldInside
  <2>2. \A x : Held(k, x) <=> \/ Held(tree[k].up, x)
                              \/ tree[k].arm = "body" /\ x = Narrows(tree[k].up)
    BY <1>1, <1>3, HeldInside
  <2>3. QED
    BY <1>1, <2>1, <2>2
<1>4. QED
  BY <1>2, <1>3

\* What an outer header says is said inside.
LEMMA HeldAround ==
  ASSUME TreeOK, NEW n \in Nodes, NEW m \in Path(n)
  PROVE  \A x : Held(m, x) => Held(n, x)
<1>1. Path(m) \subseteq Path(n)
  BY PathsAreNodes
<1>2. QED
  BY <1>1 DEF Held

\* A statement of a loop's body is under the loop's header.
LEMMA HeldInLoop ==
  ASSUME TreeOK, NEW n \in Nodes, tree[n].loop # 0
  PROVE  Held(n, Narrows(tree[n].loop))
<1>1. PICK m \in Path(n) : tree[m].up = tree[n].loop /\ tree[m].arm = "body"
  BY Nesting DEF Nested
<1>2. QED
  BY <1>1 DEF Held

\* A header narrows a bool it tests, which its body does not bind.
LEMMA NarrowsWhat ==
  ASSUME decl \in Decls, NEW n
  PROVE  /\ Narrows(n) \in Tracked
         /\ Narrows(n) # NoName => /\ tree[n].kind = "While" /\ ~tree[n].guard.negated
                                   /\ Narrows(n) = tree[n].guard.atom
                                   /\ Narrows(n) \in decl.bools
                                   /\ Narrows(n) \notin BoundIn(tree, answer, n, "body")
BY DeclOK DEF Narrows, loop_narrows_truthy, Tracked

\* What is held is a bool that is followed.
LEMMA HeldWhat ==
  ASSUME decl \in Decls, TreeOK, NEW n \in Nodes
  PROVE  \A x : Held(n, x) => x \in Tracked /\ (x # NoName => x \in decl.bools)
<1>1. NoName \in Tracked
  BY DEF Tracked
<1>2. QED
  BY <1>1, NarrowsWhat, Zenon DEF Held

\* A break in reach is found by the scan of its suite.
LEMMA BreakIsSeen ==
  ASSUME NEW c \in Nodes, Live(c), tree[c].loop # 0, NEW x \in Tracked, Held(c, x), Breaks(c, x)
  PROVE  contains_reachable_break(tree, answer, tree[c].up, tree[c].arm, x)
<1>1. InLoopBody(c) = TRUE
  BY DEF InLoopBody
<1>2. \A k \in Earlier(tree, c) : ~Leaves(k, TRUE, x)
  BY <1>1, Zenon DEF Live
<1>3. c \in Suite(tree, tree[c].up, tree[c].arm)
  BY DEF Suite, Nodes
<1>4. QED
  BY <1>2, <1>3, Zenon DEF contains_reachable_break, Leaves, Breaks

\* A break that is executed is a break that was found: contains_reachable_break on the
\* way from the break up to its loop.
LEMMA BreaksAreFound ==
  ASSUME decl \in Decls, TreeOK, Table, NEW b \in Nodes, tree[b].kind = "Break", tree[b].loop # 0,
         \A m \in Path(b) : Live(m)
  PROVE  /\ tree[b].loop \in tree[b].within
         /\ tree[tree[b].loop].kind \in Loops
         /\ Breakable(tree[b].loop, NoName)
         /\ Breakable(tree[b].loop, Narrows(tree[b].loop))
         /\ tree[tree[b].loop].kind = "While" => Verdict(tree[b].loop) # "AlwaysFalse"
<1> DEFINE L == tree[b].loop
           Seen(p) == Breaks(p, NoName) /\ Breaks(p, Narrows(L))
           T == {p \in Nodes : p \in Path(b) /\ tree[p].loop = L => Seen(p)}
<1>1. NoName \in Tracked /\ Narrows(L) \in Tracked
  BY NarrowsWhat DEF Tracked
<1>2. Len(tree) \in Nat /\ Nodes = 1..Len(tree) /\ b \in Path(b) /\ Path(b) \subseteq Nodes
  BY NodesAre, PathsAreNodes
<1>3. ASSUME NEW p \in 1..Len(tree), \A k \in 1..Len(tree) : p < k => k \in T
      PROVE  p \in T
  <2>1. SUFFICES ASSUME p \in Path(b), tree[p].loop = L PROVE Seen(p)
    BY <1>2
  <2>2. CASE p = b
    <3>1. \A x : statement_breaks(tree, answer, p, x)
      BY <2>2 DEF statement_breaks
    <3>2. QED
      BY <1>1, <1>2, <3>1, Answers, Zenon
  <2>3. CASE p # b
    <3>1. p \in tree[b].within
      BY <2>1, <2>3 DEF Path
    <3>2. PICK c \in Path(b) : tree[c].up = p
      BY <3>1, Nesting DEF Nested
    <3>3. c \in Nodes /\ c \in 1..Len(tree) /\ p \in Nodes /\ p # 0
      BY <1>2, <3>2
    <3>4. p < c /\ tree[p].kind \in Compound /\ p \in tree[c].within
      BY <3>2, <3>3, Below
    <3>5. Placed(c)
      BY <3>3 DEF TreeOK
    <3>6. ~(tree[p].kind \in Loops /\ tree[c].arm = "body")
      <4>1. SUFFICES ASSUME tree[p].kind \in Loops, tree[c].arm = "body" PROVE FALSE
        OBVIOUS
      <4>2. tree[c].loop = p
        BY <3>2, <3>3, <3>5, <4>1 DEF Placed, LoopAt
      <4>3. L = p \/ L >= c
        <5>1. CASE c = b
          BY <4>2, <5>1
        <5>2. CASE c # b
          <6>1. c \in tree[b].within
            BY <5>2 DEF Path
          <6>2. QED
            BY <4>2, <6>1, Nesting DEF Nested
        <5>3. QED
          BY <5>1, <5>2
      <4>4. L \in tree[p].within /\ tree[p].within \subseteq 1..p - 1
        BY <2>1, <3>3, Nesting DEF Nested
      <4>5. L < p /\ L \in Nat
        BY <3>3, <4>4
      <4>6. QED
        BY <1>2, <3>3, <3>4, <4>3, <4>5
    <3>7. tree[c].loop = L
      BY <2>1, <3>2, <3>3, <3>5, <3>6 DEF Placed, LoopAt
    <3>8. Seen(c)
      BY <1>3, <3>2, <3>3, <3>4, <3>7
    <3>9. Held(c, NoName) /\ Held(c, Narrows(L)) /\ Held(p, NoName) /\ Held(p, Narrows(L))
      BY <2>1, <3>3, <3>7, HeldInLoop DEF Held
    <3>10. /\ contains_reachable_break(tree, answer, p, tree[c].arm, NoName)
           /\ contains_reachable_break(tree, answer, p, tree[c].arm, Narrows(L))
      BY <1>1, <3>2, <3>3, <3>7, <3>8, <3>9, BreakIsSeen
    <3>11. CASE tree[p].kind = "If"
      <4>1. \A x \in Tracked : Held(p, x) => tree[c].arm \in LiveArms(guard_verdict(tree[p].guard, x))
        BY <3>2, <3>3, <3>11 DEF Live
      <4>2. /\ statement_breaks(tree, answer, p, NoName)
            /\ statement_breaks(tree, answer, p, Narrows(L))
        BY <1>1, <3>9, <3>10, <3>11, <4>1, Zenon DEF statement_breaks
      <4>3. QED
        BY <1>1, <3>3, <4>2, Answers, Zenon
    <3>12. CASE tree[p].kind \in Loops
      <4>1. tree[c].arm = "orelse"
        <5>1. tree[c].arm \in Arms
          BY <3>3, NodesAre DEF Statements
        <5>2. QED
          BY <3>6, <3>12, <5>1 DEF Arms
      <4>2. \A x : statement_breaks(tree, answer, p, x)
        BY <3>10, <3>12, <4>1, Zenon DEF statement_breaks
      <4>3. QED
        BY <1>1, <3>3, <4>2, Answers, Zenon
    <3>13. QED
      BY <3>4, <3>11, <3>12 DEF Compound
  <2>4. QED
    BY <2>2, <2>3
<1> HIDE DEF T
<1>4. \A p \in 1..Len(tree) : p \in T
  BY <1>2, <1>3, LastFirst
<1>5. PICK m \in Path(b) : tree[m].up = L /\ tree[m].arm = "body"
  BY Nesting DEF Nested
<1>6. L \in tree[b].within /\ tree[L].kind \in Loops
  BY Nesting DEF Nested
<1>7. m \in Nodes /\ Placed(m) /\ Live(m)
  BY <1>2, <1>5 DEF TreeOK
<1>8. tree[m].loop = L
  BY <1>5, <1>6, <1>7 DEF Placed, LoopAt
<1>9. Seen(m)
  BY <1>2, <1>4, <1>7, <1>8 DEF T
<1>10. Held(m, NoName) /\ Held(m, Narrows(L))
  BY <1>7, <1>8, HeldInLoop DEF Held
<1>11. Breakable(L, NoName) /\ Breakable(L, Narrows(L))
  BY <1>1, <1>5, <1>7, <1>8, <1>9, <1>10, BreakIsSeen DEF Breakable
<1>12. tree[L].kind = "While" => Verdict(L) # "AlwaysFalse"
  <2>1. SUFFICES ASSUME tree[L].kind = "While" PROVE Verdict(L) # "AlwaysFalse"
    OBVIOUS
  <2>2. "body" \in LiveArms(Verdict(L))
    BY <1>5, <1>7, <2>1 DEF Live
  <2>3. QED
    BY <2>2 DEF LiveArms
<1>13. QED
  BY <1>6, <1>11, <1>12

\* A loop narrows by a name only if nothing inside it binds the name.
LEMMA BindersAreSeen ==
  ASSUME TreeOK, Table, NEW n \in Nodes, tree[n].kind \in Binders
  PROVE  \A p \in Path(n) : tree[n].name \in answer[p].binds
<1> DEFINE T == {p \in Nodes : p \in Path(n) => tree[n].name \in answer[p].binds}
<1>1. Len(tree) \in Nat /\ Nodes = 1..Len(tree) /\ n \in Path(n) /\ Path(n) \subseteq Nodes
  BY NodesAre, PathsAreNodes
<1>2. ASSUME NEW p \in 1..Len(tree), \A k \in 1..Len(tree) : p < k => k \in T
      PROVE  p \in T
  <2>1. SUFFICES ASSUME p \in Path(n) PROVE tree[n].name \in answer[p].binds
    BY <1>1
  <2>2. answer[p].binds = statement_binds(tree, answer, p)
    BY <1>1, Answers
  <2>3. CASE p = n
    BY <2>2, <2>3 DEF statement_binds
  <2>4. CASE p # n
    <3>1. PICK c \in Path(n) : tree[c].up = p
      BY <2>1, <2>4, Nesting DEF Nested, Path
    <3>2. c \in Nodes /\ p < c
      BY <1>1, <3>1, Below
    <3>3. tree[n].name \in answer[c].binds
      BY <1>1, <1>2, <3>1, <3>2
    <3>4. tree[c].arm \in Arms
      BY <3>2, NodesAre DEF Statements
    <3>5. c \in Suite(tree, p, tree[c].arm)
      BY <3>1, <3>2 DEF Suite, Nodes
    <3>6. tree[n].name \in BoundIn(tree, answer, p, tree[c].arm)
      BY <3>3, <3>5 DEF BoundIn
    <3>7. QED
      BY <2>2, <3>4, <3>6 DEF statement_binds, Arms
  <2>5. QED
    BY <2>3, <2>4
<1> HIDE DEF T
<1>3. \A p \in 1..Len(tree) : p \in T
  BY <1>1, <1>2, LastFirst
<1>4. QED
  BY <1>1, <1>3 DEF T

\* A statement does not bind a name that is held true around it.
LEMMA HeldIsNotBound ==
  ASSUME decl \in Decls, TreeOK, Table, NEW n \in Nodes, tree[n].kind \in Binders
  PROVE  \A x \in Names : Held(n, x) => x # tree[n].name
<1>1. SUFFICES ASSUME NEW x \in Names, Held(n, x), x = tree[n].name PROVE FALSE
  OBVIOUS
<1>2. x # NoName
  BY DeclOK
<1>3. PICK m \in Path(n) : tree[m].arm = "body" /\ x = Narrows(tree[m].up)
  BY <1>1, <1>2 DEF Held
<1>4. x \notin BoundIn(tree, answer, tree[m].up, "body")
  BY <1>2, <1>3, NarrowsWhat
<1>5. m \in Suite(tree, tree[m].up, "body")
  BY <1>3, PathsAreNodes DEF Suite, Nodes
<1>6. x \in answer[m].binds
  BY <1>1, BindersAreSeen
<1>7. QED
  BY <1>4, <1>5, <1>6 DEF BoundIn

-----------------------------------------------------------------------------
(* The inductive invariant: where control stands, everything around is     *)
(* live, the names the headers hold are true, and a statement that is over *)
(* was said to be able to end.                                             *)

Reached(n) == n \in Nodes /\ \A m \in Path(n) : Live(m)

Holding(n) == \A x \in Names : Held(n, x) => env[x] = "true"

Completed(n) == /\ \A x \in Tracked : Held(n, x) => ~Leaves(n, InLoopBody(n), x)
                /\ InFunction => ~Returns(n)

Running == /\ pc[1] \in {"exec", "done"} => Reached(pc[2]) /\ Holding(pc[2])
           /\ pc[1] = "done" => Completed(pc[2])
           /\ pc[1] = "ended" /\ InFunction => ~always_returns(tree, answer, 0, "body")

IInv == /\ decl \in Decls
        /\ TreeOK
        /\ phase \in {"parse", "run"}
        /\ phase = "run" => WholeProgram /\ Table /\ hidden = Suppressed(answer) /\ Running

\* All of this is a matter of the tree and the table.
LEMMA SameStructure ==
  ASSUME UNCHANGED <<decl, tree, answer>>
  PROVE  /\ Names' = Names /\ Tracked' = Tracked /\ InFunction' = InFunction
         /\ \A n : Reached(n)' <=> Reached(n)
         /\ \A n, x : Held(n, x)' <=> Held(n, x)
         /\ \A n : Completed(n)' <=> Completed(n)
         /\ always_returns(tree, answer, 0, "body")' <=> always_returns(tree, answer, 0, "body")
<1>1. Names' = Names /\ Tracked' = Tracked /\ InFunction' = InFunction
  BY DEF Names, Tracked, InFunction
<1>2. \A n : Narrows(n)' = Narrows(n)
  BY DEF Narrows, loop_narrows_truthy, BoundIn, Suite, Names
<1>3. \A n : Path(n)' = Path(n)
  BY DEF Path
<1>4. \A n, x : Held(n, x)' <=> Held(n, x)
  BY <1>2, <1>3 DEF Held
<1>5. /\ \A n, b, x : Leaves(n, b, x)' = Leaves(n, b, x)
      /\ \A n : Returns(n)' = Returns(n) /\ InLoopBody(n)' = InLoopBody(n)
      /\ \A n : Verdict(n)' = Verdict(n) /\ Earlier(tree, n)' = Earlier(tree, n)
  BY DEF Leaves, Place, Returns, InLoopBody, Verdict, literal_guard_verdict, Invert, Earlier, Suite
<1>6. \A n : Live(n)' <=> Live(n)
  <2>1. \A g, x : guard_verdict(g, x)' = guard_verdict(g, x)
    BY DEF guard_verdict, literal_guard_verdict, narrowing_guard_verdict, Invert
  <2>2. QED
    BY <1>1, <1>4, <1>5, <2>1 DEF Live
<1>7. \A n : Reached(n)' <=> Reached(n)
  BY <1>3, <1>6 DEF Reached, Nodes
<1>8. \A n : Completed(n)' <=> Completed(n)
  BY <1>1, <1>4, <1>5 DEF Completed
<1>9. always_returns(tree, answer, 0, "body")' <=> always_returns(tree, answer, 0, "body")
  BY DEF always_returns, Suite
<1>10. QED
  BY <1>1, <1>4, <1>7, <1>8, <1>9

-----------------------------------------------------------------------------
(* Where control goes next.                                                *)

\* Coming to a statement that is live restores the invariant.
LEMMA ToExec ==
  ASSUME UNCHANGED <<decl, tree, answer>>, NEW n, Reached(n),
         \A x \in Names : Held(n, x) => env'[x] = "true",
         pc' = <<"exec", n>>
  PROVE  Running'
<1>1. pc'[1] = "exec" /\ pc'[2] = n
  OBVIOUS
<1>2. Reached(n)'
  BY SameStructure
<1>3. Holding(n)'
  BY SameStructure DEF Holding
<1>4. QED
  BY <1>1, <1>2, <1>3 DEF Running

\* So does completing one that was not said to leave.
LEMMA ToDone ==
  ASSUME UNCHANGED <<decl, tree, answer>>, NEW n, Reached(n), Completed(n),
         \A x \in Names : Held(n, x) => env'[x] = "true",
         pc' = <<"done", n>>
  PROVE  Running'
<1>1. pc'[1] = "done" /\ pc'[2] = n
  OBVIOUS
<1>2. Reached(n)' /\ Completed(n)'
  BY SameStructure
<1>3. Holding(n)'
  BY SameStructure DEF Holding
<1>4. QED
  BY <1>1, <1>2, <1>3 DEF Running

\* So does ending otherwise than at the end of the body.
LEMMA ToEnd ==
  ASSUME pc'[1] \in {"raised", "returned"}
  PROVE  Running'
BY DEF Running

\* An arm whose header lets control in: its first statement, or the end of the statement.
LEMMA Enters ==
  ASSUME decl \in Decls, TreeOK, WholeProgram, Table, UNCHANGED <<decl, tree, answer>>,
         NEW n, Reached(n), tree[n].kind \in Compound, NEW a \in Arms,
         tree[n].kind \in {"If", "While"} => a \in LiveArms(Verdict(n)),
         tree[n].kind = "If" => \A x \in Tracked : Held(n, x) =>
                                  a \in LiveArms(guard_verdict(tree[n].guard, x)),
         \A x \in Names : Held(n, x) \/ (a = "body" /\ x = Narrows(n)) => env'[x] = "true",
         pc' = Enter(n, a, <<"done", n>>)
  PROVE  Running'
<1>1. n \in Nodes /\ n # 0
  BY NodesAre DEF Reached
<1>2. CASE Suite(tree, n, a) # {}
  <2> DEFINE c == FirstOf(Suite(tree, n, a))
  <2>1. pc' = <<"exec", c>>
    BY <1>2 DEF Enter
  <2>2. c \in Nodes /\ tree[c].up = n /\ tree[c].arm = a /\ Earlier(tree, c) = {}
    BY <1>2, FirstOfSuite
  <2> HIDE DEF c
  <2>3. Live(c)
    BY <2>2, Zenon DEF Live
  <2>4. Path(c) = {c} \union Path(n)
    BY <1>1, <2>2, Below
  <2>5. Reached(c)
    BY <2>2, <2>3, <2>4 DEF Reached
  <2>6. \A x \in Names : Held(c, x) => env'[x] = "true"
    BY <1>1, <2>2, HeldInside
  <2>7. QED
    BY <2>1, <2>5, <2>6, ToExec
<1>3. CASE Suite(tree, n, a) = {}
  <2>1. pc' = <<"done", n>>
    BY <1>3 DEF Enter
  <2>2. a = "orelse"
    BY <1>1, <1>3, BodiesAreWritten DEF Arms
  <2>3. NoName \in Tracked /\ InLoopBody(n) \in BOOLEAN
    BY DEF Tracked, InLoopBody
  <2>4. CASE tree[n].kind = "If"
    <3>1. \A x \in Tracked : Held(n, x) => ~Leaves(n, InLoopBody(n), x)
      <4>1. SUFFICES ASSUME NEW x \in Tracked, Held(n, x) PROVE ~Leaves(n, InLoopBody(n), x)
        OBVIOUS
      <4>2. a \in LiveArms(guard_verdict(tree[n].guard, x))
        BY <2>4, <4>1
      <4>3. QED
        BY <1>1, <1>3, <2>3, <2>4, <4>2, IfCompletes
    <3>2. ~Returns(n)
      BY <1>1, <1>3, <2>4, IfDoesNotReturn
    <3>3. QED
      BY <2>1, <3>1, <3>2, ToDone DEF Completed
  <2>5. CASE tree[n].kind \in Loops
    <3>1. tree[n].kind = "While" => Verdict(n) # "AlwaysTrue"
      BY <2>2 DEF LiveArms
    <3>2. \A x \in Tracked : ~Leaves(n, InLoopBody(n), x)
      BY <1>1, <1>3, <2>2, <2>3, <2>5, <3>1, LoopCompletes
    <3>3. ~Returns(n)
      BY <1>1, <1>3, <2>2, <2>5, <3>1, LoopDoesNotReturn
    <3>4. QED
      BY <2>1, <3>2, <3>3, ToDone DEF Completed
  <2>6. QED
    BY <2>4, <2>5 DEF Compound
<1>4. QED
  BY <1>2, <1>3

\* The last statement of a suite is over, and with it the suite.
LEMMA SuiteIsOver ==
  ASSUME TreeOK, NEW n \in Nodes, Live(n), Completed(n), Later(tree, n) = {}
  PROVE  \A m \in Suite(tree, tree[n].up, tree[n].arm) :
           /\ \A x \in Tracked : Held(n, x) => ~Leaves(m, InLoopBody(n), x)
           /\ InFunction => ~Returns(m)
<1>1. SUFFICES ASSUME NEW m \in Suite(tree, tree[n].up, tree[n].arm)
               PROVE  /\ \A x \in Tracked : Held(n, x) => ~Leaves(m, InLoopBody(n), x)
                      /\ InFunction => ~Returns(m)
  OBVIOUS
<1>2. m \in Nat /\ n \in Nat
  BY NodesAre, Neighbours
<1>3. m = n \/ m \in Earlier(tree, n)
  BY <1>2 DEF Later, Earlier
<1>4. QED
  BY <1>3, Zenon DEF Live, Completed

\* The end of an arm is the end of the if, the end of an else that of its loop.
LEMMA OuterCompletes ==
  ASSUME decl \in Decls, TreeOK, Table, NEW n \in Nodes, tree[n].up # 0,
         Live(n), Completed(n), Later(tree, n) = {},
         ~(tree[tree[n].up].kind \in Loops /\ tree[n].arm = "body")
  PROVE  Completed(tree[n].up)
<1> DEFINE u == tree[n].up
<1>1. /\ \A m \in Suite(tree, u, tree[n].arm), x \in Tracked :
           Held(n, x) => ~Leaves(m, InLoopBody(n), x)
      /\ InFunction => \A m \in Suite(tree, u, tree[n].arm) : ~Returns(m)
  BY SuiteIsOver
<1>2. u \in Nodes /\ tree[u].kind \in Compound /\ Placed(n) /\ tree[n].arm \in Arms
  BY Below, NodesAre DEF TreeOK, Statements
<1>3. InLoopBody(n) = InLoopBody(u) /\ InLoopBody(u) \in BOOLEAN
  BY <1>2 DEF Placed, LoopAt, InLoopBody
<1>4. Held(n, NoName) /\ NoName \in Tracked /\ \A x : Held(u, x) => Held(n, x)
  BY HeldInside DEF Held, Tracked
<1>5. CASE tree[u].kind = "If"
  <2>1. tree[n].arm \in LiveArms(Verdict(u))
    BY <1>5, Zenon DEF Live
  <2>2. InFunction => ~Returns(u)
    BY <1>1, <1>2, <1>5, <2>1, IfDoesNotReturn
  <2>3. ASSUME NEW x \in Tracked, Held(u, x) PROVE ~Leaves(u, InLoopBody(u), x)
    <3>1. tree[n].arm \in LiveArms(guard_verdict(tree[u].guard, x))
      BY <1>5, <2>3, Zenon DEF Live
    <3>2. \A m \in Suite(tree, u, tree[n].arm) : ~Leaves(m, InLoopBody(u), x)
                                                  /\ ~Leaves(m, InLoopBody(u), NoName)
      BY <1>1, <1>3, <1>4, <2>3, Zenon
    <3>3. QED
      BY <1>2, <1>3, <1>5, <3>1, <3>2, IfCompletes
  <2>4. QED
    BY <2>2, <2>3 DEF Completed
<1>6. CASE tree[u].kind \in Loops
  <2>1. tree[n].arm = "orelse"
    BY <1>2, <1>6 DEF Arms
  <2>2. tree[u].kind = "While" => Verdict(u) # "AlwaysTrue"
    <3>1. SUFFICES ASSUME tree[u].kind = "While" PROVE Verdict(u) # "AlwaysTrue"
      OBVIOUS
    <3>2. tree[n].arm \in LiveArms(Verdict(u))
      BY <3>1, Zenon DEF Live
    <3>3. QED
      BY <2>1, <3>2 DEF LiveArms
  <2>3. InFunction => ~Returns(u)
    BY <1>1, <1>2, <1>6, <2>1, <2>2, LoopDoesNotReturn
  <2>4. \A m \in Suite(tree, u, "orelse") : ~Leaves(m, InLoopBody(u), NoName)
    BY <1>1, <1>3, <1>4, <2>1, Zenon
  <2>5. \A x \in Tracked : ~Leaves(u, InLoopBody(u), x)
    BY <1>2, <1>3, <1>6, <2>2, <2>4, LoopCompletes
  <2>6. QED
    BY <2>3, <2>5 DEF Completed
<1>7. QED
  BY <1>2, <1>5, <1>6 DEF Compound

\* A statement around one that is reached is reached.
LEMMA ReachedAround ==
  ASSUME TreeOK, NEW n, Reached(n), Holding(n), NEW m \in Path(n)
  PROVE  Reached(m) /\ Holding(m)
<1>1. n \in Nodes
  BY DEF Reached
<1>2. Path(m) \subseteq Path(n) /\ m \in Nodes
  BY <1>1, PathsAreNodes
<1>3. \A x : Held(m, x) => Held(n, x)
  BY <1>1, HeldAround
<1>4. QED
  BY <1>2, <1>3 DEF Reached, Holding

\* The statement after one that is over.
LEMMA FollowerIsReached ==
  ASSUME TreeOK, NEW n, Reached(n), Holding(n), Completed(n), Later(tree, n) # {}
  PROVE  Reached(FirstOf(Later(tree, n))) /\ Holding(FirstOf(Later(tree, n)))
<1> DEFINE c == FirstOf(Later(tree, n))
<1>1. n \in Nodes /\ Live(n)
  BY PathsAreNodes DEF Reached
<1>2. Suite(tree, tree[n].up, tree[n].arm) \in SUBSET Nat
  BY NodesAre DEF Suite, Nodes
<1>3. c \in Later(tree, n) /\ \A k \in Later(tree, n) : c <= k
  BY <1>2, LeastOf DEF Later
<1> HIDE DEF c
<1>4. c \in Suite(tree, tree[n].up, tree[n].arm) /\ c > n
  BY <1>3 DEF Later
<1>5. /\ c \in Nodes /\ tree[c].up = tree[n].up /\ tree[c].arm = tree[n].arm
      /\ tree[c].loop = tree[n].loop /\ tree[c].within = tree[n].within
  BY <1>1, <1>4, Neighbours
<1>6. \A x : Held(c, x) <=> Held(n, x)
  BY <1>1, <1>4, HeldAlike
<1>7. ASSUME NEW k \in Earlier(tree, c) PROVE k = n \/ k \in Earlier(tree, n)
  <2>1. k \in Suite(tree, tree[n].up, tree[n].arm) /\ k < c
    BY <1>5 DEF Earlier
  <2>2. k \in Nat /\ c \in Nat /\ n \in Nat
    BY <1>1, <1>2, <1>4, <2>1, NodesAre
  <2>3. ~(k > n)
    BY <1>3, <2>1, <2>2 DEF Later
  <2>4. QED
    BY <2>1, <2>2, <2>3 DEF Earlier
<1>8. InLoopBody(c) = InLoopBody(n)
  BY <1>5 DEF InLoopBody
<1>9. \A k \in Earlier(tree, c), x \in Tracked : Held(c, x) => ~Leaves(k, InLoopBody(c), x)
  BY <1>1, <1>6, <1>7, <1>8, Zenon DEF Live, Completed
<1>10. InFunction => \A k \in Earlier(tree, c) : ~Returns(k)
  BY <1>1, <1>7, Zenon DEF Live, Completed
<1>11. Live(c)
  BY <1>1, <1>5, <1>9, <1>10, Zenon DEF Live
<1>12. Reached(c)
  BY <1>5, <1>11 DEF Reached, Path
<1>13. Holding(c)
  BY <1>6 DEF Holding
<1>14. QED
  BY <1>12, <1>13 DEF c

\* After a statement.
LEMMA NextRuns ==
  ASSUME decl \in Decls, TreeOK, Table, Running, RunNext, UNCHANGED answer
  PROVE  Running'
<1> DEFINE n == pc[2]
           up == tree[n].up
<1>1. UNCHANGED <<decl, tree, answer>> /\ env' = env
  BY DEF RunNext, Goto
<1>2. Reached(n) /\ Holding(n) /\ Completed(n)
  BY DEF RunNext, Running
<1>3. n \in Nodes /\ Live(n) /\ Placed(n)
  BY <1>2, PathsAreNodes DEF Reached, TreeOK
<1>4. CASE Later(tree, n) # {}
  <2>1. pc' = <<"exec", FirstOf(Later(tree, n))>>
    BY <1>4 DEF RunNext, Goto
  <2>2. Reached(FirstOf(Later(tree, n))) /\ Holding(FirstOf(Later(tree, n)))
    BY <1>2, <1>4, FollowerIsReached
  <2>3. QED
    BY <1>1, <2>1, <2>2, ToExec DEF Holding
<1>5. CASE Later(tree, n) = {} /\ up = 0
  <2>1. pc' = <<"ended", 0>>
    BY <1>5 DEF RunNext, Goto
  <2>2. tree[n].arm = "body"
    BY <1>3, <1>5 DEF Placed
  <2>3. InFunction => \A m \in Suite(tree, 0, "body") : ~Returns(m)
    BY <1>2, <1>3, <1>5, <2>2, SuiteIsOver
  <2>4. InFunction => ~always_returns(tree, answer, 0, "body")
    BY <2>3, Zenon DEF always_returns, Returns
  <2>5. pc'[1] = "ended"
    BY <2>1
  <2>6. QED
    BY <1>1, <2>4, <2>5, SameStructure DEF Running
<1>6. CASE Later(tree, n) = {} /\ up # 0
  <2>1. up \in Path(n)
    BY <1>3, <1>6 DEF Placed, Path
  <2>2. Reached(up) /\ Holding(up)
    BY <1>2, <2>1, ReachedAround
  <2>3. CASE tree[up].kind \in Loops /\ tree[n].arm = "body"
    <3>1. pc' = <<"exec", up>>
      BY <1>6, <2>3 DEF RunNext, Goto
    <3>2. QED
      BY <1>1, <2>2, <3>1, ToExec DEF Holding
  <2>4. CASE ~(tree[up].kind \in Loops /\ tree[n].arm = "body")
    <3>1. pc' = <<"done", up>>
      BY <1>6, <2>4 DEF RunNext, Goto
    <3>2. Completed(up)
      BY <1>2, <1>3, <1>6, <2>4, OuterCompletes
    <3>3. QED
      BY <1>1, <2>2, <3>1, <3>2, ToDone DEF Holding
  <2>5. QED
    BY <2>3, <2>4
<1>7. QED
  BY <1>4, <1>5, <1>6

\* A statement without a suite that runs to its end.
LEMMA PlainIsOver ==
  ASSUME decl \in Decls, TreeOK, Table, UNCHANGED <<decl, tree, answer>>,
         NEW n, Reached(n), tree[n].kind \notin Compound,
         tree[n].kind = "Return" => ~InFunction,
         tree[n].kind \in {"Break", "Continue"} => tree[n].loop = 0,
         \A x \in Names : Held(n, x) => env'[x] = "true",
         pc' = <<"done", n>>
  PROVE  Running'
<1>1. n \in Nodes
  BY DEF Reached
<1>2. InLoopBody(n) \in BOOLEAN /\ (tree[n].kind \in {"Break", "Continue"} => ~InLoopBody(n))
  BY DEF InLoopBody
<1>3. \A x \in Tracked : ~Leaves(n, InLoopBody(n), x)
  BY <1>1, <1>2, PlainCompletes
<1>4. InFunction => ~Returns(n)
  BY <1>1, PlainDoesNotReturn
<1>5. Completed(n)
  BY <1>3, <1>4 DEF Completed
<1>6. QED
  BY <1>5, ToDone

\* Storing a name keeps the names that the headers around it hold.
LEMMA BindKeepsHeld ==
  ASSUME decl \in Decls, TreeOK, Table, NEW n, n \in Nodes, Holding(n),
         tree[n].kind \in Binders, Bind(n)
  PROVE  \A x \in Names : Held(n, x) => env'[x] = "true"
<1>1. PICK v \in Stored(n) : env' = [x \in Names |-> IF x = tree[n].name THEN v ELSE env[x]]
  BY DEF Bind
<1>2. \A x \in Names : Held(n, x) => x # tree[n].name
  BY HeldIsNotBound
<1>3. QED
  BY <1>1, <1>2 DEF Holding

\* A statement without arms that does not jump.
LEMMA SimpleRuns ==
  ASSUME decl \in Decls, TreeOK, Table, Running, UNCHANGED answer,
         RunExpr \/ RunAssign \/ RunReturn
  PROVE  Running'
<1> DEFINE n == pc[2]
<1>1. Reached(n) /\ Holding(n) /\ n \in Nodes
  BY DEF RunExpr, RunAssign, RunReturn, At, AtOneOf, Running, Reached
<1>2. CASE RunExpr
  <2>1. tree[n].kind \in {"Expr", "Call"}
    BY <1>2 DEF RunExpr, AtOneOf
  <2>2. CASE Raise
    BY <2>2, ToEnd DEF Raise, Goto
  <2>3. CASE Goto(<<"done", n>>) /\ MayMutate
    <3>1. PICK e \in [decl.mutable -> Truth] :
            env' = [x \in Names |-> IF x \in decl.mutable /\ env[x] # "unset" THEN e[x] ELSE env[x]]
      BY <2>3 DEF MayMutate
    <3>2. \A x \in Names : Held(n, x) => x \notin decl.mutable
      BY <1>1, HeldWhat, DeclOK
    <3>3. \A x \in Names : Held(n, x) => env'[x] = "true"
      BY <1>1, <3>1, <3>2 DEF Holding
    <3>4. pc' = <<"done", n>> /\ UNCHANGED <<decl, tree, answer>>
      BY <2>3 DEF Goto
    <3>5. QED
      BY <1>1, <2>1, <3>3, <3>4, PlainIsOver DEF Compound, Loops
  <2>4. QED
    BY <1>2, <2>2, <2>3 DEF RunExpr
<1>3. CASE RunAssign
  <2>1. tree[n].kind \in Stores
    BY <1>3 DEF RunAssign, AtOneOf
  <2>2. CASE Raise
    BY <2>2, ToEnd DEF Raise, Goto
  <2>3. CASE Bind(n) /\ Goto(<<"done", n>>)
    <3>1. \A x \in Names : Held(n, x) => env'[x] = "true"
      BY <1>1, <2>1, <2>3, BindKeepsHeld DEF Binders
    <3>2. pc' = <<"done", n>> /\ UNCHANGED <<decl, tree, answer>>
      BY <2>3 DEF Goto
    <3>3. QED
      BY <1>1, <2>1, <3>1, <3>2, PlainIsOver DEF Stores, Compound, Loops
  <2>4. QED
    BY <1>3, <2>2, <2>3 DEF RunAssign
<1>4. CASE RunReturn
  <2>1. tree[n].kind = "Return" /\ env' = env /\ UNCHANGED <<decl, tree, answer>>
    BY <1>4 DEF RunReturn, At, AtOneOf, Goto
  <2>2. CASE InFunction
    BY <1>4, <2>2, ToEnd DEF RunReturn, Goto
  <2>3. CASE ~InFunction
    <3>1. pc' = <<"done", n>>
      BY <1>4, <2>3 DEF RunReturn, Goto
    <3>2. QED
      BY <1>1, <2>1, <2>3, <3>1, PlainIsOver DEF Compound, Loops, Holding
  <2>4. QED
    BY <2>2, <2>3
<1>5. QED
  BY <1>2, <1>3, <1>4

\* A return, a break, a continue.
LEMMA JumpRuns ==
  ASSUME decl \in Decls, TreeOK, Table, Running, UNCHANGED answer,
         RunBreak \/ RunContinue
  PROVE  Running'
<1> DEFINE n == pc[2]
           L == tree[n].loop
<1>1. Reached(n) /\ Holding(n) /\ n \in Nodes
  BY DEF RunBreak, RunContinue, At, AtOneOf, Running, Reached
<1>2. UNCHANGED <<decl, tree, answer>> /\ env' = env /\ tree[n].kind \in {"Break", "Continue"}
  BY DEF RunBreak, RunContinue, At, AtOneOf, Goto
<1>3. CASE L = 0
  <2>1. pc' = <<"done", n>>
    BY <1>3 DEF RunBreak, RunContinue, Goto
  <2>2. QED
    BY <1>1, <1>2, <1>3, <2>1, PlainIsOver DEF Compound, Loops, Holding
<1>4. CASE L # 0
  <2>1. L \in Path(n) /\ tree[L].kind \in Loops
    BY <1>1, <1>4, Nesting DEF Nested, Path
  <2>2. Reached(L) /\ Holding(L) /\ L \in Nodes
    BY <1>1, <2>1, ReachedAround DEF Reached
  <2>3. CASE RunBreak
    <3>1. pc' = <<"done", L>> /\ tree[n].kind = "Break"
      BY <1>4, <2>3 DEF RunBreak, Goto, At, AtOneOf
    <3>2. /\ Breakable(L, NoName) /\ Breakable(L, Narrows(L))
          /\ tree[L].kind = "While" => Verdict(L) # "AlwaysFalse"
      BY <1>1, <1>4, <3>1, BreaksAreFound DEF Reached
    <3>3. InLoopBody(L) \in BOOLEAN
      BY DEF InLoopBody
    <3>4. \A x \in Tracked : ~Leaves(L, InLoopBody(L), x)
      BY <2>1, <2>2, <3>2, <3>3, BrokenLoopCompletes
    <3>5. ~Returns(L)
      BY <2>1, <2>2, <3>2, BrokenLoopDoesNotReturn
    <3>6. Completed(L)
      BY <3>4, <3>5 DEF Completed
    <3>7. QED
      BY <1>2, <2>2, <3>1, <3>6, ToDone DEF Holding
  <2>4. CASE RunContinue
    <3>1. pc' = <<"exec", L>>
      BY <1>4, <2>4 DEF RunContinue, Goto
    <3>2. QED
      BY <1>2, <2>2, <3>1, ToExec DEF Holding
  <2>5. QED
    BY <2>3, <2>4
<1>5. QED
  BY <1>3, <1>4

\* The test of an if or of a while.
LEMMA TestRuns ==
  ASSUME decl \in Decls, TreeOK, WholeProgram, Table, Running, UNCHANGED answer,
         NEW kind \in {"If", "While"}, RunTest(kind)
  PROVE  Running'
<1> DEFINE n == pc[2]
           g == tree[n].guard
<1>1. Reached(n) /\ Holding(n) /\ n \in Nodes /\ tree[n].kind = kind
  BY DEF RunTest, At, AtOneOf, Running, Reached
<1>2. CASE Raise
  BY <1>2, ToEnd DEF Raise, Goto
<1>3. CASE \E b \in Outcomes(g) : /\ Goto(Enter(n, IF b THEN "body" ELSE "orelse", <<"done", n>>))
                                  /\ UNCHANGED env
  <2>1. PICK b \in Outcomes(g) : /\ Goto(Enter(n, IF b THEN "body" ELSE "orelse", <<"done", n>>))
                                 /\ UNCHANGED env
    BY <1>3
  <2> DEFINE a == IF b THEN "body" ELSE "orelse"
  <2>2. g \in Guards
    BY <1>1, NodesAre DEF Statements
  <2>3. /\ b \in BOOLEAN
        /\ a \in LiveArms(Verdict(n))
        /\ b /\ ~g.negated /\ g.atom \in Names => env[g.atom] = "true"
    BY <2>2, LiteralSound DEF Verdict
  <2>4. ASSUME NEW x \in Tracked, Held(n, x) PROVE a \in LiveArms(guard_verdict(g, x))
    <3>1. x # NoName => env[x] = "true"
      BY <1>1, <2>4 DEF Holding, Tracked
    <3>2. QED
      BY <2>2, <3>1, GuardSound DEF Tracked
  <2>5. ASSUME NEW x \in Names, Held(n, x) \/ (a = "body" /\ x = Narrows(n)) PROVE env'[x] = "true"
    <3>1. CASE Held(n, x)
      BY <1>1, <2>1, <3>1 DEF Holding
    <3>2. CASE a = "body" /\ x = Narrows(n)
      <4>1. x # NoName
        BY DeclOK
      <4>2. ~g.negated /\ g.atom = x
        BY <3>2, <4>1, NarrowsWhat
      <4>3. b
        BY <2>3, <3>2
      <4>4. QED
        BY <2>1, <2>3, <4>2, <4>3
    <3>3. QED
      BY <2>5, <3>1, <3>2
  <2>6. a \in Arms /\ pc' = Enter(n, a, <<"done", n>>) /\ UNCHANGED <<decl, tree, answer>>
    BY <2>1 DEF Arms, Goto
  <2> HIDE DEF a
  <2>7. QED
    BY <1>1, <2>3, <2>4, <2>5, <2>6, Enters DEF Compound, Loops
<1>4. QED
  BY <1>2, <1>3, Zenon DEF RunTest

\* A round of a for, and its end.
LEMMA ForRuns ==
  ASSUME decl \in Decls, TreeOK, WholeProgram, Table, Running, UNCHANGED answer,
         RunForNext \/ RunForExhausted
  PROVE  Running'
<1> DEFINE n == pc[2]
<1>1. Reached(n) /\ Holding(n) /\ n \in Nodes /\ tree[n].kind = "For"
  BY DEF RunForNext, RunForExhausted, At, AtOneOf, Running, Reached
<1>2. Narrows(n) \notin Names
  BY <1>1, NarrowsWhat, DeclOK
<1>3. \A x \in Names : Held(n, x) => env'[x] = "true"
  BY <1>1, BindKeepsHeld DEF RunForNext, RunForExhausted, Holding, Binders
<1>4. PICK a \in Arms : pc' = Enter(n, a, <<"done", n>>)
  BY DEF RunForNext, RunForExhausted, Goto, Arms
<1>5. UNCHANGED <<decl, tree, answer>>
  BY DEF RunForNext, RunForExhausted, Goto
<1>6. QED
  BY <1>1, <1>2, <1>3, <1>4, <1>5, Enters DEF Compound, Loops

-----------------------------------------------------------------------------
(* The steps.                                                              *)

\* The answers depend on the tree, and on the body's declaration, alone.
LEMMA AnswersKeep ==
  ASSUME UNCHANGED <<decl, tree>>, NEW v, v = answer'
  PROVE  /\ \A n : Answer(tree, answer, n)' = Answer(tree, v, n)
         /\ Suppressed(answer)' = Suppressed(v)
<1>1. Names' = Names /\ InFunction' = InFunction /\ Places' = Places
  BY DEF Names, InFunction, Places
<1>2. \A g, x : guard_verdict(g, x)' = guard_verdict(g, x)
  BY DEF guard_verdict, literal_guard_verdict, narrowing_guard_verdict, Invert
<1>3. \A u, a, place : always_leaves_branch(tree, answer, u, a, place)'
                        = always_leaves_branch(tree, v, u, a, place)
  BY DEF always_leaves_branch, Suite
<1>4. \A u, a, x : contains_reachable_break(tree, answer, u, a, x)'
                    = contains_reachable_break(tree, v, u, a, x)
  BY DEF contains_reachable_break, Suite, Earlier, Place
<1>5. \A u, a : /\ always_returns(tree, answer, u, a)' = always_returns(tree, v, u, a)
                /\ BoundIn(tree, answer, u, a)' = BoundIn(tree, v, u, a)
  BY DEF always_returns, BoundIn, Suite
<1>6. ASSUME NEW n, NEW place
      PROVE  statement_always_leaves(tree, answer, n, place)' = statement_always_leaves(tree, v, n, place)
  <2>1. if_always_leaves(tree, answer, n, place)' = if_always_leaves(tree, v, n, place)
    BY <1>2, <1>3 DEF if_always_leaves, Place, LiveArm
  <2>2. loop_always_leaves(tree, answer, n, place)' = loop_always_leaves(tree, v, n, place)
    BY <1>3, <1>4 DEF loop_always_leaves, Place, literal_guard_verdict, Invert
  <2>3. QED
    BY <1>1, <2>1, <2>2 DEF statement_always_leaves
<1>7. \A n, x : statement_breaks(tree, answer, n, x)' = statement_breaks(tree, v, n, x)
  BY <1>2, <1>4 DEF statement_breaks, LiveArms
<1>8. \A n : loop_narrows_truthy(tree, answer, n)' = loop_narrows_truthy(tree, v, n)
  BY <1>5 DEF loop_narrows_truthy
<1>9. \A n : statement_returns(tree, answer, n)' = statement_returns(tree, v, n)
  BY <1>4, <1>5, <1>8 DEF statement_returns, loop_else_always_returns, LiveArms,
                          literal_guard_verdict, Invert
<1>10. \A n : statement_binds(tree, answer, n)' = statement_binds(tree, v, n)
  BY <1>5 DEF statement_binds
<1>11. \A n : Answer(tree, answer, n)' = Answer(tree, v, n)
  BY <1>1, <1>6, <1>7, <1>9, <1>10 DEF Answer
<1>12. Suppressed(answer)' = Suppressed(v)
  BY DEF Suppressed, BehindTerminator, InDeadArm, InLoopBody, Earlier, Suite, Place, Nodes,
         LiveArms, literal_guard_verdict, Invert
<1>13. QED
  BY <1>11, <1>12

\* The check establishes what the run relies on.
LEMMA CheckKeeps ==
  ASSUME IInv, Check
  PROVE  IInv'
<1>1. /\ decl' = decl /\ tree' = tree /\ phase' = "run" /\ WholeProgram
      /\ answer' = Tabulated[1] /\ hidden' = Suppressed(answer')
      /\ pc' = Enter(0, "body", <<"ended", 0>>)
  BY DEF Check, Begin
<1>2. decl \in Decls /\ TreeOK
  BY DEF IInv
<1>3. TreeOK' /\ WholeProgram'
  BY <1>1, <1>2, TreeKeeps
<1>4. Table'
  <2>1. \A n \in Nodes : answer'[n] = Answer(tree, answer', n)
    BY <1>1, <1>2, TableOK
  <2>2. \A n : Answer(tree, answer, n)' = Answer(tree, answer', n)
    BY <1>1, AnswersKeep
  <2>3. Nodes' = Nodes
    BY <1>1 DEF Nodes
  <2>4. QED
    BY <2>1, <2>2, <2>3 DEF Table
<1>5. hidden' = Suppressed(answer)'
  BY <1>1, AnswersKeep
<1>6. Suite(tree, 0, "body") # {}
  <2>1. 1 \in Nodes
    BY <1>1, <1>2, NodesAre DEF WholeProgram, TreeOK
  <2>2. Placed(1)
    BY <1>2, <2>1 DEF TreeOK
  <2>3. QED
    BY <2>1, <2>2 DEF Placed, Suite, Nodes
<1> DEFINE c == FirstOf(Suite(tree, 0, "body"))
<1>7. pc' = <<"exec", c>>
  BY <1>1, <1>6 DEF Enter
<1>8. c \in Nodes /\ tree[c].up = 0 /\ tree[c].arm = "body" /\ Earlier(tree, c) = {}
  BY <1>2, <1>6, FirstOfSuite
<1> HIDE DEF c
<1>9. Running'
  <2>1. PICK n \in Nodes : n = c
    BY <1>8
  <2>2. Earlier(tree, n)' = {} /\ n \in Nodes' /\ tree'[n].up = 0 /\ tree'[n].within = {}
    BY <1>1, <1>2, <1>8, <2>1 DEF Earlier, Suite, Nodes, TreeOK, Placed
  <2>3. Path(n)' = {n}
    BY <2>2 DEF Path
  <2>4. Live(n)'
    BY <2>2 DEF Live
  <2>5. Reached(n)'
    BY <2>2, <2>3, <2>4 DEF Reached
  <2>6. Holding(n)'
    <3>1. \A x : Held(n, x)' => x = NoName
      BY <2>2, <2>3 DEF Held
    <3>2. NoName \notin Names'
      BY <1>1, <1>2, DeclOK DEF Names
    <3>3. QED
      BY <3>1, <3>2 DEF Holding
  <2>7. pc'[1] = "exec" /\ pc'[2] = n
    BY <1>7, <2>1
  <2>8. QED
    BY <2>5, <2>6, <2>7 DEF Running
<1>10. QED
  BY <1>1, <1>2, <1>3, <1>4, <1>5, <1>9 DEF IInv

\* Every step of the run keeps the invariant.
LEMMA RunKeeps ==
  ASSUME IInv, Run, UNCHANGED checkVars
  PROVE  IInv'
<1>1. UNCHANGED <<decl, tree, phase, answer, hidden>> /\ phase = "run"
  BY DEF Run, RunExpr, RunAssign, RunReturn, RunBreak, RunContinue, RunIf, RunWhile, RunTest,
         RunForNext, RunForExhausted, RunNext, Raise, Goto, At, AtOneOf, checkVars
<1>2. decl \in Decls /\ TreeOK /\ WholeProgram /\ Table /\ hidden = Suppressed(answer) /\ Running
  BY <1>1 DEF IInv
<1>3. TreeOK' /\ WholeProgram'
  BY <1>1, <1>2, TreeKeeps
<1>4. Table' /\ hidden' = Suppressed(answer)'
  <2>1. /\ \A n : Answer(tree, answer, n)' = Answer(tree, answer, n)
        /\ Suppressed(answer)' = Suppressed(answer)
    BY <1>1, AnswersKeep
  <2>2. QED
    BY <1>1, <1>2, <2>1 DEF Table, Nodes
<1>5. Running'
  BY <1>1, <1>2, SimpleRuns, JumpRuns, TestRuns, ForRuns, NextRuns DEF Run, RunIf, RunWhile
<1>6. QED
  BY <1>1, <1>2, <1>3, <1>4, <1>5 DEF IInv

\* The invariant of Reachability is inductive.
THEOREM Invariance == Spec => []IInv
<1>1. Init => IInv
  <2>1. SUFFICES ASSUME Init PROVE IInv
    OBVIOUS
  <2>2. decl \in Decls /\ tree = <<>> /\ phase = "parse"
    BY <2>1 DEF Init, ProgInit
  <2>3. TreeOK
    BY <2>2 DEF TreeOK, Nodes
  <2>4. QED
    BY <2>2, <2>3 DEF IInv
<1>2. IInv /\ [Next]_vars => IInv'
  <2>1. SUFFICES ASSUME IInv, [Next]_vars PROVE IInv'
    OBVIOUS
  <2>2. CASE Parse /\ UNCHANGED checkVars
    <3>1. decl' = decl /\ phase' = phase /\ phase = "parse"
      BY <2>2 DEF Parse, AddStatement
    <3>2. TreeOK'
      BY <2>1, <2>2, ParseKeepsTree DEF IInv
    <3>3. QED
      BY <2>1, <3>1, <3>2 DEF IInv
  <2>3. CASE Check
    BY <2>1, <2>3, CheckKeeps
  <2>4. CASE Run /\ UNCHANGED checkVars
    BY <2>1, <2>4, RunKeeps
  <2>5. CASE UNCHANGED vars
    <3>1. UNCHANGED <<decl, tree, phase, pc, env, answer, hidden>>
      BY <2>5 DEF vars, progVars, checkVars
    <3>2. TreeOK' /\ (WholeProgram' <=> WholeProgram)
      BY <2>1, <3>1, TreeKeeps DEF IInv
    <3>3. /\ \A n : Answer(tree, answer, n)' = Answer(tree, answer, n)
          /\ Suppressed(answer)' = Suppressed(answer)
      BY <3>1, AnswersKeep
    <3>4. Table' <=> Table
      BY <3>1, <3>3 DEF Table, Nodes
    <3>5. Running' <=> Running
      BY <3>1, SameStructure DEF Running, Holding
    <3>6. QED
      BY <2>1, <3>1, <3>2, <3>3, <3>4, <3>5 DEF IInv
  <2>6. QED
    BY <2>1, <2>2, <2>3, <2>4, <2>5 DEF Next
<1>3. QED
  BY <1>1, <1>2, PTL DEF Spec

-----------------------------------------------------------------------------
(* What follows from it.                                                   *)

\* Of every body: a statement whose diagnostics check_suite or check_possibly_dead_suite
\* drops is never executed.
THEOREM DeadCodeIsDead == Spec => []HiddenNeverRuns
<1>1. IInv => HiddenNeverRuns
  <2>1. SUFFICES ASSUME IInv, phase = "run", pc[1] = "exec", pc[2] \in hidden PROVE FALSE
    BY DEF HiddenNeverRuns
  <2> DEFINE n == pc[2]
  <2>2. Reached(n) /\ n \in Suppressed(answer)
    BY <2>1 DEF IInv, Running
  <2>3. PICK m \in Path(n) : BehindTerminator(answer, m) \/ InDeadArm(m)
    BY <2>2 DEF Suppressed, Path
  <2>4. Live(m)
    BY <2>2, <2>3 DEF Reached
  <2>5. CASE BehindTerminator(answer, m)
    <3>1. PICK k \in Earlier(tree, m) : Leaves(k, InLoopBody(m), NoName)
      BY <2>5, Zenon DEF BehindTerminator, Leaves
    <3>2. NoName \in Tracked /\ Held(m, NoName)
      BY DEF Tracked, Held
    <3>3. QED
      BY <2>4, <3>1, <3>2, Zenon DEF Live
  <2>6. CASE InDeadArm(m)
    BY <2>4, <2>6, Zenon DEF InDeadArm, Live, Verdict
  <2>7. QED
    BY <2>3, <2>5, <2>6
<1>2. QED
  BY <1>1, Invariance, PTL

\* Of every def: if always_returns says so, its end is not reached, and the emitter may
\* leave the C++ function without a return of its own (visit(FunctionDef)).
THEOREM AcceptedDefsReturn == Spec => []NeverFallsOffTheEnd
<1>1. IInv => NeverFallsOffTheEnd
  BY DEF IInv, Running, NeverFallsOffTheEnd
<1>2. QED
  BY <1>1, Invariance, PTL

\* Of every loop: a break that is executed was counted by contains_reachable_break, even
\* under the name the header narrows to true.
THEOREM BreaksAreCounted == Spec => []ClearedLoopNeverBreaks
<1>1. IInv => ClearedLoopNeverBreaks
  <2>1. SUFFICES ASSUME IInv, phase = "run", pc[1] = "exec", tree[pc[2]].kind = "Break",
                        tree[pc[2]].loop # 0
                 PROVE  Breakable(tree[pc[2]].loop, Narrows(tree[pc[2]].loop))
    BY DEF ClearedLoopNeverBreaks, Breakable, Narrows
  <2>2. Reached(pc[2]) /\ decl \in Decls /\ TreeOK /\ Table
    BY <2>1 DEF IInv, Running
  <2>3. QED
    BY <2>1, <2>2, BreaksAreFound DEF Reached
<1>2. QED
  BY <1>1, Invariance, PTL

\* Outside of loops, and where CPython compiles the body, it makes no difference that
\* visit(If) asks as if inside one.
LEMMA ContextIsHarmless ==
  ASSUME TreeOK, Table, \A n \in Nodes : Legal(tree[n].kind, tree[n].loop)
  PROVE  \A n \in Nodes : tree[n].loop = 0 /\ Leaves(n, TRUE, NoName) => Leaves(n, FALSE, NoName)
<1> DEFINE In == Place(TRUE, NoName)
           Out == Place(FALSE, NoName)
           Same(n) == Leaves(n, TRUE, NoName) => Leaves(n, FALSE, NoName)
           T == {n \in Nodes : tree[n].loop = 0 => Same(n)}
<1>1. Len(tree) \in Nat /\ Nodes = 1..Len(tree)
  BY NodesAre
<1>2. /\ In.narrowed = NoName /\ Out.narrowed = NoName
      /\ In.in_loop = TRUE /\ Out.in_loop = FALSE /\ NoName \in Tracked
  BY DEF Place, Tracked
<1>3. ASSUME NEW n \in 1..Len(tree), \A k \in 1..Len(tree) : n < k => k \in T
      PROVE  n \in T
  <2>1. SUFFICES ASSUME tree[n].loop = 0, Leaves(n, TRUE, NoName) PROVE Leaves(n, FALSE, NoName)
    BY <1>1
  <2>2. ASSUME NEW a \in Arms, ~(tree[n].kind \in Loops /\ a = "body"),
               always_leaves_branch(tree, answer, n, a, In)
        PROVE  always_leaves_branch(tree, answer, n, a, Out)
    <3>1. PICK m \in Suite(tree, n, a) : Leaves(m, TRUE, NoName)
      BY <2>2, Zenon DEF always_leaves_branch, Leaves
    <3>2. m \in Nodes /\ tree[m].up = n /\ tree[m].arm = a
      BY DEF Suite, Nodes
    <3>3. n < m /\ Placed(m)
      BY <1>1, <3>2, Below DEF TreeOK
    <3>4. tree[m].loop = 0
      BY <1>1, <2>1, <2>2, <3>2, <3>3 DEF Placed, LoopAt
    <3>5. Leaves(m, FALSE, NoName)
      BY <1>1, <1>3, <3>1, <3>2, <3>3, <3>4
    <3>6. QED
      BY <3>5, Zenon DEF always_leaves_branch, Leaves
  <2>3. statement_always_leaves(tree, answer, n, In)
    BY <1>1, <1>2, <2>1, Answers, Zenon
  <2>4. statement_always_leaves(tree, answer, n, Out)
    <3>1. CASE tree[n].kind \in {"Break", "Continue"}
      BY <1>1, <2>1, <3>1 DEF Legal
    <3>2. CASE tree[n].kind = "If"
      <4>1. \A a \in Arms : always_leaves_branch(tree, answer, n, a, In)
                             => always_leaves_branch(tree, answer, n, a, Out)
        BY <2>2, <3>2 DEF Loops
      <4>2. \A verdict : LiveArm(verdict) \in Arms
        BY DEF Arms, LiveArm
      <4>3. if_always_leaves(tree, answer, n, In)
        BY <2>3, <3>2, LeavesByKind DEF Loops
      <4>4. if_always_leaves(tree, answer, n, Out)
        <5>1. Place(In.in_loop, NoName) = In /\ Place(Out.in_loop, NoName) = Out
          BY <1>2
        <5> HIDE DEF In, Out
        <5>2. CASE guard_verdict(tree[n].guard, NoName) # "Unknown"
          BY <1>2, <4>1, <4>2, <4>3, <5>2, Zenon DEF if_always_leaves
        <5>3. CASE guard_verdict(tree[n].guard, NoName) = "Unknown"
          BY <1>2, <4>1, <4>3, <5>1, <5>3 DEF if_always_leaves, Arms
        <5>4. QED
          BY <5>2, <5>3
      <4>5. QED
        BY <3>2, <4>4, LeavesByKind
    <3>3. CASE tree[n].kind \in Loops
      <4>1. always_leaves_branch(tree, answer, n, "orelse", In)
              => always_leaves_branch(tree, answer, n, "orelse", Out)
        BY <2>2 DEF Arms
      <4>2. loop_always_leaves(tree, answer, n, In)
        BY <2>3, <3>3, LeavesByKind DEF Loops
      <4>3. loop_always_leaves(tree, answer, n, Out)
        BY <1>2, <4>1, <4>2 DEF loop_always_leaves
      <4>4. QED
        BY <3>3, <4>3, LeavesByKind
    <3>4. CASE tree[n].kind \notin {"Break", "Continue", "If"} \union Loops
      BY <2>3, <3>4, LeavesByKind
    <3>5. QED
      BY <3>1, <3>2, <3>3, <3>4
  <2>5. QED
    BY <1>1, <1>2, <2>4, Answers, Zenon
<1> HIDE DEF T
<1>4. \A n \in 1..Len(tree) : n \in T
  BY <1>1, <1>3, LastFirst
<1>5. QED
  BY <1>1, <1>4 DEF T

\* Of every if: control never comes out of an arm that visit(If) leaves out of the join.
THEOREM DroppedEdgesAreNotTaken == Spec => []DroppedEdgeNeverTaken
<1>1. IInv => DroppedEdgeNeverTaken
  <2> DEFINE n == pc[2]
             up == tree[n].up
  <2>1. SUFFICES ASSUME IInv, phase = "run", pc[1] = "done", up # 0, Later(tree, n) = {},
                        \A k \in Nodes : Legal(tree[k].kind, tree[k].loop),
                        tree[up].kind = "If", DroppedArm(up, tree[n].arm)
                 PROVE  FALSE
    BY DEF DroppedEdgeNeverTaken
  <2>2. Reached(n) /\ Completed(n) /\ TreeOK /\ Table
    BY <2>1 DEF IInv, Running
  <2>3. n \in Nodes /\ Live(n)
    BY <2>2, PathsAreNodes DEF Reached
  <2>4. tree[n].arm \in LiveArms(literal_guard_verdict(tree[up].guard))
    BY <2>1, <2>3, Zenon DEF Live, Verdict
  <2>5. PICK m \in Suite(tree, up, tree[n].arm) : Leaves(m, TRUE, NoName)
    BY <2>1, <2>4, Zenon DEF DroppedArm, always_leaves_branch, Leaves
  <2>6. m \in Nodes /\ tree[m].loop = tree[n].loop
    BY <2>2, <2>3, Neighbours
  <2>7. ~Leaves(m, InLoopBody(n), NoName)
    <3>1. NoName \in Tracked /\ Held(n, NoName)
      BY DEF Tracked, Held
    <3>2. QED
      BY <2>1, <2>2, <2>3, <3>1, SuiteIsOver, Zenon
  <2>8. CASE tree[n].loop # 0
    <3>1. InLoopBody(n) = TRUE
      BY <2>8 DEF InLoopBody
    <3>2. QED
      BY <2>5, <2>7, <3>1
  <2>9. CASE tree[n].loop = 0
    <3>1. InLoopBody(n) = FALSE
      BY <2>9 DEF InLoopBody
    <3>2. Leaves(m, FALSE, NoName)
      BY <2>1, <2>2, <2>5, <2>6, <2>9, ContextIsHarmless
    <3>3. QED
      BY <2>7, <3>1, <3>2
  <2>10. QED
    BY <2>8, <2>9
<1>2. QED
  BY <1>1, Invariance, PTL
-----------------------------------------------------------------------------
(* Types: how deep they are, and that is_subtype is what subtype_rule says. *)

\* The names a type may bear.
TypeNames == ToSet(ClassNames) \union {""}

\* One more level of types, of the kinds K allows on it.
Layer(K, f, n) ==
  [kind : K[n], name : TypeNames, args : IF n = 0 THEN {<<>>} ELSE Seq(f[n - 1]),
   defaulted_params : Nat]
Layers(K, top, f) == f = [n \in 0..top |-> Layer(K, f, n)]

\* Induction, over the set of the numbers a fact holds of.
LEMMA Upward ==
  ASSUME NEW T, 0 \in T, \A k \in Nat : k \in T => k + 1 \in T
  PROVE  \A k \in Nat : k \in T
<1>1. SUFFICES ASSUME NEW k \in Nat, k \notin T PROVE FALSE
  OBVIOUS
<1> DEFINE Rest == {i \in Nat : i \notin T}
<1>2. PICK least \in Rest : \A y \in Rest : least <= y
  BY <1>1, LeastNatural
<1>3. least # 0 /\ least \in Nat
  BY <1>2
<1>4. least - 1 \in Nat /\ least - 1 \in T
  BY <1>2, <1>3
<1> QED
  BY <1>2, <1>3, <1>4

\* Layers of types are defined by the layer below.
LEMMA LayersExist ==
  ASSUME NEW K, NEW top \in Nat
  PROVE  \E f : Layers(K, top, f)
<1> DEFINE Upto(k) == \E f : Layers(K, k, f)
           T == {k \in Nat : Upto(k)}
<1>1. 0 \in T
  <2>1. Layers(K, 0, [n \in 0..0 |-> Layer(K, <<>>, 0)])
    BY DEF Layers, Layer
  <2> QED
    BY <2>1
<1>2. ASSUME NEW k \in Nat, k \in T PROVE k + 1 \in T
  <2>1. PICK f : Layers(K, k, f)
    BY <1>2
  <2> DEFINE h == [n \in 0..(k + 1) |-> IF n = k + 1 THEN Layer(K, f, k + 1) ELSE f[n]]
  <2>2. \A n \in 0..k : h[n] = f[n]
    OBVIOUS
  <2>3. ASSUME NEW n \in 0..(k + 1) PROVE h[n] = Layer(K, h, n)
    <3>1. n # 0 => n - 1 \in 0..k /\ h[n - 1] = f[n - 1]
      BY <2>2
    <3> HIDE DEF h
    <3>2. Layer(K, h, n) = Layer(K, f, n)
      BY <3>1 DEF Layer
    <3>3. CASE n = k + 1
      BY <3>2, <3>3 DEF h
    <3>4. CASE n # k + 1
      <4>1. n \in 0..k
        BY <3>4
      <4>2. f[n] = Layer(K, f, n)
        BY <2>1, <4>1 DEF Layers
      <4> QED
        BY <2>2, <3>2, <4>1, <4>2
    <3> QED
      BY <3>3, <3>4
  <2>4. h = [n \in 0..(k + 1) |-> h[n]]
    OBVIOUS
  <2> HIDE DEF h
  <2>5. h = [n \in 0..(k + 1) |-> Layer(K, h, n)]
    BY <2>3, <2>4
  <2>6. Upto(k + 1)
    BY <2>5 DEF Layers
  <2> QED
    BY <2>6
<1> HIDE DEF T
<1>3. \A k \in Nat : k \in T
  BY <1>1, <1>2, Upward
<1> QED
  BY <1>3 DEF T

\* The layers of types over the kinds of a set: one set of kinds on every level.
Everywhere(kinds) == [n \in 0..MaxNesting |-> kinds]
TypesUpTo(kinds) == CHOOSE f : Layers(Everywhere(kinds), MaxNesting, f)

\* The types over some kinds, level by level.
LEMMA TypesAre ==
  ASSUME NEW kinds
  PROVE  /\ TypesOver(kinds) = TypesUpTo(kinds)[MaxNesting]
         /\ \A n \in 0..MaxNesting : TypesUpTo(kinds)[n] = Layer(Everywhere(kinds), TypesUpTo(kinds), n)
<1>1. MaxNesting \in Nat /\ MaxNesting \in 0..MaxNesting
  BY DEF MaxNesting
<1>2. Layers(Everywhere(kinds), MaxNesting, TypesUpTo(kinds))
  BY <1>1, LayersExist DEF TypesUpTo
<1>3. \A n \in 0..MaxNesting : TypesUpTo(kinds)[n] = Layer(Everywhere(kinds), TypesUpTo(kinds), n)
  <2> DEFINE f == TypesUpTo(kinds)
  <2>1. f = [n \in 0..MaxNesting |-> Layer(Everywhere(kinds), f, n)]
    BY <1>2 DEF Layers
  <2> HIDE DEF f
  <2>2. \A n \in 0..MaxNesting : f[n] = Layer(Everywhere(kinds), f, n)
    BY <2>1
  <2> QED
    BY <2>2 DEF f
<1> DEFINE F(f) == f = [d \in 0..MaxNesting |->
             [kind : kinds, name : ToSet(ClassNames) \union {""},
              args : IF d = 0 THEN {<<>>} ELSE Seq(f[d - 1]), defaulted_params : Nat]]
<1>4. \A f : F(f) <=> Layers(Everywhere(kinds), MaxNesting, f)
  <2>1. SUFFICES ASSUME NEW f PROVE F(f) <=> Layers(Everywhere(kinds), MaxNesting, f)
    OBVIOUS
  <2>2. \A n \in 0..MaxNesting : Everywhere(kinds)[n] = kinds
    BY DEF Everywhere
  <2>3. \A n \in 0..MaxNesting : Layer(Everywhere(kinds), f, n) =
            [kind : kinds, name : ToSet(ClassNames) \union {""},
              args : IF n = 0 THEN {<<>>} ELSE Seq(f[n - 1]), defaulted_params : Nat]
    BY <2>2 DEF Layer, TypeNames
  <2> QED
    BY <2>3 DEF Layers
<1> DEFINE types == CHOOSE f : F(f)
<1>5. types = TypesUpTo(kinds)
  BY <1>4 DEF TypesUpTo
<1>6. TypesOver(kinds) = types[MaxNesting]
  BY DEF TypesOver
<1> QED
  BY <1>3, <1>5, <1>6

\* What a type of a layer consists of.
LEMMA OfALayer ==
  ASSUME NEW K, NEW f, NEW n, NEW t \in Layer(K, f, n)
  PROVE  /\ t.kind \in K[n] /\ t.name \in TypeNames /\ t.defaulted_params \in Nat
         /\ n = 0 => t.args = <<>>
         /\ n # 0 => t.args \in Seq(f[n - 1])
         /\ t = [kind |-> t.kind, name |-> t.name, args |-> t.args,
                 defaulted_params |-> t.defaulted_params]
BY DEF Layer

\* What makes a type of a layer.
LEMMA InALayer ==
  ASSUME NEW K, NEW f, NEW n, NEW k \in K[n], NEW m \in TypeNames, NEW d \in Nat,
         NEW a, n = 0 => a = <<>>, n # 0 => a \in Seq(f[n - 1])
  PROVE  [kind |-> k, name |-> m, args |-> a, defaulted_params |-> d] \in Layer(K, f, n)
BY DEF Layer

\* Layers that allow more, by a shift.
Layered(K, f, m) == \A n \in 0..m : f[n] = Layer(K, f, n)
Within(K, L, m, d) == \A n \in 0..m : K[n] \subseteq L[n + d]

\* Where every layer is within one of the other stack, so are the types.
LEMMA LayersGrow ==
  ASSUME NEW K, NEW f, NEW L, NEW g, NEW m \in Nat, NEW d \in Nat,
         Layered(K, f, m), Layered(L, g, m + d), Within(K, L, m, d)
  PROVE  Within(f, g, m, d)
<1>0. /\ \A n \in 0..m : f[n] = Layer(K, f, n)
      /\ \A n \in 0..(m + d) : g[n] = Layer(L, g, n)
      /\ \A n \in 0..m : K[n] \subseteq L[n + d]
  BY DEF Layered, Within
<1> DEFINE T == {n \in Nat : n \in 0..m => f[n] \subseteq g[n + d]}
<1>1. ASSUME NEW n \in 0..m, n # 0 => f[n - 1] \subseteq g[(n - 1) + d]
      PROVE  f[n] \subseteq g[n + d]
  <2>1. f[n] = Layer(K, f, n) /\ g[n + d] = Layer(L, g, n + d) /\ K[n] \subseteq L[n + d]
    BY <1>0
  <2>2. ASSUME NEW t \in Layer(K, f, n) PROVE t \in Layer(L, g, n + d)
    <3>1. /\ t.kind \in K[n] /\ t.name \in TypeNames /\ t.defaulted_params \in Nat
          /\ n = 0 => t.args = <<>>
          /\ n # 0 => t.args \in Seq(f[n - 1])
          /\ t = [kind |-> t.kind, name |-> t.name, args |-> t.args,
                  defaulted_params |-> t.defaulted_params]
      BY OfALayer
    <3>2. n + d = 0 => t.args = <<>>
      BY <3>1
    <3>3. n + d # 0 => t.args \in Seq(g[(n + d) - 1])
      <4>1. CASE n = 0
        <5>1. t.args = <<>>
          BY <3>1, <4>1
        <5>2. <<>> \in Seq(g[(n + d) - 1])
          OBVIOUS
        <5> QED
          BY <5>1, <5>2
      <4>2. CASE n # 0
        <5>1. f[n - 1] \subseteq g[(n + d) - 1] /\ (n - 1) + d = (n + d) - 1
          BY <1>1, <4>2
        <5>2. t.args \in Seq(f[n - 1])
          BY <3>1, <4>2
        <5> QED
          BY <5>1, <5>2
      <4> QED
        BY <4>1, <4>2
    <3>4. t.kind \in L[n + d]
      BY <2>1, <3>1
    <3> DEFINE i == n + d
               a == t.args
               k == t.kind
               e == t.name
               p == t.defaulted_params
    <3>5. /\ k \in L[i] /\ e \in TypeNames /\ p \in Nat
          /\ i = 0 => a = <<>>
          /\ i # 0 => a \in Seq(g[i - 1])
      BY <3>1, <3>2, <3>3, <3>4
    <3> HIDE DEF i, a, k, e, p
    <3>6. [kind |-> k, name |-> e, args |-> a, defaulted_params |-> p] \in Layer(L, g, i)
      BY <3>5, InALayer
    <3> QED
      BY <3>1, <3>6 DEF i, a, k, e, p
  <2> QED
    BY <2>1, <2>2
<1>2. 0 \in T
  BY <1>1
<1>3. ASSUME NEW n \in Nat, n \in T PROVE n + 1 \in T
  <2>1. SUFFICES ASSUME n + 1 \in 0..m PROVE f[n + 1] \subseteq g[(n + 1) + d]
    OBVIOUS
  <2>2. n \in 0..m /\ (n + 1) - 1 = n
    BY <2>1
  <2>3. f[n] \subseteq g[n + d]
    BY <1>3, <2>2
  <2> QED
    BY <1>1, <2>1, <2>2, <2>3
<1> HIDE DEF T
<1>4. \A n \in Nat : n \in T
  BY <1>2, <1>3, Upward
<1> QED
  BY <1>4 DEF T, Within

-----------------------------------------------------------------------------
(* What a type weighs: a class more than any builtin type, a type more     *)
(* than its arguments.                                                     *)

Heaviest == MaxNesting + (MaxNesting + 1)
KindsByWeight ==
  [n \in 0..Heaviest |-> IF n <= MaxNesting THEN ToSet(Kinds) \ {"Class"} ELSE ToSet(Kinds)]
Weighing == CHOOSE f : Layers(KindsByWeight, Heaviest, f)
BuiltinTypes == TypesOver(ToSet(Kinds) \ {"Class"})

\* t is a type, and weighs n at most.
Weighs(t, n) == t \in AllTypes /\ n \in 0..Heaviest /\ t \in Weighing[n]

\* The weighing of types, level by level.
LEMMA WeighingIs == \A n \in 0..Heaviest : Weighing[n] = Layer(KindsByWeight, Weighing, n)
<1>1. Heaviest \in Nat
  BY DEF Heaviest, MaxNesting
<1>2. Layers(KindsByWeight, Heaviest, Weighing)
  BY <1>1, LayersExist DEF Weighing
<1> DEFINE f == Weighing
<1>3. f = [n \in 0..Heaviest |-> Layer(KindsByWeight, f, n)]
  BY <1>2 DEF Layers
<1> HIDE DEF f
<1>4. \A n \in 0..Heaviest : f[n] = Layer(KindsByWeight, f, n)
  BY <1>3
<1> QED
  BY <1>4 DEF f

\* Every type has a weight, builtin types less than classes; what a type is made of weighs less.
LEMMA Weights ==
  /\ \A t \in AllTypes : Weighs(t, Heaviest)
  /\ \A t \in BuiltinTypes : t.kind # "Class" /\ Weighs(t, MaxNesting)
  /\ \A t, n : Weighs(t, n) => /\ t.kind = "Class" => n >= MaxNesting + 1
                               /\ \A m \in n..Heaviest : Weighs(t, m)
                               /\ \A i \in DOMAIN t.args : n # 0 /\ Weighs(t.args[i], n - 1)
                               /\ t.args \in Seq(AllTypes)
                               /\ t = [kind |-> t.kind, name |-> t.name, args |-> t.args,
                                       defaulted_params |-> t.defaulted_params]
                               /\ t.kind \in ToSet(Kinds) /\ t.name \in TypeNames
                               /\ t.defaulted_params \in Nat
<1> DEFINE all == ToSet(Kinds)
           some == all \ {"Class"}
           A == TypesUpTo(all)
           B == TypesUpTo(some)
<1>0. MaxNesting = 6 /\ Heaviest = 13
  BY DEF MaxNesting, Heaviest
<1>1. AllTypes = A[6] /\ \A n \in 0..6 : A[n] = Layer(Everywhere(all), A, n)
  BY <1>0, TypesAre DEF AllTypes
<1>2. BuiltinTypes = B[6] /\ \A n \in 0..6 : B[n] = Layer(Everywhere(some), B, n)
  BY <1>0, TypesAre DEF BuiltinTypes
<1>3. \A n \in 0..13 : Weighing[n] = Layer(KindsByWeight, Weighing, n)
  BY <1>0, WeighingIs
<1>4. \A n \in 0..6 : Everywhere(all)[n] = all /\ Everywhere(some)[n] = some
  BY <1>0 DEF Everywhere
<1>5. \A n \in 0..13 : KindsByWeight[n] = IF n <= 6 THEN some ELSE all
  BY <1>0 DEF KindsByWeight
<1> HIDE DEF A, B, all, some
<1>6. some \subseteq all /\ "Class" \notin some
  BY DEF some
<1> DEFINE LA == Everywhere(all)
           LB == Everywhere(some)
<1>20. 6 \in Nat /\ 7 \in Nat /\ 0 \in Nat /\ 1 \in Nat /\ 12 \in Nat /\ 5 \in Nat
  OBVIOUS
<1>21. /\ Layered(LA, A, 6) /\ Layered(LA, A, 6 + 0) /\ Layered(LA, A, 5 + 1) /\ Layered(LA, A, 5)
       /\ Layered(LB, B, 6)
       /\ Layered(KindsByWeight, Weighing, 6 + 7) /\ Layered(KindsByWeight, Weighing, 6 + 0)
       /\ Layered(KindsByWeight, Weighing, 12 + 1) /\ Layered(KindsByWeight, Weighing, 12)
  BY <1>1, <1>2, <1>3 DEF Layered
<1>22. /\ \A n \in 0..6 : LA[n] = all /\ LB[n] = some
  BY <1>4
<1> HIDE DEF LA, LB
<1>7. \A n \in 0..6 : A[n] \subseteq Weighing[n + 7]
  <2>1. Within(LA, KindsByWeight, 6, 7)
    BY <1>22, <1>5 DEF Within
  <2>2. Within(A, Weighing, 6, 7)
    BY <1>20, <1>21, <2>1, LayersGrow
  <2> QED
    BY <2>2 DEF Within
<1>8. \A n \in 0..6 : B[n] \subseteq Weighing[n + 0] /\ B[n] \subseteq A[n + 0]
  <2>1. Within(LB, KindsByWeight, 6, 0) /\ Within(LB, LA, 6, 0)
    BY <1>22, <1>5, <1>6 DEF Within
  <2>2. Within(B, Weighing, 6, 0) /\ Within(B, A, 6, 0)
    BY <1>20, <1>21, <2>1, LayersGrow
  <2> QED
    BY <2>2 DEF Within
<1>9. \A n \in 0..12 : Weighing[n] \subseteq Weighing[n + 1]
  <2>1. Within(KindsByWeight, KindsByWeight, 12, 1)
    BY <1>5, <1>6 DEF Within
  <2>2. Within(Weighing, Weighing, 12, 1)
    BY <1>20, <1>21, <2>1, LayersGrow
  <2> QED
    BY <2>2 DEF Within
<1>10. \A n \in 0..5 : A[n] \subseteq A[n + 1]
  <2>1. Within(LA, LA, 5, 1)
    BY <1>22 DEF Within
  <2>2. Within(A, A, 5, 1)
    BY <1>20, <1>21, <2>1, LayersGrow
  <2> QED
    BY <2>2 DEF Within
<1>11. \A n \in 0..13, m \in 0..13 : n <= m => Weighing[n] \subseteq Weighing[m]
  <2> DEFINE T == {d \in Nat : \A n \in 0..13 : n + d <= 13 => Weighing[n] \subseteq Weighing[n + d]}
  <2>1. 0 \in T
    OBVIOUS
  <2>2. ASSUME NEW d \in Nat, d \in T PROVE d + 1 \in T
    <3>1. SUFFICES ASSUME NEW n \in 0..13, n + (d + 1) <= 13
                   PROVE  Weighing[n] \subseteq Weighing[n + (d + 1)]
      OBVIOUS
    <3>2. Weighing[n] \subseteq Weighing[n + d]
      BY <2>2, <3>1
    <3>3. Weighing[n + d] \subseteq Weighing[(n + d) + 1] /\ (n + d) + 1 = n + (d + 1)
      BY <1>9, <3>1
    <3> QED
      BY <3>2, <3>3
  <2> HIDE DEF T
  <2>3. \A d \in Nat : d \in T
    BY <2>1, <2>2, Upward
  <2>4. SUFFICES ASSUME NEW n \in 0..13, NEW m \in 0..13, n <= m
                 PROVE  Weighing[n] \subseteq Weighing[m]
    OBVIOUS
  <2>5. m - n \in T /\ n + (m - n) = m
    BY <2>3, <2>4
  <2> QED
    BY <2>4, <2>5 DEF T
<1>12. \A t \in AllTypes : Weighs(t, Heaviest)
  BY <1>0, <1>1, <1>7 DEF Weighs
<1>13. \A t \in BuiltinTypes : t.kind # "Class" /\ Weighs(t, MaxNesting)
  <2>1. SUFFICES ASSUME NEW t \in B[6] PROVE t.kind # "Class" /\ Weighs(t, MaxNesting)
    BY <1>2
  <2>2. t \in Weighing[6] /\ t \in A[6]
    BY <1>8
  <2>3. t.kind \in some
    BY <1>2, <1>4, OfALayer
  <2> QED
    BY <1>0, <1>1, <1>6, <2>2, <2>3 DEF Weighs
<1>14. ASSUME NEW t \in AllTypes
       PROVE  /\ t.args \in Seq(AllTypes) /\ t.kind \in all /\ t.name \in TypeNames
              /\ t.defaulted_params \in Nat
              /\ t = [kind |-> t.kind, name |-> t.name, args |-> t.args,
                      defaulted_params |-> t.defaulted_params]
  <2>1. t \in Layer(Everywhere(all), A, 6)
    BY <1>1
  <2>2. /\ t.kind \in Everywhere(all)[6] /\ t.name \in TypeNames /\ t.defaulted_params \in Nat
        /\ t.args \in Seq(A[6 - 1])
        /\ t = [kind |-> t.kind, name |-> t.name, args |-> t.args,
                defaulted_params |-> t.defaulted_params]
    BY <2>1, OfALayer
  <2>3. A[5] \subseteq A[5 + 1]
    BY <1>10
  <2>4. t.args \in Seq(AllTypes)
    <3>1. A[5] \subseteq AllTypes /\ t.args \in Seq(A[5])
      BY <1>1, <2>2, <2>3
    <3> QED
      BY <3>1
  <2> QED
    BY <1>4, <2>2, <2>4
<1>15. ASSUME NEW t, NEW n, Weighs(t, n)
       PROVE  /\ t.kind = "Class" => n >= MaxNesting + 1
              /\ \A m \in n..Heaviest : Weighs(t, m)
              /\ \A i \in DOMAIN t.args : n # 0 /\ Weighs(t.args[i], n - 1)
  <2>1. t \in AllTypes /\ n \in 0..13 /\ t \in Weighing[n]
    BY <1>0, <1>15 DEF Weighs
  <2>2. t \in Layer(KindsByWeight, Weighing, n)
    BY <1>3, <2>1
  <2>3. /\ t.kind \in KindsByWeight[n]
        /\ n = 0 => t.args = <<>>
        /\ n # 0 => t.args \in Seq(Weighing[n - 1])
    BY <2>2, OfALayer
  <2>4. t.kind = "Class" => n >= MaxNesting + 1
    BY <1>0, <1>5, <1>6, <2>1, <2>3
  <2>5. \A m \in n..Heaviest : Weighs(t, m)
    <3>1. \A m \in n..13 : m \in 0..13 /\ t \in Weighing[m]
      BY <1>11, <2>1
    <3> QED
      BY <1>0, <2>1, <3>1 DEF Weighs
  <2>6. ASSUME NEW i \in DOMAIN t.args PROVE n # 0 /\ Weighs(t.args[i], n - 1)
    <3>1. n # 0
      BY <2>3
    <3>2. t.args \in Seq(Weighing[n - 1]) /\ t.args \in Seq(AllTypes)
      BY <1>14, <2>1, <2>3, <3>1
    <3>3. t.args[i] \in Weighing[n - 1] /\ t.args[i] \in AllTypes
      BY <3>2
    <3>4. n - 1 \in 0..13
      BY <2>1, <3>1
    <3> QED
      BY <1>0, <3>1, <3>3, <3>4 DEF Weighs
  <2> QED
    BY <2>4, <2>5, <2>6
<1>16. \A t, n : Weighs(t, n) => t \in AllTypes
  BY DEF Weighs
<1> QED
  BY <1>12, <1>13, <1>14, <1>15, <1>16 DEF all

\* What is above a class in a table: classes, and builtin types that name no class.
Grounded(classes) ==
  \A name \in TypeNames :
    /\ class_ancestor_chain(classes, name) \in Seq(AllTypes)
    /\ \A step \in ToSet(Tail(class_ancestor_chain(classes, name))) :
         step.kind # "Class" => step \in BuiltinTypes

Lighter(u, v, n) == \E c, d : Weighs(u, c) /\ Weighs(v, d) /\ c + d < n
Agree(g, h, n) == \A u, v : Lighter(u, v, n) => g[<<u, v>>] = h[<<u, v>>]

\* The pairs subtype_rule asks about weigh less than the pair it is asked about.
LEMMA Parts ==
  ASSUME NEW s, NEW t, NEW a, NEW b, Weighs(s, a), Weighs(t, b)
  PROVE  /\ \A m \in ToSet(s.args) : Lighter(m, t, a + b)
         /\ \A m \in ToSet(t.args) : Lighter(s, m, a + b)
         /\ \A m \in ToSet(s.args), k \in ToSet(t.args) : Lighter(m, k, a + b) /\ Lighter(k, m, a + b)
         /\ s.kind = "Class" => \A step \in BuiltinTypes : Lighter(step, t, a + b)
<1>1. a \in Nat /\ b \in Nat
  BY DEF Weighs
<1>2. \A m \in ToSet(s.args) : Weighs(m, a - 1)
  BY Weights DEF ToSet
<1>3. \A m \in ToSet(t.args) : Weighs(m, b - 1)
  BY Weights DEF ToSet
<1>4. \A m \in ToSet(s.args) : Lighter(m, t, a + b)
  <2>1. SUFFICES ASSUME NEW m \in ToSet(s.args) PROVE Lighter(m, t, a + b)
    OBVIOUS
  <2>2. Weighs(m, a - 1) /\ Weighs(t, b) /\ (a - 1) + b < a + b
    BY <1>1, <1>2
  <2> QED
    BY <2>2 DEF Lighter
<1>5. \A m \in ToSet(t.args) : Lighter(s, m, a + b)
  <2>1. SUFFICES ASSUME NEW m \in ToSet(t.args) PROVE Lighter(s, m, a + b)
    OBVIOUS
  <2>2. Weighs(m, b - 1) /\ Weighs(s, a) /\ a + (b - 1) < a + b
    BY <1>1, <1>3
  <2> QED
    BY <2>2 DEF Lighter
<1>6. ASSUME NEW m \in ToSet(s.args), NEW k \in ToSet(t.args)
      PROVE  Lighter(m, k, a + b) /\ Lighter(k, m, a + b)
  <2>1. Weighs(m, a - 1) /\ Weighs(k, b - 1) /\ (a - 1) + (b - 1) < a + b /\ (b - 1) + (a - 1) < a + b
    BY <1>1, <1>2, <1>3
  <2> QED
    BY <2>1 DEF Lighter
<1>7. ASSUME s.kind = "Class", NEW step \in BuiltinTypes PROVE Lighter(step, t, a + b)
  <2>1. Weighs(step, MaxNesting) /\ a >= MaxNesting + 1 /\ MaxNesting \in Nat
    BY <1>7, Weights DEF MaxNesting
  <2>2. MaxNesting + b < a + b
    BY <1>1, <2>1
  <2> QED
    BY <2>1, <2>2 DEF Lighter
<1> QED
  BY <1>4, <1>5, <1>6, <1>7

\* numeric_rank, kind by kind.
LEMMA RankIs ==
  ASSUME NEW k
  PROVE  numeric_rank(k) = CASE k = "Bool" -> 1 [] k = "Int" -> 2 [] k = "Float" -> 3
                             [] k = "Complex" -> 4 [] OTHER -> 0
<1> DEFINE s == NumericKinds
<1>1. /\ DOMAIN s = 1..4 /\ Len(s) = 4 /\ s[1] = "Bool" /\ s[2] = "Int" /\ s[3] = "Float"
      /\ s[4] = "Complex"
  BY DEF NumericKinds
<1> HIDE DEF s
<1>2. \A i \in 1..4 : i = 1 \/ i = 2 \/ i = 3 \/ i = 4
  OBVIOUS
<1>3. numeric_rank(k) = PositionIn(s, k)
  BY DEF numeric_rank, s
<1>4. CASE k \in {"Bool", "Int", "Float", "Complex"}
  <2> DEFINE r == CASE k = "Bool" -> 1 [] k = "Int" -> 2 [] k = "Float" -> 3 [] OTHER -> 4
  <2>1. r \in 1..4 /\ s[r] = k /\ \A i \in 1..4 : s[i] = k => i = r
    BY <1>1, <1>2, <1>4
  <2> HIDE DEF r
  <2>2. Contains(s, k) /\ (CHOOSE i \in DOMAIN s : s[i] = k) = r
    BY <1>1, <2>1 DEF Contains
  <2>3. numeric_rank(k) = r
    BY <1>3, <2>2 DEF PositionIn
  <2> QED
    BY <1>4, <2>3 DEF r
<1>5. CASE k \notin {"Bool", "Int", "Float", "Complex"}
  <2>1. ~Contains(s, k)
    BY <1>1, <1>2, <1>5 DEF Contains
  <2> QED
    BY <1>3, <1>5, <2>1 DEF PositionIn
<1> QED
  BY <1>4, <1>5

\* subtype_rule asks about lighter pairs only.
LEMMA RuleIsLocal ==
  ASSUME NEW classes, Grounded(classes), NEW s, NEW t, NEW a, NEW b, Weighs(s, a), Weighs(t, b),
         NEW g, NEW h, Agree(g, h, a + b)
  PROVE  subtype_rule(g, s, t, classes) = subtype_rule(h, s, t, classes)
<1>1. s \in AllTypes /\ t \in AllTypes /\ s.args \in Seq(AllTypes) /\ t.args \in Seq(AllTypes)
      /\ s.name \in TypeNames
  BY Weights DEF Weighs
<1>2. \A m \in ToSet(s.args) : g[<<m, t>>] = h[<<m, t>>]
  BY Parts DEF Agree
<1>3. \A m \in ToSet(t.args) : g[<<s, m>>] = h[<<s, m>>]
  BY Parts DEF Agree
<1>4. \A i \in DOMAIN s.args, j \in DOMAIN t.args :
        /\ g[<<s.args[i], t.args[j]>>] = h[<<s.args[i], t.args[j]>>]
        /\ g[<<t.args[j], s.args[i]>>] = h[<<t.args[j], s.args[i]>>]
  <2>1. SUFFICES ASSUME NEW i \in DOMAIN s.args, NEW j \in DOMAIN t.args
                 PROVE  /\ g[<<s.args[i], t.args[j]>>] = h[<<s.args[i], t.args[j]>>]
                        /\ g[<<t.args[j], s.args[i]>>] = h[<<t.args[j], s.args[i]>>]
    OBVIOUS
  <2>2. s.args[i] \in ToSet(s.args) /\ t.args[j] \in ToSet(t.args)
    BY DEF ToSet
  <2> QED
    BY <2>2, Parts DEF Agree
<1>5. DOMAIN s.args = 1..Len(s.args) /\ DOMAIN t.args = 1..Len(t.args)
      /\ Len(s.args) \in Nat /\ Len(t.args) \in Nat
  BY <1>1
<1>6. /\ SameElements(g, s.args, t.args) = SameElements(h, s.args, t.args)
      /\ NarrowerElements(g, s.args, t.args) = NarrowerElements(h, s.args, t.args)
      /\ CallableStandsIn(g, s.args, t.args) = CallableStandsIn(h, s.args, t.args)
  <2>1. CASE Len(s.args) # Len(t.args)
    BY <2>1 DEF SameElements, NarrowerElements, CallableStandsIn
  <2>2. CASE Len(s.args) = Len(t.args)
    <3> DEFINE u == s.args
               v == t.args
    <3>1. \A i \in DOMAIN u : g[<<u[i], v[i]>>] = h[<<u[i], v[i]>>] /\ g[<<v[i], u[i]>>] = h[<<v[i], u[i]>>]
      BY <1>4, <1>5, <2>2
    <3> HIDE DEF u, v
    <3>2. SameElements(g, u, v) = SameElements(h, u, v)
      BY <3>1 DEF SameElements
    <3>3. NarrowerElements(g, u, v) = NarrowerElements(h, u, v)
      BY <3>1 DEF NarrowerElements
    <3>4. CallableStandsIn(g, u, v) = CallableStandsIn(h, u, v)
      BY <3>1 DEF CallableStandsIn
    <3> QED
      BY <3>2, <3>3, <3>4 DEF u, v
  <2> QED
    BY <2>1, <2>2
<1>61. CASE "Unknown" \in {s.kind, t.kind} \/ s = t \/ t.kind = "Object"
  BY <1>61 DEF subtype_rule
<1> DEFINE settled == "Unknown" \in {s.kind, t.kind} \/ s = t \/ t.kind = "Object"
<1>62. CASE ~settled /\ s.kind = "Union"
  BY <1>2, <1>62 DEF subtype_rule
<1>63. CASE ~settled /\ s.kind # "Union" /\ t.kind = "Union"
  BY <1>3, <1>63 DEF subtype_rule
<1>7. CASE ~settled /\ s.kind # "Union" /\ t.kind # "Union" /\ s.kind # "Class"
  <2>1. /\ s.kind = "Callable" => numeric_rank(s.kind) = 0
        /\ is_invariant_container(s.kind) => numeric_rank(s.kind) = 0 /\ s.kind \notin {"Callable", "Tuple"}
        /\ s.kind = "Tuple" => numeric_rank(s.kind) = 0
    BY RankIs DEF is_invariant_container
  <2>2. CASE s.kind = "Callable"
    BY <1>6, <1>7, <2>1, <2>2 DEF subtype_rule
  <2>3. CASE numeric_rank(s.kind) # 0
    BY <1>7, <2>1, <2>3 DEF subtype_rule
  <2>4. CASE is_invariant_container(s.kind)
    <3>1. CASE s.kind = t.kind
      BY <1>6, <1>7, <2>1, <2>4, <3>1 DEF subtype_rule
    <3>2. CASE s.kind # t.kind
      BY <1>7, <2>1, <2>4, <3>2 DEF subtype_rule
    <3> QED
      BY <3>1, <3>2
  <2>5. CASE s.kind = "Tuple"
    <3>0. ~is_invariant_container(s.kind)
      BY <2>5 DEF is_invariant_container
    <3>1. CASE s.kind = t.kind
      BY <1>6, <1>7, <2>1, <2>5, <3>0, <3>1 DEF subtype_rule
    <3>2. CASE s.kind # t.kind
      BY <1>7, <2>1, <2>5, <3>0, <3>2 DEF subtype_rule
    <3> QED
      BY <3>1, <3>2
  <2>6. CASE s.kind \notin {"Callable", "Tuple"} /\ numeric_rank(s.kind) = 0
             /\ ~is_invariant_container(s.kind)
    BY <1>7, <2>6 DEF subtype_rule
  <2> QED
    BY <2>2, <2>3, <2>4, <2>5, <2>6
<1>8. CASE ~settled /\ s.kind # "Union" /\ t.kind # "Union" /\ s.kind = "Class"
  <2> DEFINE chain == class_ancestor_chain(classes, s.name)
  <2>1. \A step \in ToSet(Tail(chain)) : step.kind # "Class" => g[<<step, t>>] = h[<<step, t>>]
    BY <1>1, <1>8, Parts DEF Agree, Grounded
  <2>2. class_reaches(g, classes, s.name, t) <=> class_reaches(h, classes, s.name, t)
    BY <2>1 DEF class_reaches
  <2> QED
    <3>1. numeric_rank(s.kind) = 0 /\ ~is_invariant_container(s.kind)
      BY <1>8, RankIs DEF is_invariant_container
    <3> QED
      BY <1>8, <2>2, <3>1 DEF subtype_rule
<1> QED
  BY <1>61, <1>62, <1>63, <1>7, <1>8

\* g answers by the rule for what weighs less than n.
AnswersUpTo(g, classes, n) ==
  \A u, v : Lighter(u, v, n) => g[<<u, v>>] = subtype_rule(g, u, v, classes)

\* Answers about the lighter pairs give those about the next.
LEMMA AnswersGrow ==
  ASSUME NEW classes, Grounded(classes), NEW n \in Nat, NEW g, AnswersUpTo(g, classes, n)
  PROVE  AnswersUpTo([p \in AllTypes \X AllTypes |-> subtype_rule(g, p[1], p[2], classes)], classes, n + 1)
<1> DEFINE h == [p \in AllTypes \X AllTypes |-> subtype_rule(g, p[1], p[2], classes)]
<1>1. \A u \in AllTypes, v \in AllTypes : h[<<u, v>>] = subtype_rule(g, u, v, classes)
  <2>1. SUFFICES ASSUME NEW u \in AllTypes, NEW v \in AllTypes
                 PROVE  h[<<u, v>>] = subtype_rule(g, u, v, classes)
    OBVIOUS
  <2> DEFINE p == <<u, v>>
  <2>2. p \in AllTypes \X AllTypes /\ p[1] = u /\ p[2] = v
    OBVIOUS
  <2> HIDE DEF p
  <2>3. h[p] = subtype_rule(g, p[1], p[2], classes)
    BY <2>2
  <2> QED
    BY <2>2, <2>3 DEF p
<1> HIDE DEF h
<1>2. Agree(g, h, n)
  BY <1>1 DEF Agree, AnswersUpTo, Lighter, Weighs
<1>3. ASSUME NEW u, NEW v, Lighter(u, v, n + 1) PROVE h[<<u, v>>] = subtype_rule(h, u, v, classes)
  <2>1. PICK a, b : Weighs(u, a) /\ Weighs(v, b) /\ a + b < n + 1
    BY <1>3 DEF Lighter
  <2>2. a \in Nat /\ b \in Nat /\ u \in AllTypes /\ v \in AllTypes
    BY <2>1 DEF Weighs
  <2>3. \A x, y : Lighter(x, y, a + b) => Lighter(x, y, n)
    <3>1. SUFFICES ASSUME NEW x, NEW y, NEW c, NEW d, Weighs(x, c), Weighs(y, d), c + d < a + b
                   PROVE  Lighter(x, y, n)
      BY DEF Lighter
    <3>2. c + d < n
      BY <2>1, <2>2, <3>1 DEF Weighs
    <3> QED
      BY <3>1, <3>2 DEF Lighter
  <2>4. Agree(g, h, a + b)
    BY <1>2, <2>3 DEF Agree
  <2>5. subtype_rule(g, u, v, classes) = subtype_rule(h, u, v, classes)
    BY <2>1, <2>4, RuleIsLocal
  <2> QED
    BY <1>1, <2>2, <2>5
<1> QED
  BY <1>3 DEF AnswersUpTo, h

\* is_subtype is its rule, with itself for what the types are made of.
LEMMA SubtypesAre ==
  ASSUME NEW classes, Grounded(classes)
  PROVE  \A s \in AllTypes, t \in AllTypes :
           /\ Subtypes(classes)[<<s, t>>] = subtype_rule(Subtypes(classes), s, t, classes)
           /\ is_subtype(s, t, classes) <=> Subtypes(classes)[<<s, t>>]
<1> DEFINE T == {n \in Nat : \E g : AnswersUpTo(g, classes, n)}
<1>1. 0 \in T
  <2>1. \A u, v : ~Lighter(u, v, 0)
    BY DEF Lighter, Weighs
  <2>2. AnswersUpTo(<<>>, classes, 0)
    BY <2>1 DEF AnswersUpTo
  <2> QED
    BY <2>2
<1>2. ASSUME NEW n \in Nat, n \in T PROVE n + 1 \in T
  <2>1. PICK g : AnswersUpTo(g, classes, n)
    BY <1>2
  <2>2. \E h : AnswersUpTo(h, classes, n + 1)
    BY <2>1, AnswersGrow
  <2> QED
    BY <2>2
<1> HIDE DEF T
<1>3. \A n \in Nat : n \in T
  BY <1>1, <1>2, Upward
<1> DEFINE most == Heaviest + Heaviest + 1
<1>4. most \in Nat /\ \A u \in AllTypes, v \in AllTypes : Lighter(u, v, most)
  <2>1. Heaviest \in Nat /\ Heaviest + Heaviest < most
    BY DEF Heaviest, MaxNesting
  <2>2. \A u \in AllTypes, v \in AllTypes : Lighter(u, v, most)
    BY <2>1, Weights DEF Lighter
  <2> QED
    BY <2>1, <2>2
<1> HIDE DEF most
<1>5. PICK g : AnswersUpTo(g, classes, most)
  BY <1>3, <1>4 DEF T
<1> DEFINE h == [p \in AllTypes \X AllTypes |-> subtype_rule(g, p[1], p[2], classes)]
<1>6. AnswersUpTo(h, classes, most + 1)
  BY <1>4, <1>5, AnswersGrow
<1>7. \A u \in AllTypes, v \in AllTypes : h[<<u, v>>] = subtype_rule(h, u, v, classes)
  <2>1. SUFFICES ASSUME NEW u \in AllTypes, NEW v \in AllTypes PROVE Lighter(u, v, most + 1)
    BY <1>6 DEF AnswersUpTo
  <2>2. PICK a, b : Weighs(u, a) /\ Weighs(v, b) /\ a + b < most
    BY <1>4 DEF Lighter
  <2>3. a + b < most + 1
    BY <1>4, <2>2 DEF Weighs
  <2> QED
    BY <2>2, <2>3 DEF Lighter
<1> DEFINE F(f) == f = [p \in AllTypes \X AllTypes |-> subtype_rule(f, p[1], p[2], classes)]
<1>8. F(h)
  <2>1. h = [p \in AllTypes \X AllTypes |-> h[p]]
    OBVIOUS
  <2> HIDE DEF h
  <2>2. \A p \in AllTypes \X AllTypes : h[p] = subtype_rule(h, p[1], p[2], classes)
    <3>1. SUFFICES ASSUME NEW u \in AllTypes, NEW v \in AllTypes
                   PROVE  h[<<u, v>>] = subtype_rule(h, <<u, v>>[1], <<u, v>>[2], classes)
      OBVIOUS
    <3>2. <<u, v>>[1] = u /\ <<u, v>>[2] = v
      OBVIOUS
    <3> QED
      BY <1>7, <3>2
  <2> QED
    BY <2>1, <2>2
<1> DEFINE under == CHOOSE f : F(f)
<1>9. F(under)
  <2> HIDE DEF h
  <2> QED
    BY <1>8
<1>10. Subtypes(classes) = under
  BY DEF Subtypes
<1> HIDE DEF under
<1>11. SUFFICES ASSUME NEW s \in AllTypes, NEW t \in AllTypes
                PROVE  under[<<s, t>>] = subtype_rule(under, s, t, classes)
  BY <1>10 DEF is_subtype
<1> DEFINE p == <<s, t>>
<1>12. p \in AllTypes \X AllTypes /\ p[1] = s /\ p[2] = t
  OBVIOUS
<1> HIDE DEF p
<1>13. under[p] = subtype_rule(under, p[1], p[2], classes)
  BY <1>9, <1>12
<1> QED
  BY <1>12, <1>13 DEF p

-----------------------------------------------------------------------------
(* The lines of a body: what is inside a statement is an interval.         *)

\* The statements inside a statement, itself included; those from a statement to the end
\* of its suite, with what is inside them.
Inside(n) == {k \in Nodes : n \in Path(k)}
Stretch(n) == {k \in Nodes : \E m \in {n} \union Later(tree, n) : m \in Path(k)}
\* Where they end.
Behind(n) == CHOOSE e \in Nat : Inside(n) = n..(e - 1)
End(n) == CHOOSE e \in Nat : Stretch(n) = n..(e - 1)

\* A set of numbers without a gap is an interval.
Gapless(S, n, m) == /\ S \in SUBSET (1..m) /\ n \in S /\ \A k \in S : n <= k
                    /\ \A k \in S, j \in 1..m : n <= j /\ j <= k => j \in S
\* A set of numbers without a gap is an interval.
LEMMA Interval ==
  ASSUME NEW m \in Nat, NEW S, NEW n, Gapless(S, n, m)
  PROVE  \E e \in Nat : e \in (n + 1)..(m + 1) /\ S = n..(e - 1)
<1> DEFINE Out == {k \in (n + 1)..(m + 1) : k \notin S}
<1>0. /\ S \in SUBSET (1..m) /\ n \in S /\ \A k \in S : n <= k
      /\ \A k \in S, j \in 1..m : n <= j /\ j <= k => j \in S
  BY DEF Gapless
<1>1. n \in Nat /\ n \in 1..m
  BY <1>0
<1>2. m + 1 \in Out
  BY <1>0, <1>1
<1>3. Out \in SUBSET Nat /\ Out # {}
  BY <1>1, <1>2
<1>4. PICK e \in Out : \A y \in Out : e <= y
  BY <1>3, LeastNatural
<1>5. e \in Nat /\ e \in (n + 1)..(m + 1) /\ e \notin S
  BY <1>1, <1>4
<1>6. ASSUME NEW k \in n..(e - 1) PROVE k \in S
  <2>1. k \in Nat /\ k < e /\ k <= m + 1
    BY <1>1, <1>5
  <2>2. k \notin Out
    BY <1>4, <1>5, <2>1
  <2>3. CASE k = n
    BY <1>0, <2>3
  <2>4. CASE k # n
    <3>1. k \in (n + 1)..(m + 1)
      BY <1>1, <2>1, <2>4
    <3> QED
      BY <2>2, <3>1
  <2> QED
    BY <2>3, <2>4
<1>7. ASSUME NEW k \in S PROVE k \in n..(e - 1)
  <2>1. k \in 1..m /\ n <= k
    BY <1>0
  <2>2. ~(e <= k)
    <3>1. SUFFICES ASSUME e <= k PROVE FALSE
      OBVIOUS
    <3>2. e \in 1..m /\ n <= e
      BY <1>1, <1>5, <2>1, <3>1
    <3>3. e \in S
      BY <1>0, <3>1, <3>2
    <3> QED
      BY <1>5, <3>3
  <2> QED
    BY <1>1, <1>5, <2>1, <2>2
<1>8. S = n..(e - 1)
  BY <1>6, <1>7
<1> QED
  BY <1>5, <1>8

\* What a number of nodes amounts to.
LEMMA SameEnd ==
  ASSUME NEW n \in Nat, NEW e \in Nat, NEW f \in Nat, n < e, n < f, n..(e - 1) = n..(f - 1)
  PROVE  e = f
<1>1. e - 1 \in n..(f - 1) /\ f - 1 \in n..(e - 1)
  <2>1. e - 1 \in n..(e - 1) /\ f - 1 \in n..(f - 1)
    OBVIOUS
  <2> QED
    BY <2>1
<1> QED
  BY <1>1

\* A statement that stands around k, and the ones before it.
LEMMA AroundIsBefore ==
  ASSUME TreeOK, SourceOrder, NEW j \in Nodes, NEW n \in Nodes, NEW c \in Path(j), c < n, n <= j
  PROVE  c \in tree[n].within
<1>1. c # j /\ c \in tree[j].within /\ j \in Nat /\ n \in Nat /\ c \in Nat
  BY NodesAre, PathsAreNodes DEF Path
<1>2. CASE n = j
  BY <1>1, <1>2
<1>3. CASE n < j
  BY <1>1, <1>3 DEF SourceOrder
<1> QED
  BY <1>1, <1>2, <1>3

\* The statements inside a statement are the ones up to where it ends.
LEMMA InsideIs ==
  ASSUME TreeOK, SourceOrder, NEW n \in Nodes
  PROVE  /\ Behind(n) \in (n + 1)..(Len(tree) + 1)
         /\ Inside(n) = n..(Behind(n) - 1)
<1>1. Len(tree) \in Nat /\ Nodes = 1..Len(tree) /\ n \in Nat
  BY NodesAre
<1>2. n \in Inside(n) /\ Inside(n) \in SUBSET (1..Len(tree))
  BY <1>1, PathsAreNodes DEF Inside
<1>3. \A k \in Inside(n) : n <= k
  BY PathsAreNodes DEF Inside
<1>4. ASSUME NEW k \in Inside(n), NEW j \in 1..Len(tree), n <= j, j <= k PROVE j \in Inside(n)
  <2>1. k \in Nodes /\ n \in Path(k) /\ j \in Nodes /\ k \in Nat /\ j \in Nat
    BY <1>1, <1>4 DEF Inside
  <2>2. CASE n = j
    BY <2>1, <2>2, PathsAreNodes DEF Inside
  <2>3. CASE j = k
    BY <2>1, <2>3 DEF Inside
  <2>4. CASE n < j /\ j < k
    <3>1. n \in tree[j].within
      BY <2>1, <2>4, AroundIsBefore
    <3> QED
      BY <2>1, <3>1 DEF Inside, Path
  <2> QED
    BY <1>1, <1>4, <2>1, <2>2, <2>3, <2>4
<1>5. \E e \in Nat : e \in (n + 1)..(Len(tree) + 1) /\ Inside(n) = n..(e - 1)
  <2> DEFINE S == Inside(n)
             N == Len(tree)
  <2>1. N \in Nat /\ Gapless(S, n, N)
    BY <1>1, <1>2, <1>3, <1>4 DEF Gapless
  <2> HIDE DEF S, N
  <2>2. \E e \in Nat : e \in (n + 1)..(N + 1) /\ S = n..(e - 1)
    BY <2>1, Interval
  <2> QED
    BY <2>2 DEF S, N
<1>6. PICK e \in Nat : e \in (n + 1)..(Len(tree) + 1) /\ Inside(n) = n..(e - 1)
  BY <1>5
<1>7. Behind(n) \in Nat /\ Inside(n) = n..(Behind(n) - 1)
  BY <1>6 DEF Behind
<1>8. n < Behind(n)
  BY <1>1, <1>2, <1>7
<1>9. Behind(n) = e
  BY <1>1, <1>6, <1>7, <1>8, SameEnd
<1> QED
  BY <1>6, <1>7, <1>9

\* A suite is not interrupted.
LEMMA StretchIs ==
  ASSUME TreeOK, SourceOrder, NEW n \in Nodes
  PROVE  /\ End(n) \in (n + 1)..(Len(tree) + 1)
         /\ Stretch(n) = n..(End(n) - 1)
<1> DEFINE u == tree[n].up
<1>1. Len(tree) \in Nat /\ Nodes = 1..Len(tree) /\ n \in Nat
  BY NodesAre
<1>2. n \in Stretch(n) /\ Stretch(n) \in SUBSET (1..Len(tree))
  BY <1>1, PathsAreNodes DEF Stretch
<1>20. \A m \in {n} \union Later(tree, n) : /\ m \in Nodes /\ m \in Nat /\ n <= m
                                          /\ tree[m].up = u /\ tree[m].arm = tree[n].arm
                                          /\ tree[m].within = tree[n].within
  <2>1. SUFFICES ASSUME NEW m \in {n} \union Later(tree, n)
                 PROVE  /\ m \in Nodes /\ m \in Nat /\ n <= m
                        /\ tree[m].up = u /\ tree[m].arm = tree[n].arm
                        /\ tree[m].within = tree[n].within
    OBVIOUS
  <2>2. m \in Suite(tree, u, tree[n].arm) /\ (m = n \/ m > n)
    BY DEF Later, Suite, Nodes
  <2> QED
    BY <1>1, <2>2, Neighbours
<1>3. \A k \in Stretch(n) : n <= k
  <2>1. SUFFICES ASSUME NEW k \in Stretch(n) PROVE n <= k
    OBVIOUS
  <2>2. PICK m \in {n} \union Later(tree, n) : m \in Path(k)
    BY DEF Stretch
  <2>3. k \in Nodes /\ k \in Nat /\ m <= k
    BY <1>1, <2>2, PathsAreNodes DEF Stretch
  <2> QED
    BY <1>1, <1>20, <2>3
<1>4. ASSUME NEW k \in Stretch(n), NEW j \in 1..Len(tree), n <= j, j <= k PROVE j \in Stretch(n)
  <2>0. PICK m \in {n} \union Later(tree, n) : m \in Path(k)
    BY DEF Stretch
  <2>1. k \in Nodes /\ j \in Nodes /\ k \in Nat /\ j \in Nat
    BY <1>1 DEF Stretch
  <2>2. m \in Nodes /\ m \in Nat /\ n <= m /\ tree[m].up = u /\ tree[m].arm = tree[n].arm
        /\ tree[m].within = tree[n].within /\ m <= k
    BY <1>20, <2>0, <2>1, PathsAreNodes
  \* the statement of n's parent that j is inside of
  <2>3. \E c \in Path(j) : tree[c].up = u
    <3>1. CASE u = 0
      <4> DEFINE Tops == {c \in Nodes : c \in Path(j)}
      <4>1. j \in Tops /\ Tops \in SUBSET Nat
        BY <1>1, <2>1, PathsAreNodes
      <4>2. PICK c \in Tops : \A y \in Tops : c <= y
        BY <4>1, LeastNatural
      <4>3. CASE tree[c].up = 0
        BY <3>1, <4>2, <4>3
      <4>4. CASE tree[c].up # 0
        <5>1. tree[c].up \in Nodes /\ tree[c].up < c /\ tree[c].up \in Path(c)
          BY <4>2, <4>4, Below DEF Path
        <5>2. tree[c].up \in Path(j)
          BY <2>1, <4>2, <5>1, PathsAreNodes
        <5>3. c <= tree[c].up /\ c \in Nat /\ tree[c].up \in Nat
          BY <1>1, <4>2, <5>1, <5>2
        <5> QED
          BY <5>1, <5>3
      <4> QED
        BY <4>3, <4>4
    <3>2. CASE u # 0
      <4>1. u \in Nodes /\ u < n /\ u \in tree[n].within
        BY <3>2, Below
      <4>2. u \in tree[j].within
        <5>1. CASE j = n
          BY <4>1, <5>1
        <5>2. CASE j # n
          <6>1. n < j
            BY <1>1, <1>4, <2>1, <5>2
          <6>2. u \in Path(k)
            <7>1. u \in tree[m].within
              BY <2>2, <4>1
            <7> QED
              BY <2>0, <2>1, <7>1, PathsAreNodes DEF Path
          <6>3. u < j /\ u \in Nat
            BY <1>1, <2>1, <4>1, <6>1
          <6> QED
            BY <1>4, <2>1, <6>2, <6>3, AroundIsBefore
        <5> QED
          BY <5>1, <5>2
      <4> QED
        BY <2>1, <4>2, Nesting DEF Nested
    <3> QED
      BY <3>1, <3>2
  <2>4. PICK c \in Path(j) : tree[c].up = u
    BY <2>3
  <2>5. c \in Nodes /\ c \in Nat /\ c <= j /\ Placed(c) /\ Placed(n) /\ Placed(m)
    BY <1>1, <2>1, <2>2, <2>4, PathsAreNodes DEF TreeOK
  <2>6. tree[c].within = tree[n].within
    BY <2>4, <2>5, Zenon DEF Placed
  <2>7. c >= n
    <3>1. SUFFICES ASSUME c < n PROVE FALSE
      BY <1>1, <2>5
    <3>2. c \in tree[n].within
      BY <1>4, <2>1, <2>4, <3>1, AroundIsBefore
    <3>3. c \in tree[c].within
      BY <2>6, <3>2
    <3>4. tree[c].within \subseteq 1..c - 1
      BY <2>5, Nesting DEF Nested
    <3> QED
      BY <2>5, <3>3, <3>4
  <2>8. tree[c].arm = tree[n].arm
    <3>1. SUFFICES ASSUME tree[c].arm # tree[n].arm PROVE FALSE
      OBVIOUS
    <3>2. tree[c].arm \in Arms /\ tree[n].arm \in Arms
      BY <2>5, NodesAre DEF Statements
    <3>3. CASE tree[n].arm = "body" /\ tree[c].arm = "orelse"
      <4>1. m < c
        BY <2>2, <2>4, <2>5, <3>3 DEF SourceOrder
      <4>2. c <= k
        BY <1>4, <2>1, <2>5
      <4>3. m \in tree[c].within
        BY <2>0, <2>1, <2>5, <4>1, <4>2, AroundIsBefore
      <4>4. m \in tree[m].within
        BY <2>2, <2>6, <4>3
      <4>5. tree[m].within \subseteq 1..m - 1
        BY <2>2, Nesting DEF Nested
      <4> QED
        BY <2>2, <4>4, <4>5
    <3>4. CASE tree[n].arm = "orelse" /\ tree[c].arm = "body"
      <4>1. c < n
        BY <2>4, <2>5, <3>4 DEF SourceOrder
      <4> QED
        BY <1>1, <2>5, <2>7, <4>1
    <3> QED
      BY <3>1, <3>2, <3>3, <3>4 DEF Arms
  <2>9. c \in {n} \union Later(tree, n)
    BY <1>1, <2>4, <2>5, <2>7, <2>8 DEF Later, Suite, Nodes
  <2> QED
    BY <2>1, <2>4, <2>9 DEF Stretch
<1>5. \E e \in Nat : e \in (n + 1)..(Len(tree) + 1) /\ Stretch(n) = n..(e - 1)
  <2> DEFINE S == Stretch(n)
             N == Len(tree)
  <2>1. N \in Nat /\ Gapless(S, n, N)
    BY <1>1, <1>2, <1>3, <1>4 DEF Gapless
  <2> HIDE DEF S, N
  <2>2. \E e \in Nat : e \in (n + 1)..(N + 1) /\ S = n..(e - 1)
    BY <2>1, Interval
  <2> QED
    BY <2>2 DEF S, N
<1>6. PICK e \in Nat : e \in (n + 1)..(Len(tree) + 1) /\ Stretch(n) = n..(e - 1)
  BY <1>5
<1>7. End(n) \in Nat /\ Stretch(n) = n..(End(n) - 1)
  BY <1>6 DEF End
<1>8. n < End(n)
  BY <1>1, <1>2, <1>7
<1>9. End(n) = e
  BY <1>1, <1>6, <1>7, <1>8, SameEnd
<1> QED
  BY <1>6, <1>7, <1>9

\* Later(n), its first.
LEMMA FirstLater ==
  ASSUME TreeOK, NEW n \in Nodes, Later(tree, n) # {}
  PROVE  LET l == FirstOf(Later(tree, n))
         IN /\ l \in Later(tree, n) /\ l \in Nodes /\ l > n /\ \A k \in Later(tree, n) : l <= k
            /\ tree[l].up = tree[n].up /\ tree[l].arm = tree[n].arm
            /\ tree[l].within = tree[n].within /\ tree[l].loop = tree[n].loop
            /\ Later(tree, n) = {l} \union Later(tree, l)
            /\ n \notin Path(l)
<1> DEFINE l == FirstOf(Later(tree, n))
<1>1. Later(tree, n) \in SUBSET Nat /\ n \in Nat
  BY NodesAre DEF Later, Suite, Nodes
<1>2. l \in Later(tree, n) /\ \A k \in Later(tree, n) : l <= k
  BY <1>1, LeastOf
<1> HIDE DEF l
<1>3. l \in Suite(tree, tree[n].up, tree[n].arm) /\ l > n /\ l \in Nat
  BY <1>1, <1>2 DEF Later
<1>4. /\ l \in Nodes /\ tree[l].up = tree[n].up /\ tree[l].arm = tree[n].arm
      /\ tree[l].within = tree[n].within /\ tree[l].loop = tree[n].loop
  BY <1>3, Neighbours
<1>5. Later(tree, n) = {l} \union Later(tree, l)
  <2>1. ASSUME NEW k \in Later(tree, n) PROVE k \in {l} \union Later(tree, l)
    <3>1. l <= k /\ k \in Nat /\ k \in Suite(tree, tree[n].up, tree[n].arm)
      BY <1>1, <1>2 DEF Later
    <3> QED
      BY <1>3, <1>4, <3>1 DEF Later
  <2>2. ASSUME NEW k \in Later(tree, l) PROVE k \in Later(tree, n)
    <3>1. k > l /\ k \in Suite(tree, tree[n].up, tree[n].arm) /\ k \in Nat
      BY <1>4, NodesAre DEF Later, Suite, Nodes
    <3> QED
      BY <1>1, <1>3, <3>1 DEF Later
  <2> QED
    BY <1>2, <2>1, <2>2
<1>6. n \notin Path(l)
  <2>1. tree[n].within \subseteq 1..n - 1
    BY Nesting DEF Nested
  <2> QED
    BY <1>1, <1>3, <1>4, <2>1 DEF Path
<1> QED
  BY <1>2, <1>3, <1>4, <1>5, <1>6 DEF l

\* The last statement of a suite ends where the suite does.
LEMMA EndOfLast ==
  ASSUME TreeOK, SourceOrder, NEW n \in Nodes, Later(tree, n) = {}
  PROVE  End(n) = Behind(n)
BY DEF End, Behind, Stretch, Inside

\* A statement ends where the next one of its suite starts.
LEMMA EndOfEarlier ==
  ASSUME TreeOK, SourceOrder, NEW n \in Nodes, Later(tree, n) # {}
  PROVE  Behind(n) = FirstOf(Later(tree, n)) /\ End(n) = End(FirstOf(Later(tree, n)))
<1> DEFINE l == FirstOf(Later(tree, n))
<1>1. /\ l \in Nodes /\ l > n /\ Later(tree, n) = {l} \union Later(tree, l) /\ n \notin Path(l)
  BY FirstLater
<1> HIDE DEF l
<1>2. Len(tree) \in Nat /\ Nodes = 1..Len(tree) /\ n \in Nat /\ l \in Nat
  BY <1>1, NodesAre
<1>3. Stretch(n) = Inside(n) \union Stretch(l)
  BY <1>1 DEF Stretch, Inside
<1>4. /\ Behind(n) \in Nat /\ n < Behind(n) /\ Inside(n) = n..(Behind(n) - 1)
      /\ End(n) \in Nat /\ n < End(n) /\ Stretch(n) = n..(End(n) - 1)
      /\ End(l) \in Nat /\ l < End(l) /\ Stretch(l) = l..(End(l) - 1)
  BY <1>1, <1>2, InsideIs, StretchIs
<1>5. l \notin Inside(n)
  BY <1>1 DEF Inside
<1>6. Behind(n) <= l
  BY <1>1, <1>2, <1>4, <1>5
<1>7. ~(Behind(n) < l)
  <2>1. SUFFICES ASSUME Behind(n) < l PROVE FALSE
    OBVIOUS
  <2>2. l \in Stretch(l)
    BY <1>2, <1>4
  <2>3. l \in Stretch(n)
    BY <1>3, <2>2
  <2>4. Behind(n) \in Stretch(n)
    BY <1>2, <1>4, <2>1, <2>3
  <2>5. Behind(n) \notin Inside(n) /\ Behind(n) \notin Stretch(l)
    BY <1>2, <1>4, <2>1
  <2> QED
    BY <1>3, <2>4, <2>5
<1>8. Behind(n) = l
  BY <1>2, <1>4, <1>6, <1>7
<1>9. n..(End(n) - 1) = n..(End(l) - 1)
  <2>1. n..(End(n) - 1) = (n..(l - 1)) \union (l..(End(l) - 1))
    BY <1>3, <1>4, <1>8
  <2>2. (n..(l - 1)) \union (l..(End(l) - 1)) = n..(End(l) - 1)
    BY <1>1, <1>2, <1>4
  <2> QED
    BY <2>1, <2>2
<1>10. End(n) = End(l)
  <2>1. n < End(l)
    BY <1>1, <1>2, <1>4
  <2> QED
    BY <1>2, <1>4, <1>9, <2>1, SameEnd
<1> QED
  BY <1>8, <1>10 DEF l

\* The statements inside n: n, and its arms.
LEMMA InsideArms ==
  ASSUME TreeOK, NEW n \in Nodes, NEW k \in Inside(n), k # n
  PROVE  \E c \in Path(k) : c \in Nodes /\ tree[c].up = n /\ n < c /\ c <= k /\ k \in Nodes
                            /\ tree[n].kind \in Compound /\ tree[c].arm \in Arms
<1>1. k \in Nodes /\ n \in tree[k].within /\ n \in Nat
  BY NodesAre DEF Inside, Path
<1>2. PICK c \in Path(k) : tree[c].up = n
  BY <1>1, Nesting DEF Nested
<1>3. c \in Nodes /\ c <= k
  BY <1>1, <1>2, PathsAreNodes
<1>4. tree[c].up # 0
  BY <1>1, <1>2, NodesAre
<1>5. n < c /\ tree[n].kind \in Compound
  BY <1>2, <1>3, <1>4, Below
<1>6. tree[c].arm \in Arms
  BY <1>3, NodesAre DEF Statements
<1> QED
  BY <1>1, <1>2, <1>3, <1>5, <1>6

\* A statement without suites ends on its line.
LEMMA EndOfPlain ==
  ASSUME TreeOK, SourceOrder, NEW n \in Nodes, tree[n].kind \notin Compound
  PROVE  Behind(n) = n + 1
<1>1. Len(tree) \in Nat /\ Nodes = 1..Len(tree) /\ n \in Nat
  BY NodesAre
<1>2. Behind(n) \in Nat /\ n < Behind(n) /\ Inside(n) = n..(Behind(n) - 1)
  BY <1>1, InsideIs
<1>3. \A k \in Inside(n) : k = n
  BY InsideArms
<1>4. Behind(n) - 1 \in Inside(n)
  BY <1>1, <1>2
<1> QED
  BY <1>1, <1>2, <1>3, <1>4

\* The arms of n: its body starts behind it, and where the body ends the else starts.
LEMMA FirstOfArm ==
  ASSUME TreeOK, NEW u \in Nodes, NEW a, Suite(tree, u, a) # {}
  PROVE  LET c == FirstOf(Suite(tree, u, a))
         IN /\ c \in Nodes /\ tree[c].up = u /\ tree[c].arm = a /\ u < c
            /\ tree[c].within = Path(u)
            /\ {c} \union Later(tree, c) = Suite(tree, u, a)
            /\ Stretch(c) \subseteq Inside(u) \ {u}
            /\ tree[u].kind \in Compound
<1> DEFINE c == FirstOf(Suite(tree, u, a))
<1>1. Suite(tree, u, a) \in SUBSET Nat /\ u \in Nat
  BY NodesAre DEF Suite, Nodes
<1>2. c \in Suite(tree, u, a) /\ \A k \in Suite(tree, u, a) : c <= k
  BY <1>1, LeastOf
<1> HIDE DEF c
<1>3. c \in Nodes /\ tree[c].up = u /\ tree[c].arm = a /\ c \in Nat
  BY <1>1, <1>2 DEF Suite, Nodes
<1>4. u < c /\ tree[c].within = Path(u) /\ tree[u].kind \in Compound
  <2>1. tree[c].up # 0
    BY <1>3, NodesAre
  <2> QED
    BY <1>3, <2>1, Below DEF Path
<1>5. \A k \in Suite(tree, u, a) : k = c \/ k > c
  BY <1>1, <1>2, <1>3
<1>6. {c} \union Later(tree, c) = Suite(tree, u, a)
  BY <1>2, <1>3, <1>5 DEF Later
<1>7. Stretch(c) \subseteq Inside(u) \ {u}
  <2>1. SUFFICES ASSUME NEW k \in Stretch(c) PROVE k \in Inside(u) /\ k # u
    OBVIOUS
  <2>2. PICK m \in {c} \union Later(tree, c) : m \in Path(k)
    BY DEF Stretch
  <2>3. k \in Nodes /\ m \in Suite(tree, u, a)
    BY <1>6, <2>2 DEF Stretch
  <2>4. m \in Nodes /\ tree[m].up = u /\ m <= k /\ u \in Path(m) /\ u < m
    <3>1. m \in Nodes /\ tree[m].up = u /\ m <= k
      BY <2>2, <2>3, PathsAreNodes DEF Suite, Nodes
    <3>2. tree[m].up # 0
      BY <3>1, NodesAre
    <3> QED
      BY <3>1, <3>2, Below DEF Path
  <2>5. u \in Path(k)
    BY <2>2, <2>3, <2>4, PathsAreNodes
  <2>6. k # u
    BY <1>1, <2>3, <2>4, NodesAre
  <2> QED
    BY <2>3, <2>5, <2>6 DEF Inside
<1> QED
  BY <1>2, <1>3, <1>4, <1>6, <1>7 DEF c

\* A compound statement is its header, its body and its else, one after the other.
LEMMA EndOfCompound ==
  ASSUME TreeOK, SourceOrder, WholeProgram, NEW n \in Nodes, tree[n].kind \in Compound
  PROVE  LET b == Suite(tree, n, "body")
             o == Suite(tree, n, "orelse")
         IN /\ b # {} /\ FirstOf(b) = n + 1
            /\ o = {} => End(FirstOf(b)) = Behind(n)
            /\ o # {} => End(FirstOf(b)) = FirstOf(o) /\ End(FirstOf(o)) = Behind(n)
<1> DEFINE b == Suite(tree, n, "body")
           o == Suite(tree, n, "orelse")
           c == FirstOf(b)
           d == FirstOf(o)
<1>1. Len(tree) \in Nat /\ Nodes = 1..Len(tree) /\ n \in Nat
  BY NodesAre
<1>2. b # {}
  BY BodiesAreWritten
<1>3. /\ c \in Nodes /\ tree[c].up = n /\ tree[c].arm = "body" /\ n < c
      /\ {c} \union Later(tree, c) = b /\ Stretch(c) \subseteq Inside(n) \ {n}
  BY <1>2, FirstOfArm
<1>4. o # {} => /\ d \in Nodes /\ tree[d].up = n /\ tree[d].arm = "orelse" /\ n < d
                /\ {d} \union Later(tree, d) = o /\ Stretch(d) \subseteq Inside(n) \ {n}
  BY FirstOfArm
<1>5. Inside(n) = {n} \union Stretch(c) \union (IF o = {} THEN {} ELSE Stretch(d))
  <2>1. n \in Inside(n)
    BY PathsAreNodes DEF Inside
  <2>2. ASSUME NEW k \in Inside(n), k # n
        PROVE  k \in Stretch(c) \union (IF o = {} THEN {} ELSE Stretch(d))
    <3>1. PICK m \in Path(k) : m \in Nodes /\ tree[m].up = n /\ k \in Nodes /\ tree[m].arm \in Arms
      BY <2>2, InsideArms
    <3>2. m \in Suite(tree, n, tree[m].arm)
      BY <3>1 DEF Suite, Nodes
    <3>3. CASE tree[m].arm = "body"
      BY <1>3, <3>1, <3>2, <3>3 DEF Stretch
    <3>4. CASE tree[m].arm = "orelse"
      <4>1. m \in o
        BY <3>2, <3>4
      <4>2. k \in Stretch(d)
        BY <1>4, <3>1, <4>1 DEF Stretch
      <4> QED
        BY <4>1, <4>2
    <3> QED
      BY <3>1, <3>3, <3>4 DEF Arms
  <2> QED
    BY <1>3, <1>4, <2>1, <2>2
<1> HIDE DEF b, o, c, d
<1>6. /\ Behind(n) \in Nat /\ n < Behind(n) /\ Inside(n) = n..(Behind(n) - 1)
      /\ End(c) \in Nat /\ c < End(c) /\ Stretch(c) = c..(End(c) - 1) /\ c \in Nat
  BY <1>1, <1>3, InsideIs, StretchIs
<1>7. o # {} => End(d) \in Nat /\ d < End(d) /\ Stretch(d) = d..(End(d) - 1) /\ d \in Nat
  BY <1>1, <1>4, StretchIs
<1>8. o # {} => c < d
  BY <1>3, <1>4 DEF SourceOrder
<1>9. c = n + 1
  <2>1. SUFFICES ASSUME n + 1 < c PROVE FALSE
    BY <1>1, <1>3, <1>6
  <2>2. c \in Inside(n)
    BY <1>3, <1>6
  <2>3. n + 1 \in Inside(n)
    BY <1>1, <1>6, <2>1, <2>2
  <2>4. n + 1 \notin Stretch(c) /\ n + 1 # n
    BY <1>1, <1>6, <2>1
  <2>5. o # {} => n + 1 \notin Stretch(d)
    BY <1>1, <1>6, <1>7, <1>8, <2>1
  <2> QED
    BY <1>5, <2>3, <2>4, <2>5
<1>10. CASE o = {}
  <2>1. n..(Behind(n) - 1) = {n} \union (c..(End(c) - 1))
    BY <1>5, <1>6, <1>10
  <2>2. {n} \union (c..(End(c) - 1)) = n..(End(c) - 1)
    BY <1>1, <1>6, <1>9
  <2>3. End(c) = Behind(n)
    <3>1. n < End(c)
      BY <1>1, <1>6, <1>9
    <3> QED
      BY <1>1, <1>6, <2>1, <2>2, <3>1, SameEnd
  <2> QED
    BY <1>2, <1>9, <1>10, <2>3 DEF b, o, c
<1>11. CASE o # {}
  <2>1. d \notin Stretch(c)
    \* what is inside a statement of the body is not the first of the else
    <3>1. SUFFICES ASSUME d \in Stretch(c) PROVE FALSE
      OBVIOUS
    <3>2. PICK m \in b : m \in Path(d)
      BY <1>3, <3>1 DEF Stretch
    <3>3. m \in Nodes /\ tree[m].up = n /\ tree[m].arm = "body"
      BY <3>2 DEF b, Suite, Nodes
    <3>4. m # d
      BY <1>4, <1>11, <3>3
    <3>5. m \in Path(n)
      <4>1. tree[d].up # 0
        BY <1>1, <1>4, <1>11
      <4> QED
        BY <1>4, <1>11, <3>2, <3>4, <4>1, Below DEF Path
    <3>6. m <= n /\ n < m
      <4>1. tree[m].up # 0
        BY <1>1, <3>3
      <4> QED
        BY <3>3, <3>5, <4>1, Below, PathsAreNodes
    <3> QED
      BY <1>1, <3>3, <3>6
  <2>2. End(c) <= d
    BY <1>6, <1>7, <1>8, <1>11, <2>1
  <2>3. ~(End(c) < d)
    <3>1. SUFFICES ASSUME End(c) < d PROVE FALSE
      OBVIOUS
    <3>2. d \in Inside(n)
      BY <1>4, <1>7, <1>11
    <3>3. End(c) \in Inside(n)
      BY <1>1, <1>6, <1>7, <1>9, <1>11, <3>1, <3>2
    <3>4. End(c) \notin Stretch(c) /\ End(c) \notin Stretch(d) /\ End(c) # n
      BY <1>1, <1>6, <1>7, <1>9, <1>11, <3>1
    <3> QED
      BY <1>5, <3>3, <3>4
  <2>4. End(c) = d
    BY <1>6, <1>7, <1>11, <2>2, <2>3
  <2>5. n..(Behind(n) - 1) = {n} \union (c..(d - 1)) \union (d..(End(d) - 1))
    BY <1>5, <1>6, <1>7, <1>11, <2>4
  <2>6. {n} \union (c..(d - 1)) \union (d..(End(d) - 1)) = n..(End(d) - 1)
    BY <1>1, <1>6, <1>7, <1>8, <1>9, <1>11
  <2>7. End(d) = Behind(n)
    <3>1. n < End(d)
      BY <1>1, <1>6, <1>7, <1>8, <1>9, <1>11
    <3> QED
      BY <1>1, <1>6, <1>7, <1>11, <2>5, <2>6, <3>1, SameEnd
  <2> QED
    BY <1>2, <1>9, <1>11, <2>4, <2>7 DEF b, o, c, d
<1> QED
  BY <1>10, <1>11

\* The body is every line.
LEMMA EndOfBody ==
  ASSUME TreeOK, SourceOrder, WholeProgram
  PROVE  /\ Suite(tree, 0, "body") # {} /\ FirstOf(Suite(tree, 0, "body")) = 1 /\ 1 \in Nodes
         /\ End(1) = Len(tree) + 1
<1> DEFINE S == Suite(tree, 0, "body")
<1>1. Len(tree) \in Nat /\ Nodes = 1..Len(tree) /\ 1 \in Nodes
  BY NodesAre DEF WholeProgram, TreeOK
<1>2. 1 \in S
  <2>1. Placed(1)
    BY <1>1 DEF TreeOK
  <2>2. tree[1].up = 0 /\ tree[1].arm = "body"
    BY <2>1 DEF Placed
  <2> QED
    BY <1>1, <2>2 DEF Suite, Nodes
<1>3. S \in SUBSET Nat
  BY <1>1 DEF Suite, Nodes
<1>4. FirstOf(S) \in S /\ \A k \in S : FirstOf(S) <= k
  BY <1>2, <1>3, LeastOf
<1>5. FirstOf(S) = 1
  <2>1. FirstOf(S) \in 1..Len(tree) /\ FirstOf(S) <= 1
    BY <1>1, <1>2, <1>4 DEF Suite, Nodes
  <2> QED
    BY <1>1, <2>1
<1>6. Len(tree) \in Stretch(1)
  <2> DEFINE j == Len(tree)
             Tops == {c \in Nodes : c \in Path(j)}
  <2>0. j \in Nodes
    BY <1>1
  <2>1. j \in Tops /\ Tops \in SUBSET Nat
    BY <1>1, <2>0, PathsAreNodes
  <2>2. PICK c \in Tops : \A y \in Tops : c <= y
    BY <2>1, LeastNatural
  <2>3. tree[c].up = 0
    <3>1. SUFFICES ASSUME tree[c].up # 0 PROVE FALSE
      OBVIOUS
    <3>2. tree[c].up \in Nodes /\ tree[c].up < c /\ tree[c].up \in Path(c)
      BY <2>2, <3>1, Below DEF Path
    <3>3. tree[c].up \in Path(j)
      BY <2>0, <2>2, <3>2, PathsAreNodes
    <3>4. c <= tree[c].up /\ c \in Nat /\ tree[c].up \in Nat
      BY <1>1, <2>2, <3>2, <3>3
    <3> QED
      BY <3>2, <3>4
  <2>4. c \in Nodes /\ tree[c].arm = "body" /\ tree[1].up = 0 /\ tree[1].arm = "body"
    BY <1>2, <2>2, <2>3 DEF TreeOK, Placed, Suite, Nodes
  <2>5. c \in {1} \union Later(tree, 1)
    BY <1>1, <2>3, <2>4 DEF Later, Suite, Nodes
  <2> QED
    BY <2>0, <2>2, <2>5 DEF Stretch
<1>7. End(1) \in 2..(Len(tree) + 1) /\ Stretch(1) = 1..(End(1) - 1)
  BY <1>1, StretchIs
<1>8. End(1) = Len(tree) + 1
  BY <1>1, <1>6, <1>7
<1> QED
  BY <1>1, <1>2, <1>5, <1>8

-----------------------------------------------------------------------------
(* A walk over no classes.                                                 *)

\* The kinds of types.
LEMMA KindsAre ==
  ToSet(Kinds) = {"Unknown", "NoneType", "Bool", "Int", "Float", "Complex", "Str", "Bytes",
                  "ByteArray", "Ellipsis", "List", "Dict", "Set", "FrozenSet", "Tuple", "Range",
                  "Union", "Callable", "Class", "Object"}
<1> DEFINE a == <<"Unknown", "NoneType">>
           b == <<"Bool", "Int", "Float", "Complex">>
           c == <<"Str", "Bytes", "ByteArray", "Ellipsis", "List", "Dict", "Set", "FrozenSet",
                  "Tuple", "Range", "Union", "Callable", "Class", "Object">>
<1>1. Kinds = (a \o b) \o c
  BY DEF Kinds, NumericKinds
<1>2. ToSet(a) = {"Unknown", "NoneType"} /\ ToSet(b) = {"Bool", "Int", "Float", "Complex"}
      /\ ToSet(c) = {"Str", "Bytes", "ByteArray", "Ellipsis", "List", "Dict", "Set", "FrozenSet",
                  "Tuple", "Range", "Union", "Callable", "Class", "Object"}
  BY DEF ToSet
<1> DEFINE S == {"Unknown", "NoneType", "Bool", "Int", "Float", "Complex", "Str", "Bytes",
                  "ByteArray", "Ellipsis", "List", "Dict", "Set", "FrozenSet", "Tuple", "Range",
                  "Union", "Callable", "Class", "Object"}
<1>3. a \in Seq(S) /\ b \in Seq(S)
  OBVIOUS
<1>30. c \in Seq(S)
  OBVIOUS
<1> HIDE DEF S
<1> HIDE DEF a, b, c
<1>4. ASSUME NEW s \in Seq(S), NEW t \in Seq(S)
      PROVE  ToSet(s \o t) = ToSet(s) \union ToSet(t) /\ s \o t \in Seq(S)
  <2>1. DOMAIN (s \o t) = 1..(Len(s) + Len(t)) /\ DOMAIN s = 1..Len(s) /\ DOMAIN t = 1..Len(t)
        /\ Len(s) \in Nat /\ Len(t) \in Nat
        /\ \A i \in 1..(Len(s) + Len(t)) : (s \o t)[i] = IF i <= Len(s) THEN s[i] ELSE t[i - Len(s)]
    OBVIOUS
  <2>2. \A i \in 1..Len(s) : i \in 1..(Len(s) + Len(t)) /\ (s \o t)[i] = s[i]
    BY <2>1
  <2>3. \A i \in 1..Len(t) : i + Len(s) \in 1..(Len(s) + Len(t)) /\ (s \o t)[i + Len(s)] = t[i]
    BY <2>1
  <2>4. ASSUME NEW x \in ToSet(s \o t) PROVE x \in ToSet(s) \union ToSet(t)
    <3>1. PICK i \in 1..(Len(s) + Len(t)) : x = (s \o t)[i]
      BY <2>1 DEF ToSet
    <3>2. CASE i <= Len(s)
      BY <2>1, <3>1, <3>2 DEF ToSet
    <3>3. CASE i > Len(s)
      BY <2>1, <3>1, <3>3 DEF ToSet
    <3> QED
      BY <2>1, <3>2, <3>3
  <2>5. ToSet(s) \subseteq ToSet(s \o t)
    BY <2>1, <2>2 DEF ToSet
  <2>6. ToSet(t) \subseteq ToSet(s \o t)
    BY <2>1, <2>3 DEF ToSet
  <2>7. s \o t \in Seq(S)
    OBVIOUS
  <2> QED
    BY <2>4, <2>5, <2>6, <2>7
<1>5. ToSet(Kinds) = ToSet(a) \union ToSet(b) \union ToSet(c)
  <2>1. ToSet(a \o b) = ToSet(a) \union ToSet(b) /\ a \o b \in Seq(S)
    BY <1>3, <1>4
  <2>2. ToSet((a \o b) \o c) = ToSet(a \o b) \union ToSet(c)
    BY <1>30, <1>4, <2>1
  <2> QED
    BY <1>1, <2>1, <2>2
<1> QED
  BY <1>2, <1>5

-----------------------------------------------------------------------------
(* The table a caller without one passes knows no class.                   *)

Walks == [chain : Seq(AllTypes), pending : Seq(AllTypes)]
NextWalk(walk) == Canonical(NoClasses, Head(walk.pending))
PastWalk(walk) == WalkedPast(NoClasses, walk, NextWalk(walk), chain_key(NoClasses, NextWalk(walk)))
WalkRule(f, walk) == IF walk.pending = <<>> THEN walk.chain ELSE f[PastWalk(walk)]
Solved(f, n) == \A walk \in Walks : Len(walk.pending) <= n => f[walk] = WalkRule(f, walk)

\* Without classes nothing has a base or an alias.
LEMMA NoBases == /\ \A key : bases_of(NoClasses, key) = <<>>
                 /\ \A name : canonical_name(NoClasses, name) = name
<1>1. DOMAIN NoClasses.bases = {} /\ DOMAIN NoClasses.canonical = {}
  BY DEF NoClasses
<1> QED
  BY <1>1 DEF bases_of, canonical_name

\* A kind without arguments is a type.
LEMMA TypeIs ==
  ASSUME NEW kind \in ToSet(Kinds), NEW name \in TypeNames
  PROVE  [kind |-> kind, name |-> name, args |-> <<>>, defaulted_params |-> 0]
           \in TypesUpTo(ToSet(Kinds))[5] \intersect AllTypes
<1> DEFINE all == ToSet(Kinds)
           A == TypesUpTo(all)
<1>1. AllTypes = A[6] /\ \A n \in 0..6 : A[n] = Layer(Everywhere(all), A, n)
  BY TypesAre DEF AllTypes, MaxNesting
<1>2. \A n \in 0..6 : Everywhere(all)[n] = all
  BY DEF Everywhere, MaxNesting
<1> HIDE DEF A, all
<1>3. <<>> \in Seq(A[4]) /\ <<>> \in Seq(A[5])
  OBVIOUS
<1>4. A[5] = Layer(Everywhere(all), A, 5) /\ A[6] = Layer(Everywhere(all), A, 6) /\ kind \in all
  BY <1>1 DEF all
<1> QED
  BY <1>1, <1>2, <1>3, <1>4 DEF Layer, A, all

\* A type under another name.
LEMMA Renamed ==
  ASSUME NEW r, NEW kind, NEW name, NEW args, NEW n, NEW other,
         r = [kind |-> kind, name |-> other, args |-> args, defaulted_params |-> n]
  PROVE  [r EXCEPT !.name = name]
           = [kind |-> kind, name |-> name, args |-> args, defaulted_params |-> n]
OBVIOUS

\* A class is a type.
LEMMA ClassIs ==
  ASSUME NEW name \in TypeNames
  PROVE  class_of(name) \in AllTypes
<1>1. class_of(name) = [kind |-> "Class", name |-> name, args |-> <<>>, defaulted_params |-> 0]
  <2> DEFINE r == of("Class")
  <2>1. r = [kind |-> "Class", name |-> "", args |-> <<>>, defaulted_params |-> 0]
    BY DEF of, parametric
  <2>2. class_of(name) = [r EXCEPT !.name = name]
    BY DEF class_of
  <2> HIDE DEF r
  <2> QED
    BY <2>1, <2>2, Renamed
<1>2. "Class" \in ToSet(Kinds)
  BY KindsAre
<1> DEFINE k == "Class"
<1>3. k \in ToSet(Kinds)
  BY <1>2
<1> HIDE DEF k
<1>4. [kind |-> k, name |-> name, args |-> <<>>, defaulted_params |-> 0] \in AllTypes
  BY <1>3, TypeIs
<1> QED
  BY <1>1, <1>4 DEF k

\* A step of the walk over the bases leaves fewer to visit.
LEMMA PastIs ==
  ASSUME NEW walk \in Walks, walk.pending # <<>>
  PROVE  PastWalk(walk) \in Walks /\ Len(PastWalk(walk).pending) = Len(walk.pending) - 1
<1> DEFINE step == NextWalk(walk)
           key == chain_key(NoClasses, step)
           p == walk.pending
<1>1. walk.chain \in Seq(AllTypes) /\ p \in Seq(AllTypes) /\ p # <<>>
      /\ walk = [chain |-> walk.chain, pending |-> p]
  BY DEF Walks
<1>2. Head(p) \in AllTypes /\ Tail(p) \in Seq(AllTypes) /\ Len(Tail(p)) = Len(p) - 1
  BY <1>1
<1>3. step \in AllTypes
  <2>1. Head(p).name \in TypeNames
    BY <1>2, Weights
  <2>3. class_of(Head(p).name) \in AllTypes
    BY <2>1, ClassIs
  <2> QED
    BY <1>2, <2>3, NoBases DEF NextWalk, Canonical
<1>4. <<>> \o Tail(p) = Tail(p)
  BY <1>2
<1>5. Append(walk.chain, step) \in Seq(AllTypes)
  BY <1>1, <1>3
<1> HIDE DEF step, key
<1>6. CASE key = NoKey \/ \E above \in ToSet(walk.chain) : chain_key(NoClasses, above) = key
  <2>1. PastWalk(walk) = [walk EXCEPT !.pending = Tail(p)]
    BY <1>6 DEF PastWalk, WalkedPast, step, key
  <2> QED
    BY <1>1, <1>2, <2>1 DEF Walks
<1>7. CASE ~(key = NoKey \/ \E above \in ToSet(walk.chain) : chain_key(NoClasses, above) = key)
  <2>1. PastWalk(walk) = [chain |-> Append(walk.chain, step), pending |-> Tail(p)]
    BY <1>4, <1>7, NoBases DEF PastWalk, WalkedPast, step, key
  <2> QED
    BY <1>2, <1>5, <2>1 DEF Walks
<1> QED
  BY <1>6, <1>7

\* A walk known for short queues is known for longer ones.
LEMMA SolvedFurther ==
  ASSUME NEW n \in Nat, NEW f, Solved(f, n)
  PROVE  Solved([walk \in Walks |-> WalkRule(f, walk)], n + 1)
<1> DEFINE h == [walk \in Walks |-> WalkRule(f, walk)]
<1>1. \A walk \in Walks : h[walk] = WalkRule(f, walk)
  OBVIOUS
<1> HIDE DEF h
<1>2. ASSUME NEW walk \in Walks, Len(walk.pending) <= n + 1 PROVE h[walk] = WalkRule(h, walk)
  <2>1. CASE walk.pending = <<>>
    BY <1>1, <2>1 DEF WalkRule
  <2>2. CASE walk.pending # <<>>
    <3>1. PastWalk(walk) \in Walks /\ Len(PastWalk(walk).pending) = Len(walk.pending) - 1
      BY <2>2, PastIs
    <3>2. Len(walk.pending) \in Nat
      BY DEF Walks
    <3>3. f[PastWalk(walk)] = WalkRule(f, PastWalk(walk))
      BY <1>2, <3>1, <3>2 DEF Solved
    <3> QED
      BY <1>1, <2>2, <3>1, <3>3 DEF WalkRule
  <2> QED
    BY <2>1, <2>2
<1> QED
  BY <1>2 DEF Solved, h

\* The walk has one result.
LEMMA SolutionsAgree ==
  ASSUME NEW f, NEW g, NEW m \in Nat, Solved(f, m), Solved(g, m)
  PROVE  \A walk \in Walks : Len(walk.pending) <= m => f[walk] = g[walk]
<1> DEFINE T == {n \in Nat : \A walk \in Walks : Len(walk.pending) <= n /\ n <= m => f[walk] = g[walk]}
<1>1. ASSUME NEW n \in Nat, n <= m,
             \A walk \in Walks : Len(walk.pending) <= n - 1 => f[walk] = g[walk]
      PROVE  \A walk \in Walks : Len(walk.pending) <= n => f[walk] = g[walk]
  <2>1. SUFFICES ASSUME NEW walk \in Walks, Len(walk.pending) <= n PROVE f[walk] = g[walk]
    OBVIOUS
  <2>2. Len(walk.pending) \in Nat
    BY DEF Walks
  <2>3. f[walk] = WalkRule(f, walk) /\ g[walk] = WalkRule(g, walk)
    BY <1>1, <2>1, <2>2 DEF Solved
  <2>4. CASE walk.pending = <<>>
    BY <2>3, <2>4 DEF WalkRule
  <2>5. CASE walk.pending # <<>>
    <3>1. PastWalk(walk) \in Walks /\ Len(PastWalk(walk).pending) = Len(walk.pending) - 1
      BY <2>5, PastIs
    <3> QED
      BY <1>1, <2>1, <2>2, <2>3, <2>5, <3>1 DEF WalkRule
  <2> QED
    BY <2>4, <2>5
<1>2. 0 \in T
  <2>1. \A walk \in Walks : ~(Len(walk.pending) <= 0 - 1)
    <3>1. SUFFICES ASSUME NEW walk \in Walks PROVE ~(Len(walk.pending) <= 0 - 1)
      OBVIOUS
    <3>2. Len(walk.pending) \in Nat
      BY DEF Walks
    <3> QED
      BY <3>2
  <2>2. \A walk \in Walks : Len(walk.pending) <= 0 => f[walk] = g[walk]
    BY <1>1, <2>1
  <2> QED
    BY <2>2
<1>3. ASSUME NEW n \in Nat, n \in T PROVE n + 1 \in T
  <2>1. SUFFICES ASSUME n + 1 <= m
                 PROVE  \A walk \in Walks : Len(walk.pending) <= n + 1 => f[walk] = g[walk]
    OBVIOUS
  <2>2. n <= m /\ (n + 1) - 1 = n /\ n + 1 \in Nat
    BY <2>1
  <2>3. \A walk \in Walks : Len(walk.pending) <= (n + 1) - 1 => f[walk] = g[walk]
    BY <1>3, <2>2
  <2> QED
    BY <1>1, <2>1, <2>2, <2>3
<1> HIDE DEF T
<1>4. \A n \in Nat : n \in T
  BY <1>2, <1>3, Upward
<1>5. m \in T /\ m <= m
  BY <1>4
<1> QED
  BY <1>5 DEF T

\* The walk over the bases has a result.
LEMMA WalkSolved ==
  \E f : f = [walk \in Walks |-> WalkRule(f, walk)]
<1> DEFINE T == {n \in Nat : \E f : Solved(f, n)}
<1>1. 0 \in T
  <2> DEFINE h == [walk \in Walks |-> walk.chain]
  <2>1. \A walk \in Walks : h[walk] = walk.chain
    OBVIOUS
  <2> HIDE DEF h
  <2>2. ASSUME NEW walk \in Walks, Len(walk.pending) <= 0 PROVE walk.pending = <<>>
    <3>1. walk.pending \in Seq(AllTypes)
      BY DEF Walks
    <3> QED
      BY <2>2, <3>1
  <2>3. Solved(h, 0)
    BY <2>1, <2>2 DEF Solved, WalkRule
  <2> QED
    BY <2>3
<1>2. ASSUME NEW n \in Nat, n \in T PROVE n + 1 \in T
  <2>1. PICK f : Solved(f, n)
    BY <1>2
  <2>2. \E h : Solved(h, n + 1)
    BY <2>1, SolvedFurther
  <2> QED
    BY <2>2
<1> HIDE DEF T
<1>3. \A n \in Nat : n \in T
  BY <1>1, <1>2, Upward
<1> DEFINE S(n) == CHOOSE f : Solved(f, n)
<1>4. \A n \in Nat : Solved(S(n), n)
  BY <1>3 DEF T
<1> DEFINE g == [walk \in Walks |-> S(Len(walk.pending))[walk]]
<1>5. \A walk \in Walks : g[walk] = S(Len(walk.pending))[walk]
  OBVIOUS
<1>6. g = [walk \in Walks |-> g[walk]]
  OBVIOUS
<1> HIDE DEF S, g
<1>7. ASSUME NEW walk \in Walks PROVE g[walk] = WalkRule(g, walk)
  <2> DEFINE n == Len(walk.pending)
  <2>1. n \in Nat
    BY DEF Walks
  <2>2. S(n)[walk] = WalkRule(S(n), walk)
    BY <1>4, <2>1 DEF Solved
  <2>3. CASE walk.pending = <<>>
    BY <1>5, <2>2, <2>3 DEF WalkRule
  <2>4. CASE walk.pending # <<>>
    <3>1. PastWalk(walk) \in Walks /\ Len(PastWalk(walk).pending) = n - 1
      BY <2>4, PastIs
    <3>2. n - 1 \in Nat /\ Len(PastWalk(walk).pending) <= n - 1
      <4>1. Len(PastWalk(walk).pending) \in Nat
        BY <3>1 DEF Walks
      <4> QED
        BY <3>1, <4>1
    <3> HIDE DEF n
    <3>3. Solved(S(n), n - 1)
      <4>1. Solved(S(n), n) /\ \A k : k <= n - 1 /\ k \in Nat => k <= n
        BY <1>4, <2>1
      <4>2. \A w \in Walks : Len(w.pending) \in Nat
        BY DEF Walks
      <4> QED
        BY <4>1, <4>2 DEF Solved
    <3>4. Solved(S(n - 1), n - 1)
      BY <1>4, <3>2
    <3>5. S(n)[PastWalk(walk)] = S(n - 1)[PastWalk(walk)]
      BY <3>1, <3>2, <3>3, <3>4, SolutionsAgree
    <3>6. g[PastWalk(walk)] = S(n - 1)[PastWalk(walk)]
      BY <1>5, <3>1
    <3>7. g[walk] = S(n)[walk]
      BY <1>5 DEF n
    <3> QED
      BY <2>2, <2>4, <3>5, <3>6, <3>7 DEF WalkRule
  <2> QED
    BY <2>3, <2>4
<1>8. g = [walk \in Walks |-> WalkRule(g, walk)]
  BY <1>6, <1>7
<1> QED
  BY <1>8

\* Without classes the chain of a class is the class.
LEMMA ChainIs ==
  ASSUME NEW name \in TypeNames
  PROVE  class_ancestor_chain(NoClasses, name) = <<class_of(name)>>
<1> DEFINE F(f) == f = [walk \in [chain : Seq(AllTypes), pending : Seq(AllTypes)] |->
             IF walk.pending = <<>> THEN walk.chain
             ELSE f[WalkedPast(NoClasses, walk, Canonical(NoClasses, Head(walk.pending)),
                       chain_key(NoClasses, Canonical(NoClasses, Head(walk.pending))))]]
           w == CHOOSE f : F(f)
           start == [chain |-> <<class_of(name)>>, pending |-> <<>>]
<1>1. \A f : F(f) <=> f = [walk \in Walks |-> WalkRule(f, walk)]
  BY DEF Walks, WalkRule, PastWalk, NextWalk
<1>2. F(w)
  BY <1>1, WalkSolved
<1>3. w = [walk \in Walks |-> WalkRule(w, walk)]
  BY <1>1, <1>2
<1>4. start \in Walks
  <2>2. class_of(name) \in AllTypes
    BY ClassIs
  <2>3. <<>> \in Seq(AllTypes)
    OBVIOUS
  <2> QED
    BY <2>2, <2>3 DEF Walks
<1>5. WalkBases(NoClasses, name) = w[start]
  BY NoBases DEF WalkBases
<1> HIDE DEF w
<1>6. w[start] = WalkRule(w, start)
  BY <1>3, <1>4
<1>7. WalkRule(w, start) = <<class_of(name)>>
  BY DEF WalkRule
<1> QED
  BY <1>5, <1>6, <1>7, NoBases DEF class_ancestor_chain

\* Without classes no chain of bases is endless.
LEMMA NoClassesGrounded == Grounded(NoClasses)
<1>1. ASSUME NEW name \in TypeNames
      PROVE  /\ <<class_of(name)>> \in Seq(AllTypes)
             /\ Tail(<<class_of(name)>>) = <<>>
  <2>2. class_of(name) \in AllTypes
    BY ClassIs
  <2> QED
    BY <2>2
<1>2. ToSet(<<>>) = {}
  BY DEF ToSet
<1> QED
  BY <1>1, <1>2, ChainIs DEF Grounded

-----------------------------------------------------------------------------
(* The types names hold, and what is_subtype says of them.                 *)

\* The types names hold where values are followed: of a constant, of an annotation, or a
\* union of such.
Plain == Constants \union {"Object"}
Scalars == {of(k) : k \in Plain}
Known == Scalars \union {parametric("Union", a) : a \in Seq(Scalars) \ {<<>>}}
Members(t) == IF t.kind = "Union" THEN ToSet(t.args) ELSE {t}
Ranked(m, k) == /\ numeric_rank(m) # 0 /\ numeric_rank(k) # 0
                /\ numeric_rank(m) <= numeric_rank(k)
StandsFor(m, k) == k.kind = "Object" \/ m.kind = k.kind \/ Ranked(m.kind, k.kind)
Covers(t, s) == \A m \in Members(s) : \E k \in Members(t) : StandsFor(m, k)

\* A type without arguments.
LEMMA OfIs ==
  ASSUME NEW k
  PROVE  of(k) = [kind |-> k, name |-> "", args |-> <<>>, defaulted_params |-> 0]
BY DEF of, parametric

\* A union.
LEMMA UnionIs ==
  ASSUME NEW a
  PROVE  parametric("Union", a) = [kind |-> "Union", name |-> "", args |-> a, defaulted_params |-> 0]
BY DEF parametric

\* The kind and the arguments of a type.
LEMMA FieldsOf ==
  ASSUME NEW t, NEW kind, NEW args,
         t = [kind |-> kind, name |-> "", args |-> args, defaulted_params |-> 0]
  PROVE  t.kind = kind /\ t.args = args
OBVIOUS

\* The kinds of constants and annotations.
LEMMA PlainKinds ==
  /\ Plain \subseteq ToSet(Kinds)
  /\ "Union" \in ToSet(Kinds)
  /\ Plain \intersect {"Unknown", "Union", "Callable", "Class", "List", "Dict", "Set", "FrozenSet",
                       "Tuple", "-"} = {}
BY KindsAre DEF Plain, Constants

\* The type of a constant or of an annotation.
LEMMA ScalarIs ==
  ASSUME NEW t \in Scalars
  PROVE  /\ t.kind \in Plain /\ t = of(t.kind) /\ t.args = <<>> /\ t.kind # "Union"
         /\ t \in TypesUpTo(ToSet(Kinds))[5] /\ t \in AllTypes
<1>1. PICK k \in Plain : t = of(k)
  BY DEF Scalars
<1>2. t = [kind |-> k, name |-> "", args |-> <<>>, defaulted_params |-> 0]
  BY <1>1, OfIs
<1>3. k \in ToSet(Kinds) /\ "" \in TypeNames
  BY PlainKinds DEF TypeNames
<1>4. t \in TypesUpTo(ToSet(Kinds))[5] \intersect AllTypes
  BY <1>2, <1>3, TypeIs
<1>5. t.kind = k /\ t.args = <<>>
  BY <1>2
<1> QED
  BY <1>1, <1>4, <1>5, PlainKinds

\* A union of such types is a type.
LEMMA UnionInAll ==
  ASSUME NEW a \in Seq(Scalars)
  PROVE  parametric("Union", a) \in AllTypes
<1> DEFINE all == ToSet(Kinds)
           A == TypesUpTo(all)
           k == "Union"
<1>0. AllTypes = A[6] /\ \A n \in 0..6 : A[n] = Layer(Everywhere(all), A, n)
  BY TypesAre DEF AllTypes, MaxNesting
<1>1. AllTypes = A[6] /\ A[6] = Layer(Everywhere(all), A, 6) /\ Everywhere(all)[6] = all
  <2>1. \A n \in 0..6 : Everywhere(all)[n] = all
    BY DEF Everywhere, MaxNesting
  <2> HIDE DEF A, all
  <2> QED
    BY <1>0, <2>1
<1>2. k \in all /\ "" \in TypeNames
  BY PlainKinds DEF TypeNames
<1>3. Scalars \subseteq A[5]
  BY ScalarIs
<1> DEFINE B == A[5]
<1>4. a \in Seq(B)
  <2>1. Scalars \subseteq B
    BY <1>3
  <2> HIDE DEF B
  <2> QED
    BY <2>1
<1>5. parametric("Union", a) = [kind |-> k, name |-> "", args |-> a, defaulted_params |-> 0]
  BY UnionIs
<1> HIDE DEF A, all, k
<1>6. [kind |-> k, name |-> "", args |-> a, defaulted_params |-> 0] \in Layer(Everywhere(all), A, 6)
  <2> DEFINE n == 6
  <2>1. a \in Seq(A[n - 1]) /\ n # 0 /\ n - 1 = 5
    BY <1>4
  <2>2. k \in Everywhere(all)[n] /\ 0 \in Nat
    BY <1>1, <1>2
  <2> HIDE DEF n
  <2>3. [kind |-> k, name |-> "", args |-> a, defaulted_params |-> 0] \in Layer(Everywhere(all), A, n)
    BY <1>2, <2>1, <2>2, InALayer
  <2> QED
    BY <2>3 DEF n
<1> QED
  BY <1>1, <1>5, <1>6

\* What a name may hold is a type of one or several members.
LEMMA KnownIs ==
  ASSUME NEW t \in Known
  PROVE  /\ t \in AllTypes /\ t.kind \in Plain \union {"Union"}
         /\ Members(t) \subseteq Scalars /\ Members(t) # {}
         /\ t.kind # "Union" => t \in Scalars /\ Members(t) = {t}
         /\ t.kind = "Union" => /\ t.args \in Seq(Scalars) /\ t.args # <<>>
                                /\ Members(t) = ToSet(t.args)
<1>1. CASE t \in Scalars
  BY <1>1, ScalarIs DEF Members
<1>2. CASE t \notin Scalars
  <2>1. PICK a \in Seq(Scalars) : a # <<>> /\ t = parametric("Union", a)
    BY <1>2 DEF Known
  <2>2. t.kind = "Union" /\ t.args = a
    <3>1. t = [kind |-> "Union", name |-> "", args |-> a, defaulted_params |-> 0]
      BY <2>1, UnionIs
    <3> QED
      BY <3>1, FieldsOf
  <2>3. ToSet(a) \subseteq Scalars /\ ToSet(a) # {}
    <3>1. 1 \in DOMAIN a /\ \A i \in DOMAIN a : a[i] \in Scalars
      BY <2>1
    <3> QED
      BY <3>1 DEF ToSet
  <2> QED
    BY <2>1, <2>2, <2>3, UnionInAll DEF Members
<1> QED
  BY <1>1, <1>2

\* What stands for a type that stands for another stands for that one.
LEMMA StandsForTransitive ==
  ASSUME NEW a \in Scalars, NEW b \in Scalars, NEW c \in Scalars, StandsFor(a, b), StandsFor(b, c)
  PROVE  StandsFor(a, c)
<1>1. \A k : numeric_rank(k) \in 0..4
  BY RankIs
<1>2. numeric_rank("Object") = 0
  BY RankIs
<1> QED
  BY <1>1, <1>2 DEF StandsFor, Ranked

\* A type that covers one that covers another covers that one.
LEMMA CoversTransitive ==
  ASSUME NEW a \in Known, NEW b \in Known, NEW c \in Known, Covers(b, a), Covers(c, b)
  PROVE  Covers(c, a)
<1>1. Members(a) \subseteq Scalars /\ Members(b) \subseteq Scalars /\ Members(c) \subseteq Scalars
  BY KnownIs
<1> QED
  BY <1>1, StandsForTransitive DEF Covers

\* A type covers itself.
LEMMA CoversItself ==
  ASSUME NEW a
  PROVE  Covers(a, a)
BY DEF Covers, StandsFor

\* What a member contributes to a union.
Piece(m) == IF m.kind = "Union" THEN m.args ELSE <<m>>

\* The members of a union of one.
LEMMA FlattenOne ==
  ASSUME NEW s
  PROVE  Flatten(<<s>>) = Piece(s)
<1> DEFINE m == <<s>>
           seqs == [i \in DOMAIN m |-> IF m[i].kind = "Union" THEN m[i].args ELSE <<m[i]>>]
<1>1. seqs = <<Piece(s)>> /\ Len(seqs) = 1 /\ seqs[1] = Piece(s)
  <2>1. DOMAIN m = 1..1 /\ m[1] = s
    OBVIOUS
  <2>2. seqs = [i \in 1..1 |-> Piece(s)]
    BY <2>1 DEF Piece
  <2>3. <<Piece(s)>> = [i \in 1..1 |-> Piece(s)]
    OBVIOUS
  <2> QED
    BY <2>2, <2>3
<1>2. Flatten(m) = FlattenSeq(seqs)
  BY DEF Flatten
<1> HIDE DEF seqs, m
<1> DEFINE F(f) == f = [i \in 1..Len(seqs) |-> IF i = 1 THEN seqs[i] ELSE f[i - 1] \o seqs[i]]
           flatten == CHOOSE f : F(f)
<1>3. F(flatten)
  <2> DEFINE g == [i \in 1..1 |-> Piece(s)]
  <2>1. F(g)
    BY <1>1
  <2> QED
    BY <2>1
<1> HIDE DEF flatten
<1>4. flatten[1] = Piece(s)
  BY <1>1, <1>3
<1>5. FlattenSeq(seqs) = flatten[Len(seqs)]
  BY <1>1 DEF FlattenSeq, flatten
<1> QED
  BY <1>1, <1>2, <1>4, <1>5 DEF m

\* The members of a union of two.
LEMMA FlattenTwo ==
  ASSUME NEW s, NEW t
  PROVE  Flatten(<<s, t>>) = Piece(s) \o Piece(t)
<1> DEFINE m == <<s, t>>
           seqs == [i \in DOMAIN m |-> IF m[i].kind = "Union" THEN m[i].args ELSE <<m[i]>>]
<1>1. Len(seqs) = 2 /\ seqs[1] = Piece(s) /\ seqs[2] = Piece(t)
  <2>1. DOMAIN m = 1..2 /\ m[1] = s /\ m[2] = t
    OBVIOUS
  <2>2. seqs = [i \in 1..2 |-> IF i = 1 THEN Piece(s) ELSE Piece(t)]
    BY <2>1 DEF Piece
  <2>3. <<Piece(s), Piece(t)>> = [i \in 1..2 |-> IF i = 1 THEN Piece(s) ELSE Piece(t)]
    OBVIOUS
  <2> QED
    BY <2>2, <2>3
<1>2. Flatten(m) = FlattenSeq(seqs)
  BY DEF Flatten
<1> HIDE DEF seqs, m
<1> DEFINE F(f) == f = [i \in 1..Len(seqs) |-> IF i = 1 THEN seqs[i] ELSE f[i - 1] \o seqs[i]]
           flatten == CHOOSE f : F(f)
<1>3. F(flatten)
  <2> DEFINE g == [i \in 1..2 |-> IF i = 1 THEN Piece(s) ELSE Piece(s) \o Piece(t)]
  <2>1. F(g)
    BY <1>1
  <2> QED
    BY <2>1
<1> HIDE DEF flatten
<1>4. flatten[2] = Piece(s) \o Piece(t)
  <2>2. flatten = [i \in 1..2 |-> IF i = 1 THEN seqs[i] ELSE flatten[i - 1] \o seqs[i]]
    BY <1>1, <1>3
  <2>3. flatten[1] = Piece(s)
    BY <1>1, <2>2
  <2>4. flatten[2] = flatten[1] \o seqs[2]
    <3>1. 2 \in 1..2 /\ 2 # 1 /\ 2 - 1 = 1
      OBVIOUS
    <3> QED
      BY <2>2, <3>1
  <2> QED
    BY <1>1, <2>3, <2>4
<1>5. FlattenSeq(seqs) = flatten[Len(seqs)]
  BY <1>1 DEF FlattenSeq, flatten
<1> QED
  BY <1>1, <1>2, <1>4, <1>5 DEF m

\* The members a type adds to a union.
LEMMA PieceIs ==
  ASSUME NEW t \in Known
  PROVE  Piece(t) \in Seq(Scalars) /\ Piece(t) # <<>> /\ ToSet(Piece(t)) = Members(t)
<1>1. CASE t.kind = "Union"
  BY <1>1, KnownIs DEF Piece
<1>2. CASE t.kind # "Union"
  <2>1. t \in Scalars /\ Members(t) = {t} /\ Piece(t) = <<t>>
    BY <1>2, KnownIs DEF Piece
  <2>2. <<t>> \in Seq(Scalars) /\ <<t>> # <<>> /\ ToSet(<<t>>) = {t}
    BY <2>1 DEF ToSet
  <2> QED
    BY <2>1, <2>2
<1> QED
  BY <1>1, <1>2

\* One sequence behind another.
LEMMA JoinedPieces ==
  ASSUME NEW S, NEW s \in Seq(S), NEW t \in Seq(S), s # <<>>
  PROVE  s \o t \in Seq(S) /\ s \o t # <<>> /\ ToSet(s \o t) = ToSet(s) \union ToSet(t)
<1>1. DOMAIN (s \o t) = 1..(Len(s) + Len(t)) /\ DOMAIN s = 1..Len(s) /\ DOMAIN t = 1..Len(t)
      /\ Len(s) \in Nat /\ Len(t) \in Nat
      /\ \A i \in 1..(Len(s) + Len(t)) : (s \o t)[i] = IF i <= Len(s) THEN s[i] ELSE t[i - Len(s)]
  OBVIOUS
<1>2. \A i \in 1..Len(s) : i \in 1..(Len(s) + Len(t)) /\ (s \o t)[i] = s[i]
  BY <1>1
<1>3. \A i \in 1..Len(t) : i + Len(s) \in 1..(Len(s) + Len(t)) /\ (s \o t)[i + Len(s)] = t[i]
  BY <1>1
<1>4. ASSUME NEW x \in ToSet(s \o t) PROVE x \in ToSet(s) \union ToSet(t)
  <2>1. PICK i \in 1..(Len(s) + Len(t)) : x = (s \o t)[i]
    BY <1>1 DEF ToSet
  <2>2. CASE i <= Len(s)
    BY <1>1, <2>1, <2>2 DEF ToSet
  <2>3. CASE i > Len(s)
    BY <1>1, <2>1, <2>3 DEF ToSet
  <2> QED
    BY <1>1, <2>2, <2>3
<1>5. ToSet(s) \subseteq ToSet(s \o t)
  BY <1>1, <1>2 DEF ToSet
<1>6. ToSet(t) \subseteq ToSet(s \o t)
  BY <1>1, <1>3 DEF ToSet
<1>7. s \o t \in Seq(S) /\ Len(s) # 0
  OBVIOUS
<1>8. Len(s \o t) # 0
  BY <1>1, <1>7
<1> QED
  BY <1>4, <1>5, <1>6, <1>7, <1>8

\* The members up to k, without those that stood before.
UptoRule(f, s, k) == IF k = 0 THEN <<>> ELSE IF Contains(f[k - 1], s[k]) THEN f[k - 1]
                     ELSE Append(f[k - 1], s[k])
Upto(f, s, n) == f = [k \in 0..n |-> UptoRule(f, s, k)]

\* Distinct is defined along the sequence.
LEMMA UptoExists ==
  ASSUME NEW s, NEW n \in Nat
  PROVE  \E f : Upto(f, s, n)
<1> DEFINE T == {k \in Nat : \E f : Upto(f, s, k)}
<1>1. 0 \in T
  <2> DEFINE g == [k \in 0..0 |-> <<>>]
  <2>1. g = [k \in 0..0 |-> UptoRule(g, s, k)]
    BY DEF UptoRule
  <2> HIDE DEF g
  <2>2. Upto(g, s, 0)
    BY <2>1 DEF Upto
  <2> QED
    BY <2>2
<1>2. ASSUME NEW k \in Nat, k \in T PROVE k + 1 \in T
  <2>1. PICK f : Upto(f, s, k)
    BY <1>2
  <2> DEFINE h == [j \in 0..k + 1 |-> UptoRule(f, s, j)]
  <2>2. \A j \in 0..k : f[j] = UptoRule(f, s, j) /\ h[j] = f[j]
    BY <2>1 DEF Upto
  <2>3. \A j \in 0..k + 1 : h[j] = UptoRule(f, s, j)
    OBVIOUS
  <2>4. h = [j \in 0..k + 1 |-> h[j]]
    OBVIOUS
  <2> HIDE DEF h
  <2>5. ASSUME NEW j \in 0..k + 1 PROVE h[j] = UptoRule(h, s, j)
    <3>1. CASE j = 0
      BY <2>3, <3>1 DEF UptoRule
    <3>2. CASE j # 0
      <4>1. j - 1 \in 0..k
        BY <3>2
      <4> QED
        BY <2>2, <2>3, <3>2, <4>1 DEF UptoRule
    <3> QED
      BY <3>1, <3>2
  <2>6. Upto(h, s, k + 1)
    BY <2>4, <2>5 DEF Upto
  <2> QED
    BY <2>6
<1> HIDE DEF T
<1>3. \A k \in Nat : k \in T
  BY <1>1, <1>2, Upward
<1> QED
  BY <1>3 DEF T

\* A sequence and one element more.
LEMMA AppendIs ==
  ASSUME NEW S, NEW s \in Seq(S), NEW x \in S
  PROVE  Append(s, x) \in Seq(S) /\ Append(s, x) # <<>> /\ ToSet(Append(s, x)) = ToSet(s) \union {x}
<1>1. <<x>> \in Seq(S) /\ <<x>> # <<>> /\ ToSet(<<x>>) = {x}
  BY DEF ToSet
<1>2. DOMAIN Append(s, x) = 1..(Len(s) + 1) /\ DOMAIN s = 1..Len(s) /\ Len(s) \in Nat
      /\ \A i \in 1..Len(s) : Append(s, x)[i] = s[i]
      /\ Append(s, x)[Len(s) + 1] = x /\ Append(s, x) \in Seq(S)
      /\ Len(Append(s, x)) = Len(s) + 1
  OBVIOUS
<1>3. \A i \in 1..(Len(s) + 1) : i \in 1..Len(s) \/ i = Len(s) + 1
  BY <1>2
<1>4. \A i \in 1..Len(s) : i \in 1..(Len(s) + 1)
  BY <1>2
<1>5. Len(s) + 1 \in 1..(Len(s) + 1)
  BY <1>2
<1>6. ToSet(Append(s, x)) \subseteq ToSet(s) \union {x}
  BY <1>2, <1>3 DEF ToSet
<1>7. ToSet(s) \union {x} \subseteq ToSet(Append(s, x))
  BY <1>2, <1>4, <1>5 DEF ToSet
<1>8. Append(s, x) # <<>>
  BY <1>2
<1> QED
  BY <1>2, <1>6, <1>7, <1>8

\* Distinct keeps every element.
LEMMA DistinctIs ==
  ASSUME NEW S, NEW s \in Seq(S), s # <<>>
  PROVE  Distinct(s) \in Seq(S) /\ Distinct(s) # <<>> /\ ToSet(Distinct(s)) = ToSet(s)
<1> DEFINE n == Len(s)
           upto == CHOOSE f : Upto(f, s, n)
<1>1. n \in Nat /\ n # 0 /\ DOMAIN s = 1..n /\ \A k \in 1..n : s[k] \in S
  OBVIOUS
<1>2. Distinct(s) = upto[n]
  BY DEF Distinct, Upto, UptoRule
<1> HIDE DEF n
<1>3. Upto(upto, s, n)
  BY <1>1, UptoExists
<1> HIDE DEF upto
<1>4. \A k \in 0..n : upto[k] = UptoRule(upto, s, k)
  BY <1>3 DEF Upto
<1> DEFINE T == {k \in Nat : k <= n => /\ upto[k] \in Seq(S) /\ (k # 0 => upto[k] # <<>>)
                                       /\ ToSet(upto[k]) = {s[i] : i \in 1..k}}
<1>5. 0 \in T
  <2>1. upto[0] = <<>>
    BY <1>1, <1>4 DEF UptoRule
  <2>2. <<>> \in Seq(S) /\ ToSet(<<>>) = {}
    BY DEF ToSet
  <2>3. {s[i] : i \in 1..0} = {}
    OBVIOUS
  <2> QED
    BY <2>1, <2>2, <2>3
<1>6. ASSUME NEW k \in Nat, k \in T PROVE k + 1 \in T
  <2>1. SUFFICES ASSUME k + 1 <= n
                 PROVE  /\ upto[k + 1] \in Seq(S) /\ upto[k + 1] # <<>>
                        /\ ToSet(upto[k + 1]) = {s[i] : i \in 1..k + 1}
    OBVIOUS
  <2>2. k <= n /\ k + 1 \in 0..n /\ k + 1 # 0 /\ (k + 1) - 1 = k /\ k + 1 \in 1..n
    BY <1>1, <2>1
  <2> DEFINE f == upto[k]
             e == s[k + 1]
  <2>3. f \in Seq(S) /\ ToSet(f) = {s[i] : i \in 1..k} /\ e \in S
    BY <1>1, <1>6, <2>2
  <2>4. upto[k + 1] = IF Contains(f, e) THEN f ELSE Append(f, e)
    BY <1>4, <2>2 DEF UptoRule
  <2>5. {s[i] : i \in 1..k + 1} = {s[i] : i \in 1..k} \union {e}
    OBVIOUS
  <2> HIDE DEF f, e
  <2>6. Contains(f, e) <=> e \in ToSet(f)
    BY <2>3 DEF Contains, ToSet
  <2>7. CASE e \in ToSet(f)
    <3>1. f # <<>>
      BY <2>7 DEF ToSet
    <3>2. upto[k + 1] = f /\ ToSet(f) = {s[i] : i \in 1..k + 1}
      BY <2>3, <2>4, <2>5, <2>6, <2>7
    <3> QED
      BY <2>3, <3>1, <3>2
  <2>8. CASE e \notin ToSet(f)
    <3>1. upto[k + 1] = Append(f, e)
      BY <2>4, <2>6, <2>8
    <3>2. Append(f, e) \in Seq(S) /\ Append(f, e) # <<>> /\ ToSet(Append(f, e)) = ToSet(f) \union {e}
      BY <2>3, AppendIs
    <3> QED
      BY <2>3, <2>5, <3>1, <3>2
  <2> QED
    BY <2>7, <2>8
<1> HIDE DEF T
<1>7. \A k \in Nat : k \in T
  BY <1>5, <1>6, Upward
<1>8. n \in T /\ n <= n
  BY <1>1, <1>7
<1>9. upto[n] \in Seq(S) /\ upto[n] # <<>> /\ ToSet(upto[n]) = {s[i] : i \in 1..n}
  BY <1>1, <1>8 DEF T
<1>10. ToSet(s) = {s[i] : i \in 1..n}
  BY <1>1 DEF ToSet
<1> QED
  BY <1>2, <1>9, <1>10

\* What is_subtype says of two types without arguments.
LEMMA ScalarRule ==
  ASSUME NEW under, NEW s \in Scalars, NEW t \in Scalars
  PROVE  subtype_rule(under, s, t, NoClasses) <=> StandsFor(s, t)
<1>1. /\ s.kind \in Plain /\ t.kind \in Plain /\ s = of(s.kind) /\ t = of(t.kind)
  BY ScalarIs
<1>2. /\ s.kind \notin {"Unknown", "Union", "Callable", "Class", "List", "Dict", "Set", "FrozenSet", "Tuple"}
      /\ t.kind \notin {"Unknown", "Union", "Callable", "Class", "List", "Dict", "Set", "FrozenSet", "Tuple"}
  BY <1>1, PlainKinds
<1>3. s = t <=> s.kind = t.kind
  BY <1>1
<1>4. numeric_rank(s.kind) \in 0..4 /\ numeric_rank(t.kind) \in 0..4
  BY RankIs
<1>5. subtype_rule(under, s, t, NoClasses) <=>
        IF s = t \/ t.kind = "Object" THEN TRUE
        ELSE IF numeric_rank(s.kind) # 0 /\ numeric_rank(t.kind) # 0
             THEN numeric_rank(s.kind) <= numeric_rank(t.kind)
             ELSE FALSE
  BY <1>2 DEF subtype_rule, is_invariant_container
<1> QED
  BY <1>3, <1>4, <1>5 DEF StandsFor, Ranked

\* What is_subtype says of two types a name may hold.
LEMMA KnownSubtype ==
  ASSUME NEW s \in Known, NEW t \in Known
  PROVE  is_subtype(s, t, NoClasses) <=> Covers(t, s)
<1> DEFINE U == Subtypes(NoClasses)
<1>1. \A a \in AllTypes, b \in AllTypes :
        /\ U[<<a, b>>] = subtype_rule(U, a, b, NoClasses)
        /\ is_subtype(a, b, NoClasses) <=> U[<<a, b>>]
  BY NoClassesGrounded, SubtypesAre
<1> HIDE DEF U
<1>2. \A a \in Known : a.kind # "Unknown"
  BY KnownIs, PlainKinds
<1>3. \A a \in Scalars, b \in Scalars : U[<<a, b>>] <=> StandsFor(a, b)
  BY <1>1, ScalarIs, ScalarRule
<1>4. ASSUME NEW a \in Scalars, NEW b \in Known
      PROVE  U[<<a, b>>] <=> \E k \in Members(b) : StandsFor(a, k)
  <2>1. CASE b.kind # "Union"
    <3>1. b \in Scalars /\ Members(b) = {b}
      BY <2>1, KnownIs
    <3> QED
      BY <1>3, <3>1
  <2>2. CASE b.kind = "Union"
    <3>1. a \in AllTypes /\ b \in AllTypes /\ a.kind \notin {"Union", "Unknown"} /\ a # b
      BY <2>2, KnownIs, ScalarIs, PlainKinds
    <3>2. subtype_rule(U, a, b, NoClasses) <=> \E m \in ToSet(b.args) : U[<<a, m>>]
      BY <2>2, <3>1 DEF subtype_rule
    <3>3. ToSet(b.args) = Members(b) /\ Members(b) \subseteq Scalars
      BY <2>2, KnownIs
    <3> QED
      BY <1>1, <1>3, <3>1, <3>2, <3>3
  <2> QED
    BY <2>1, <2>2
<1>5. CASE s.kind # "Union"
  <2>1. s \in Scalars /\ Members(s) = {s}
    BY <1>5, KnownIs
  <2> QED
    BY <1>1, <1>4, <2>1, KnownIs DEF Covers
<1>6. CASE s.kind = "Union"
  <2>1. s \in AllTypes /\ t \in AllTypes /\ t.kind # "Unknown"
    BY <1>2, KnownIs
  <2>2. ToSet(s.args) = Members(s) /\ Members(s) \subseteq Scalars
    BY <1>6, KnownIs
  <2>3. CASE s = t
    BY <1>1, <1>6, <2>1, <2>3, CoversItself DEF subtype_rule
  <2>4. CASE t.kind = "Object"
    <3>1. t \in Scalars /\ Members(t) = {t}
      BY <2>4, KnownIs
    <3>2. Covers(t, s)
      BY <2>4, <3>1 DEF Covers, StandsFor
    <3> QED
      BY <1>1, <1>6, <2>1, <2>4, <3>2 DEF subtype_rule
  <2>5. CASE s # t /\ t.kind # "Object"
    <3>1. subtype_rule(U, s, t, NoClasses) <=> \A m \in ToSet(s.args) : U[<<m, t>>]
      BY <1>6, <2>1, <2>5 DEF subtype_rule
    <3> QED
      BY <1>1, <1>4, <2>1, <2>2, <3>1 DEF Covers
  <2> QED
    BY <2>3, <2>4, <2>5
<1> QED
  BY <1>5, <1>6

\* A union has the members of its flattened arguments.
LEMMA UnionOfPieces ==
  ASSUME NEW members, NEW flat \in Seq(Scalars), flat # <<>>, Flatten(members) = flat
  PROVE  union_of(members) \in Known /\ Members(union_of(members)) = ToSet(flat)
<1>1. flat[1] \in Scalars /\ flat[1] \in ToSet(flat) /\ ToSet(flat) \subseteq Scalars
  <2>1. 1 \in DOMAIN flat /\ \A i \in DOMAIN flat : flat[i] \in Scalars
    OBVIOUS
  <2> QED
    BY <2>1 DEF ToSet
<1>2. Unknown \notin ToSet(flat)
  <2>1. Unknown.kind = "Unknown"
    BY OfIs, FieldsOf DEF Unknown
  <2> QED
    BY <1>1, <2>1, ScalarIs, PlainKinds
<1>3. union_of(members) = IF ToSet(flat) = {flat[1]} THEN flat[1] ELSE parametric("Union", Distinct(flat))
  BY <1>2 DEF union_of
<1>4. CASE ToSet(flat) = {flat[1]}
  <2>1. flat[1].kind # "Union"
    BY <1>1, ScalarIs
  <2> QED
    BY <1>1, <1>3, <1>4, <2>1 DEF Known, Members
<1>5. CASE ToSet(flat) # {flat[1]}
  <2> DEFINE d == Distinct(flat)
  <2>1. d \in Seq(Scalars) /\ d # <<>> /\ ToSet(d) = ToSet(flat)
    BY DistinctIs
  <2> HIDE DEF d
  <2>2. union_of(members) = parametric("Union", d)
    BY <1>3, <1>5 DEF d
  <2>3. parametric("Union", d) \in Known
    BY <2>1 DEF Known
  <2>4. parametric("Union", d).kind = "Union" /\ parametric("Union", d).args = d
    <3> DEFINE t == parametric("Union", d)
               k == "Union"
    <3>1. t = [kind |-> k, name |-> "", args |-> d, defaulted_params |-> 0]
      BY UnionIs
    <3> HIDE DEF t, k
    <3>2. t.kind = k /\ t.args = d
      BY <3>1, FieldsOf
    <3> QED
      BY <3>2 DEF t, k
  <2> QED
    BY <2>1, <2>2, <2>3, <2>4 DEF Members
<1> QED
  BY <1>4, <1>5

\* The union of one type.
LEMMA UnionOfOne ==
  ASSUME NEW s \in Known
  PROVE  union_of(<<s>>) \in Known /\ Members(union_of(<<s>>)) = Members(s)
<1> DEFINE members == <<s>>
           flat == Piece(s)
<1>1. Flatten(members) = flat
  BY FlattenOne
<1>2. flat \in Seq(Scalars) /\ flat # <<>> /\ ToSet(flat) = Members(s)
  BY PieceIs
<1> HIDE DEF members, flat
<1>3. union_of(members) \in Known /\ Members(union_of(members)) = ToSet(flat)
  BY <1>1, <1>2, UnionOfPieces
<1> QED
  BY <1>2, <1>3 DEF members

\* The union of two types.
LEMMA UnionOfTwo ==
  ASSUME NEW s \in Known, NEW t \in Known
  PROVE  union_of(<<s, t>>) \in Known /\ Members(union_of(<<s, t>>)) = Members(s) \union Members(t)
<1> DEFINE members == <<s, t>>
           flat == Piece(s) \o Piece(t)
<1>1. Flatten(members) = flat
  BY FlattenTwo
<1>2. flat \in Seq(Scalars) /\ flat # <<>> /\ ToSet(flat) = Members(s) \union Members(t)
  BY PieceIs, JoinedPieces
<1> HIDE DEF members, flat
<1>3. union_of(members) \in Known /\ Members(union_of(members)) = ToSet(flat)
  BY <1>1, <1>2, UnionOfPieces
<1> QED
  BY <1>2, <1>3 DEF members

\* object admits every value.
LEMMA ObjectIs == Object \in Known /\ \A s \in Known : Covers(Object, s)
<1>1. Object \in Scalars /\ Object.kind = "Object"
  BY OfIs, FieldsOf DEF Object, Scalars, Plain
<1>2. Members(Object) = {Object}
  BY <1>1 DEF Members
<1> QED
  BY <1>1, <1>2 DEF Covers, StandsFor, Known

\* collapse_object_union loses no value.
LEMMA Collapsed ==
  ASSUME NEW t \in Known
  PROVE  /\ collapse_object_union(t) \in Known
         /\ \A s \in Known : Covers(t, s) => Covers(collapse_object_union(t), s)
<1>1. CASE t.kind = "Union" /\ Object \in ToSet(t.args)
  BY <1>1, ObjectIs DEF collapse_object_union
<1>2. CASE ~(t.kind = "Union" /\ Object \in ToSet(t.args))
  BY <1>2 DEF collapse_object_union
<1> QED
  BY <1>1, <1>2

-----------------------------------------------------------------------------
(* The visits are well defined.                                            *)

-----------------------------------------------------------------------------
(* The visit of a statement asks for those behind it only, so there is one *)
(* function of all visits.                                                 *)

Ahead(f, g, n) == \A k \in Nodes : k > n => f[k] = g[k]

\* The check of a suite needs the visits behind its header only.
LEMMA SuiteIsAhead ==
  ASSUME TreeOK, NEW f, NEW g, NEW n \in Nodes, Ahead(f, g, n), NEW st, NEW a
  PROVE  check_suite(f, st, n, a) = check_suite(g, st, n, a)
<1>1. CASE Suite(tree, n, a) = {}
  BY <1>1 DEF check_suite
<1>2. CASE Suite(tree, n, a) # {}
  <2> DEFINE c == FirstOf(Suite(tree, n, a))
  <2>1. c \in Nodes /\ n < c /\ n \in Nat /\ c \in Nat
    BY <1>2, FirstOfArm, NodesAre
  <2>2. f[c] = g[c]
    BY <2>1 DEF Ahead
  <2> QED
    BY <1>2, <2>2 DEF check_suite
<1> QED
  BY <1>1, <1>2

\* The visit of a statement needs the visits behind it only.
LEMMA VisitIsAhead ==
  ASSUME TreeOK, NEW f, NEW g, NEW n \in Nodes, Ahead(f, g, n), NEW st, NEW ignored
  PROVE  VisitFrom(f, st, n, ignored) = VisitFrom(g, st, n, ignored)
<1>1. \A s, a : check_suite(f, s, n, a) = check_suite(g, s, n, a)
  BY SuiteIsAhead
<1>2. visit_if(f, st, n) = visit_if(g, st, n)
  BY <1>1 DEF visit_if
<1>3. visit_loop(f, st, n) = visit_loop(g, st, n)
  BY <1>1 DEF visit_loop
<1>4. visit(f, st, n, ignored) = visit(g, st, n, ignored)
  BY <1>2, <1>3 DEF visit
<1>5. Later(tree, n) # {} => f[FirstOf(Later(tree, n))] = g[FirstOf(Later(tree, n))]
  BY FirstLater, NodesAre DEF Ahead
<1> QED
  BY <1>4, <1>5 DEF VisitFrom

Answered(f, k, ignored) ==
  /\ f = [n \in Nodes |-> f[n]]
  /\ \A n \in Nodes : n >= k => f[n] = [st \in Visits |-> VisitFrom(f, st, n, ignored)]

\* The visits are defined from the last statement backwards.
LEMMA VisitsExist ==
  ASSUME TreeOK, NEW ignored
  PROVE  \E f : f = [n \in Nodes |-> [st \in Visits |-> VisitFrom(f, st, n, ignored)]]
<1> DEFINE m == Len(tree) + 1
           T == {k \in Nat : \E f : Answered(f, k, ignored)}
<1>1. Len(tree) \in Nat /\ Nodes = 1..Len(tree) /\ m \in Nat /\ \A n \in Nodes : n \in Nat
  BY NodesAre
<1>2. m \in T
  <2> DEFINE f == [n \in Nodes |-> n]
  <2>1. f = [n \in Nodes |-> f[n]]
    OBVIOUS
  <2>2. \A n \in Nodes : ~(n >= m)
    BY <1>1
  <2> HIDE DEF f, m
  <2>3. Answered(f, m, ignored)
    BY <2>1, <2>2 DEF Answered
  <2> QED
    BY <1>1, <2>3
<1>3. ASSUME NEW k \in 1..m, k # m, k + 1 \in T PROVE k \in T
  <2>1. PICK f : Answered(f, k + 1, ignored)
    BY <1>3
  <2>2. k \in Nodes
    BY <1>1, <1>3
  <2> DEFINE row == [st \in Visits |-> VisitFrom(f, st, k, ignored)]
             g == [n \in Nodes |-> IF n = k THEN row ELSE f[n]]
  <2>3. g = [n \in Nodes |-> g[n]] /\ g[k] = row /\ \A n \in Nodes : n # k => g[n] = f[n]
    BY <2>2
  <2> HIDE DEF g
  <2>4. ASSUME NEW n \in Nodes, n >= k PROVE Ahead(f, g, n)
    BY <1>1, <2>2, <2>3, <2>4 DEF Ahead
  <2>5. ASSUME NEW n \in Nodes, n >= k
        PROVE  g[n] = [st \in Visits |-> VisitFrom(g, st, n, ignored)]
    <3>1. \A st : VisitFrom(f, st, n, ignored) = VisitFrom(g, st, n, ignored)
      BY <2>4, <2>5, VisitIsAhead
    <3>2. g[n] = [st \in Visits |-> VisitFrom(f, st, n, ignored)]
      <4>1. CASE n = k
        BY <2>3, <4>1
      <4>2. CASE n # k
        <5>1. n >= k + 1
          BY <1>1, <1>3, <2>5, <4>2
        <5> QED
          BY <2>1, <2>3, <4>2, <5>1 DEF Answered
      <4> QED
        BY <4>1, <4>2
    <3> QED
      BY <3>1, <3>2
  <2>6. Answered(g, k, ignored)
    BY <2>3, <2>5 DEF Answered
  <2> QED
    BY <1>3, <2>6
<1> HIDE DEF T, m
<1>4. \A n \in 1..m : n \in T
  BY <1>1, <1>2, <1>3, Downward
<1>5. 1 \in T
  BY <1>1, <1>4 DEF m
<1>6. PICK f : Answered(f, 1, ignored)
  BY <1>5 DEF T
<1>7. \A n \in Nodes : n >= 1
  BY <1>1
<1> QED
  BY <1>6, <1>7 DEF Answered

\* The visit of a statement, unfolded.
LEMMA VisitsAre ==
  ASSUME TreeOK, NEW ignored, NEW n \in Nodes, NEW st \in Visits
  PROVE  VisitsOf(ignored)[n][st] = VisitFrom(VisitsOf(ignored), st, n, ignored)
<1> DEFINE F(f) == f = [k \in Nodes |-> [s \in Visits |-> VisitFrom(f, s, k, ignored)]]
           w == CHOOSE f : F(f)
<1>1. VisitsOf(ignored) = w
  BY DEF VisitsOf
<1>2. F(w)
  BY VisitsExist
<1> HIDE DEF w
<1>3. w[n] = [s \in Visits |-> VisitFrom(w, s, n, ignored)]
  BY <1>2
<1>4. w[n][st] = VisitFrom(w, st, n, ignored)
  BY <1>3
<1> QED
  BY <1>1, <1>4

-----------------------------------------------------------------------------
(* Bindings and visits as records.                                         *)

-----------------------------------------------------------------------------
(* Bindings and states, field by field.                                    *)

Binding(status, type, bound_at, declared_at, order_exempt, partial_none) ==
  [status |-> status, type |-> type, bound_at |-> bound_at, declared_at |-> declared_at,
   order_exempt |-> order_exempt, partial_none |-> partial_none]

\* The fields of a binding.
LEMMA BindingFields ==
  ASSUME NEW b, NEW s, NEW t, NEW l, NEW d, NEW o, NEW p, b = Binding(s, t, l, d, o, p)
  PROVE  /\ b.status = s /\ b.type = t /\ b.bound_at = l /\ b.declared_at = d /\ b.order_exempt = o
         /\ b.partial_none = p
BY DEF Binding

\* A binding with another status.
LEMMA StatusEdit ==
  ASSUME NEW b, NEW s, NEW t, NEW l, NEW d, NEW o, NEW p, b = Binding(s, t, l, d, o, p), NEW y
  PROVE  [b EXCEPT !.status = y] = Binding(y, t, l, d, o, p)
BY DEF Binding

\* A binding with another type.
LEMMA TypeEdit ==
  ASSUME NEW b, NEW s, NEW t, NEW l, NEW d, NEW o, NEW p, b = Binding(s, t, l, d, o, p), NEW y
  PROVE  [b EXCEPT !.type = y] = Binding(s, y, l, d, o, p)
BY DEF Binding

\* A binding with another position.
LEMMA BoundEdit ==
  ASSUME NEW b, NEW s, NEW t, NEW l, NEW d, NEW o, NEW p, b = Binding(s, t, l, d, o, p), NEW y
  PROVE  [b EXCEPT !.bound_at = y] = Binding(s, t, y, d, o, p)
BY DEF Binding

\* A binding with another provenance.
LEMMA DeclaredEdit ==
  ASSUME NEW b, NEW s, NEW t, NEW l, NEW d, NEW o, NEW p, b = Binding(s, t, l, d, o, p), NEW y
  PROVE  [b EXCEPT !.declared_at = y] = Binding(s, t, l, y, o, p)
BY DEF Binding

\* A binding exempt from the order, or not.
LEMMA ExemptEdit ==
  ASSUME NEW b, NEW s, NEW t, NEW l, NEW d, NEW o, NEW p, b = Binding(s, t, l, d, o, p), NEW y
  PROVE  [b EXCEPT !.order_exempt = y] = Binding(s, t, l, d, y, p)
BY DEF Binding

\* A binding that is a partial None, or not.
LEMMA PartialEdit ==
  ASSUME NEW b, NEW s, NEW t, NEW l, NEW d, NEW o, NEW p, b = Binding(s, t, l, d, o, p), NEW y
  PROVE  [b EXCEPT !.partial_none = y] = Binding(s, t, l, d, o, y)
BY DEF Binding

\* A binding as assign_name leaves it.
LEMMA SeedEdit ==
  ASSUME NEW b, NEW s, NEW t, NEW l, NEW d, NEW o, NEW p, b = Binding(s, t, l, d, o, p),
         NEW o2, NEW p2
  PROVE  [b EXCEPT !.order_exempt = o2, !.partial_none = p2] = Binding(s, t, l, d, o2, p2)
<1> DEFINE c1 == [b EXCEPT !.order_exempt = o2]
<1>1. c1 = Binding(s, t, l, d, o2, p)
  BY ExemptEdit
<1> HIDE DEF c1
<1> DEFINE c2 == [c1 EXCEPT !.partial_none = p2]
<1>2. c2 = Binding(s, t, l, d, o2, p2)
  BY <1>1, PartialEdit
<1>3. [b EXCEPT !.order_exempt = o2, !.partial_none = p2] = c2
  BY DEF c1, c2
<1> QED
  BY <1>2, <1>3

\* A binding with another status and type.
LEMMA FillEdit ==
  ASSUME NEW b, NEW s, NEW t, NEW l, NEW d, NEW o, NEW p, b = Binding(s, t, l, d, o, p),
         NEW s2, NEW t2
  PROVE  [b EXCEPT !.status = s2, !.type = t2] = Binding(s2, t2, l, d, o, p)
<1> DEFINE c1 == [b EXCEPT !.status = s2]
<1>1. c1 = Binding(s2, t, l, d, o, p)
  BY StatusEdit
<1> HIDE DEF c1
<1> DEFINE c2 == [c1 EXCEPT !.type = t2]
<1>2. c2 = Binding(s2, t2, l, d, o, p)
  BY <1>1, TypeEdit
<1>3. [b EXCEPT !.status = s2, !.type = t2] = c2
  BY DEF c1, c2
<1> QED
  BY <1>2, <1>3

\* The bindings, field by field.
LEMMA BindingsAre ==
  ASSUME NEW b
  PROVE  b \in Bindings <=>
           \E s \in {"unbound", "placeholder", "declared"}, t \in AllTypes, l \in Nat, d \in Nat,
              o \in BOOLEAN, p \in BOOLEAN : b = Binding(s, t, l, d, o, p)
BY DEF Bindings, Binding

\* The bindings the code makes.
LEMMA BindingForms ==
  ASSUME NEW t, NEW l, NEW d
  PROVE  /\ NoBinding = Binding("unbound", Unknown, 0, 0, FALSE, FALSE)
         /\ placeholder(l, d) = Binding("placeholder", Unknown, l, d, FALSE, FALSE)
         /\ declared(t, l) = Binding("declared", t, l, l, FALSE, FALSE)
<1> DEFINE u == "unbound"
           z == 0
           b == NoBinding
           f == FALSE
           q == "placeholder"
           e == "declared"
<1>1. b = Binding(u, Unknown, z, z, f, f)
  BY DEF NoBinding, Binding
<1> HIDE DEF u, z, b, f, q, e
<1>2. [b EXCEPT !.status = q, !.bound_at = l, !.declared_at = d]
        = Binding(q, Unknown, l, d, f, f)
  <2> DEFINE c1 == [b EXCEPT !.status = q]
  <2>1. c1 = Binding(q, Unknown, z, z, f, f)
    BY <1>1, StatusEdit
  <2> HIDE DEF c1
  <2> DEFINE c2 == [c1 EXCEPT !.bound_at = l]
  <2>2. c2 = Binding(q, Unknown, l, z, f, f)
    BY <2>1, BoundEdit
  <2> HIDE DEF c2
  <2> DEFINE c3 == [c2 EXCEPT !.declared_at = d]
  <2>3. c3 = Binding(q, Unknown, l, d, f, f)
    BY <2>2, DeclaredEdit
  <2> HIDE DEF c3
  <2>4. [b EXCEPT !.status = q, !.bound_at = l, !.declared_at = d] = c3
    BY DEF c1, c2, c3
  <2> QED
    BY <2>3, <2>4
<1>3. [b EXCEPT !.status = e, !.type = t, !.bound_at = l, !.declared_at = l]
        = Binding(e, t, l, l, f, f)
  <2> DEFINE c1 == [b EXCEPT !.status = e]
  <2>1. c1 = Binding(e, Unknown, z, z, f, f)
    BY <1>1, StatusEdit
  <2> HIDE DEF c1
  <2> DEFINE c2 == [c1 EXCEPT !.type = t]
  <2>2. c2 = Binding(e, t, z, z, f, f)
    BY <2>1, TypeEdit
  <2> HIDE DEF c2
  <2> DEFINE c3 == [c2 EXCEPT !.bound_at = l]
  <2>3. c3 = Binding(e, t, l, z, f, f)
    BY <2>2, BoundEdit
  <2> HIDE DEF c3
  <2> DEFINE c4 == [c3 EXCEPT !.declared_at = l]
  <2>4. c4 = Binding(e, t, l, l, f, f)
    BY <2>3, DeclaredEdit
  <2> HIDE DEF c4
  <2>5. [b EXCEPT !.status = e, !.type = t, !.bound_at = l, !.declared_at = l] = c4
    BY DEF c1, c2, c3, c4
  <2> QED
    BY <2>4, <2>5
<1> QED
  BY <1>1, <1>2, <1>3 DEF u, z, b, f, q, e, placeholder, declared

\* The fields of a binding have their types.
LEMMA BindingIs ==
  ASSUME NEW b \in Bindings
  PROVE  /\ b = Binding(b.status, b.type, b.bound_at, b.declared_at, b.order_exempt, b.partial_none)
         /\ b.status \in {"unbound", "placeholder", "declared"} /\ b.type \in AllTypes
         /\ b.bound_at \in Nat /\ b.declared_at \in Nat
         /\ b.order_exempt \in BOOLEAN /\ b.partial_none \in BOOLEAN
BY DEF Bindings, Binding

State(bindings, narrowings, claims, reported) ==
  [bindings |-> bindings, narrowings |-> narrowings, claims |-> claims, reported |-> reported]

Put(f, x, y) == [f EXCEPT ![x] = y]

\* A function with one value replaced.
LEMMA PutIs ==
  ASSUME NEW S, NEW T, NEW f \in [S -> T], NEW x \in S, NEW y \in T
  PROVE  /\ Put(f, x, y) \in [S -> T] /\ Put(f, x, y)[x] = y
         /\ \A z \in S : z # x => Put(f, x, y)[z] = f[z]
BY DEF Put

SetBinding(st, x, y) == [st EXCEPT !.bindings[x] = y]
SetNarrowings(st, y) == [st EXCEPT !.narrowings = y]
SetClaim(st, x, y) == [st EXCEPT !.claims[x] = y]
Seeded(b, o, p) == [b EXCEPT !.order_exempt = o, !.partial_none = p]

\* The fields of a visit.
LEMMA StateFields ==
  ASSUME NEW st, NEW b, NEW m, NEW c, NEW r, st = State(b, m, c, r)
  PROVE  st.bindings = b /\ st.narrowings = m /\ st.claims = c /\ st.reported = r
BY DEF State

\* A visit with one binding replaced.
LEMMA EditBinding ==
  ASSUME NEW st, NEW b, NEW m, NEW c, NEW r, st = State(b, m, c, r), NEW x, NEW y
  PROVE  SetBinding(st, x, y) = State(Put(b, x, y), m, c, r)
BY DEF State, Put, SetBinding

\* A visit with the narrowings replaced.
LEMMA EditNarrowings ==
  ASSUME NEW st, NEW b, NEW m, NEW c, NEW r, st = State(b, m, c, r), NEW y
  PROVE  SetNarrowings(st, y) = State(b, y, c, r)
BY DEF State, SetNarrowings

\* A visit with one narrowing replaced.
LEMMA EditNarrowing ==
  ASSUME NEW st, NEW b, NEW m, NEW c, NEW r, st = State(b, m, c, r), NEW x, NEW y
  PROVE  Narrowed(st, x, y) = State(b, Put(m, x, y), c, r)
BY DEF State, Put, Narrowed

\* A visit with one narrowing dropped.
LEMMA DropNarrowing ==
  ASSUME NEW st, NEW b, NEW m, NEW c, NEW r, st = State(b, m, c, r), NEW x
  PROVE  redeclare_narrowing(st, x) = State(b, Put(m, x, NoType), c, r)
BY DEF State, Put, redeclare_narrowing

\* A visit with one read typed.
LEMMA EditClaim ==
  ASSUME NEW st, NEW b, NEW m, NEW c, NEW r, st = State(b, m, c, r), NEW x, NEW y
  PROVE  SetClaim(st, x, y) = State(b, m, Put(c, x, y), r)
BY DEF State, Put, SetClaim

\* A visit with one statement reported.
LEMMA EditReported ==
  ASSUME NEW st, NEW b, NEW m, NEW c, NEW r, st = State(b, m, c, r), NEW x
  PROVE  report(st, x) = State(b, m, c, r \union {x})
BY DEF State, report

\* A filled binding.
LEMMA FillIs ==
  ASSUME NEW b, NEW s, NEW t, NEW l, NEW d, NEW o, NEW p, b = Binding(s, t, l, d, o, p), NEW y
  PROVE  fill(b, y) = Binding("declared", y, l, d, o, p)
<1> DEFINE e == "declared"
<1> HIDE DEF e
<1> DEFINE c == [b EXCEPT !.status = e]
<1>1. c = Binding(e, t, l, d, o, p)
  BY StatusEdit
<1> HIDE DEF c
<1>2. [c EXCEPT !.type = y] = Binding(e, y, l, d, o, p)
  BY <1>1, TypeEdit
<1>3. fill(b, y) = [c EXCEPT !.type = y]
  BY DEF fill, e, c
<1> QED
  BY <1>2, <1>3 DEF e

\* A binding as assign_name leaves it.
LEMMA SeededIs ==
  ASSUME NEW b, NEW s, NEW t, NEW l, NEW d, NEW o, NEW p, b = Binding(s, t, l, d, o, p), NEW y, NEW z
  PROVE  Seeded(b, y, z) = Binding(s, t, l, d, y, z)
<1> DEFINE g == [b EXCEPT !.order_exempt = y]
<1>4. g = Binding(s, t, l, d, y, p)
  BY ExemptEdit
<1> HIDE DEF g
<1>5. [g EXCEPT !.partial_none = z] = Binding(s, t, l, d, y, z)
  BY <1>4, PartialEdit
<1>6. Seeded(b, y, z) = [g EXCEPT !.partial_none = z]
  BY DEF Seeded, g
<1> QED
  BY <1>5, <1>6

\* A visit is its four fields.
LEMMA StateIs ==
  ASSUME NEW st \in Visits
  PROVE  st = State(st.bindings, st.narrowings, st.claims, st.reported)
BY DEF State, Visits

-----------------------------------------------------------------------------
(* A whole program whose values are followed.                              *)

Followed == TreeOK /\ SourceOrder /\ WholeProgram /\ decl \in Decls /\ Following

\* What a statement of a body whose values are followed may be.
LEMMA NodeIs ==
  ASSUME Followed, NEW n \in Nodes
  PROVE  /\ n \in Nat /\ n > 0 /\ tree[n].kind \in AllKinds /\ tree[n].kind # "Update"
         /\ tree[n].name \in Names \union {NoName} /\ NoName \notin Names
         /\ tree[n].kind \in {"Assign", "Declare"} => tree[n].name \in Names
         /\ tree[n].kind \in Binders =>
              /\ tree[n].value \in Constants /\ tree[n].value # "unset" /\ tree[n].value # AnyTruth
              /\ type_of_value(n) = of(tree[n].value) /\ type_of_value(n) \in Scalars
              /\ type_of_value(n) \in Known /\ type_of_value(n) # Unknown
              /\ Stored(n) = {tree[n].value}
<1>1. n \in 1..Len(tree) /\ Len(tree) \in Nat /\ tree[n] \in Statements
  BY NodesAre DEF Followed
<1>2. tree[n].kind \in decl.kinds /\ tree[n].name \in NamesFor(tree[n].kind)
      /\ (tree[n].kind \in Binders => tree[n].value \in decl.values)
  BY DEF Followed, SourceOrder
<1>3. decl.values \subseteq Constants /\ AnyTruth \notin decl.values
  BY NarrowingAssumption DEF Followed, Following
<1>4. "Update" \notin decl.kinds
  <2>1. decl.values = {AnyTruth} \/ (AnyTruth \notin decl.values /\ "Update" \notin decl.kinds)
    BY ProgramAssumption DEF Followed
  <2> QED
    BY <1>3, <2>1
<1>5. NoName \notin Names
  BY DeclOK DEF Followed
<1>6. tree[n].kind \in Binders =>
        /\ tree[n].value \in Constants /\ tree[n].value # "unset" /\ tree[n].value # AnyTruth
        /\ type_of_value(n) = of(tree[n].value) /\ Stored(n) = {tree[n].value}
  BY <1>2, <1>3 DEF Constants, AnyTruth, type_of_value, Stored
<1>7. \A k \in Constants : of(k) \in Scalars /\ of(k) \in Known
  BY DEF Scalars, Plain, Known
<1>8. Unknown \notin Scalars
  <2>1. Unknown.kind = "Unknown"
    BY OfIs, FieldsOf DEF Unknown
  <2> QED
    BY <2>1, ScalarIs, PlainKinds
<1>9. tree[n].kind \in {"Assign", "Declare"} => tree[n].name \in Names
  BY <1>2 DEF NamesFor, Stores
<1>10. tree[n].kind \in AllKinds /\ tree[n].name \in Names \union {NoName}
  BY <1>1 DEF Statements
<1>11. tree[n].kind \in Binders => type_of_value(n) \in Scalars /\ type_of_value(n) \in Known /\ type_of_value(n) # Unknown
  BY <1>6, <1>7, <1>8
<1> QED
  BY <1>1, <1>2, <1>4, <1>5, <1>6, <1>9, <1>10, <1>11

\* A binding and a state with types of names only.
FlatBinding(b) == /\ b \in Bindings
                  /\ IF b.status = "declared" THEN b.type \in Known ELSE b.type = Unknown
FlatNarrowings == [Names -> Known \union {NoType}]
Flat(st) == /\ st \in Visits /\ st.narrowings \in FlatNarrowings
            /\ \A x \in Names : FlatBinding(st.bindings[x])

\* The types a name may hold, and the two that stand for none.
LEMMA KnownTypes ==
  /\ Known \subseteq AllTypes /\ Unknown \in AllTypes /\ Unknown \notin Known /\ NoType \notin Known
  /\ Unknown # NoType /\ NoneType \in Known /\ NoneType # Unknown
<1>1. Unknown.kind = "Unknown" /\ NoType.kind = "-"
  BY OfIs, FieldsOf DEF Unknown, NoType
<1>2. \A t \in Known : t \in AllTypes /\ t.kind \in Plain \union {"Union"}
  BY KnownIs
<1>3. "Unknown" \notin Plain \union {"Union"} /\ "-" \notin Plain \union {"Union"}
  BY PlainKinds
<1>4. NoneType \in Known
  BY DEF NoneType, Known, Scalars, Plain, Constants
<1>5. Unknown \in AllTypes
  <2> DEFINE k == "Unknown"
             r == [kind |-> k, name |-> "", args |-> <<>>, defaulted_params |-> 0]
  <2>1. k \in ToSet(Kinds) /\ "" \in TypeNames
    BY KindsAre DEF TypeNames
  <2>2. Unknown = r
    BY OfIs DEF Unknown
  <2> HIDE DEF k
  <2>3. r \in AllTypes
    BY <2>1, TypeIs
  <2> QED
    BY <2>2, <2>3
<1> QED
  BY <1>1, <1>2, <1>3, <1>4, <1>5

\* The parts of a flat visit.
LEMMA FlatIs ==
  ASSUME NEW st, Flat(st)
  PROVE  /\ st = State(st.bindings, st.narrowings, st.claims, st.reported)
         /\ st.bindings \in [Names -> Bindings] /\ st.narrowings \in [Names -> Known \union {NoType}]
         /\ st.claims \in TypesOf(Nodes) /\ st.reported \in SUBSET Nodes
         /\ \A x \in Names : /\ FlatBinding(st.bindings[x]) /\ st.bindings[x] \in Bindings
                             /\ st.narrowings[x] \in Known \union {NoType}
BY StateIs DEF Flat, FlatNarrowings, FlatBinding, Visits

\* What makes a flat visit.
LEMMA FlatState ==
  ASSUME NEW b, NEW m, NEW c \in TypesOf(Nodes), NEW r \in SUBSET Nodes,
         b = [x \in Names |-> b[x]], \A x \in Names : FlatBinding(b[x]),
         m \in [Names -> Known \union {NoType}]
  PROVE  Flat(State(b, m, c, r))
<1>1. b \in [Names -> Bindings]
  BY DEF FlatBinding
<1>2. m \in TypesOf(Names)
  BY KnownTypes DEF TypesOf
<1>3. State(b, m, c, r) \in Visits
  BY <1>1, <1>2 DEF State, Visits
<1>4. State(b, m, c, r).narrowings = m /\ State(b, m, c, r).bindings = b
  BY DEF State
<1> QED
  BY <1>3, <1>4 DEF Flat, FlatNarrowings

\* What makes a flat binding.
LEMMA FlatChoice ==
  ASSUME NEW s \in {"unbound", "placeholder", "declared"}, NEW t, NEW l \in Nat, NEW d \in Nat,
         NEW o \in BOOLEAN, NEW p \in BOOLEAN,
         IF s = "declared" THEN t \in Known ELSE t = Unknown
  PROVE  FlatBinding(Binding(s, t, l, d, o, p))
<1> DEFINE b == Binding(s, t, l, d, o, p)
<1>1. t \in AllTypes
  BY KnownTypes
<1>2. b.status = s /\ b.type = t
  BY BindingFields
<1>3. b \in Bindings
  BY <1>1 DEF Bindings, Binding
<1> QED
  BY <1>2, <1>3 DEF FlatBinding

\* A state with one binding more.
LEMMA FlatRebound ==
  ASSUME NEW st, Flat(st), NEW x \in Names, NEW b, FlatBinding(b),
         NEW m \in [Names -> Known \union {NoType}], NEW c \in TypesOf(Nodes), NEW r \in SUBSET Nodes
  PROVE  Flat(State(Put(st.bindings, x, b), m, c, r))
<1> DEFINE f == Put(st.bindings, x, b)
<1>1. st.bindings \in [Names -> Bindings] /\ \A y \in Names : FlatBinding(st.bindings[y])
  BY FlatIs
<1>2. f = [y \in Names |-> f[y]] /\ \A y \in Names : f[y] = IF y = x THEN b ELSE st.bindings[y]
  BY <1>1 DEF Put
<1>3. \A y \in Names : FlatBinding(f[y])
  BY <1>1, <1>2
<1> HIDE DEF f
<1>4. Flat(State(f, m, c, r))
  BY <1>2, <1>3, FlatState
<1> QED
  BY <1>4 DEF f

\* A flat visit with all but the bindings replaced.
LEMMA FlatChanged ==
  ASSUME NEW st, Flat(st), NEW m \in [Names -> Known \union {NoType}], NEW c \in TypesOf(Nodes),
         NEW r \in SUBSET Nodes
  PROVE  Flat(State(st.bindings, m, c, r))
<1> DEFINE f == st.bindings
<1>1. f \in [Names -> Bindings] /\ \A y \in Names : FlatBinding(f[y])
  BY FlatIs
<1>2. f = [y \in Names |-> f[y]]
  BY <1>1
<1> HIDE DEF f
<1>3. Flat(State(f, m, c, r))
  BY <1>1, <1>2, FlatState
<1> QED
  BY <1>3 DEF f

-----------------------------------------------------------------------------
(* What each statement does by itself.                                     *)

Seeds(type, o) == (type = NoneType /\ ~o)

\* assign_name, case by case.
LEMMA AssignIs ==
  ASSUME Followed, NEW st, Flat(st), NEW n \in Nodes, tree[n].kind \in Binders,
         tree[n].name \in Names, NEW o \in BOOLEAN
  PROVE  LET x == tree[n].name
             type == type_of_value(n)
             b == st.bindings[x]
             with(nb, nm) == State(Put(st.bindings, x, nb), nm, st.claims, st.reported)
             narrowed == Put(st.narrowings, x, type)
         IN assign_name(st, n, o) =
              IF b.status = "unbound"
              THEN with(Binding("declared", type, n, n, o, Seeds(type, o)), st.narrowings)
              ELSE IF fills_placeholder(b, n)
              THEN with(Binding("declared", type, b.bound_at, b.declared_at, o, Seeds(type, o)),
                        st.narrowings)
              ELSE IF b.partial_none /\ type # NoneType
              THEN with(Binding("declared", union_of(<<type, NoneType>>), n, n, FALSE, FALSE), narrowed)
              ELSE IF b.type # Unknown /\ ~is_subtype(type, b.type, NoClasses)
              THEN State(st.bindings, st.narrowings, st.claims,
                         IF n \in hidden THEN st.reported ELSE st.reported \union {n})
              ELSE State(st.bindings, narrowed, st.claims, st.reported)
<1> DEFINE x == tree[n].name
           type == type_of_value(n)
           b == st.bindings[x]
           with(nb, nm) == State(Put(st.bindings, x, nb), nm, st.claims, st.reported)
           narrowed == Put(st.narrowings, x, type)
<1>1. /\ st = State(st.bindings, st.narrowings, st.claims, st.reported)
      /\ b \in Bindings /\ type # Unknown
  BY FlatIs, NodeIs
<1>2. b = Binding(b.status, b.type, b.bound_at, b.declared_at, b.order_exempt, b.partial_none)
  BY <1>1, BindingIs
<1>3. seeds_partial_none(type, o) = Seeds(type, o)
  BY DEF seeds_partial_none, Seeds
<1> DEFINE bound(c) == SetBinding(st, x, Seeded(c, o, Seeds(type, o)))
<1>4. assign_name(st, n, o) =
        IF b.status = "unbound" THEN bound(declared(type, n))
        ELSE IF fills_placeholder(b, n) THEN bound(fill(b, type))
        ELSE IF b.partial_none /\ type \notin {NoneType, Unknown}
        THEN Narrowed(SetBinding(st, x, declared(resolves_partial_none(type), n)), x, type)
        ELSE IF Unknown \notin {type, b.type} /\ ~is_subtype(type, b.type, NoClasses)
        THEN report_suppressible(st, n)
        ELSE Narrowed(st, x, type)
  BY <1>3 DEF assign_name, SetBinding, Seeded
<1>5. bound(declared(type, n)) = with(Binding("declared", type, n, n, o, Seeds(type, o)), st.narrowings)
  <2> DEFINE c == declared(type, n)
             no == FALSE
  <2>1. c = Binding("declared", type, n, n, no, no)
    BY BindingForms
  <2> HIDE DEF c, no
  <2>2. Seeded(c, o, Seeds(type, o)) = Binding("declared", type, n, n, o, Seeds(type, o))
    BY <2>1, SeededIs
  <2> QED
    BY <1>1, <2>2, EditBinding, EditNarrowing, DropNarrowing, EditClaim, EditReported DEF c
<1>6. bound(fill(b, type)) =
        with(Binding("declared", type, b.bound_at, b.declared_at, o, Seeds(type, o)), st.narrowings)
  <2> DEFINE c == fill(b, type)
  <2>1. c = Binding("declared", type, b.bound_at, b.declared_at, b.order_exempt, b.partial_none)
    BY <1>2, FillIs
  <2> HIDE DEF c
  <2>2. Seeded(c, o, Seeds(type, o)) = Binding("declared", type, b.bound_at, b.declared_at, o, Seeds(type, o))
    BY <2>1, SeededIs
  <2> QED
    BY <1>1, <2>2, EditBinding, EditNarrowing, DropNarrowing, EditClaim, EditReported DEF c
<1>7. Narrowed(SetBinding(st, x, declared(resolves_partial_none(type), n)), x, type)
        = with(Binding("declared", union_of(<<type, NoneType>>), n, n, FALSE, FALSE), narrowed)
  <2> DEFINE c == declared(resolves_partial_none(type), n)
             u == SetBinding(st, x, c)
  <2>1. c = Binding("declared", union_of(<<type, NoneType>>), n, n, FALSE, FALSE)
    BY BindingForms DEF resolves_partial_none
  <2> HIDE DEF c
  <2>2. u = State(Put(st.bindings, x, c), st.narrowings, st.claims, st.reported)
    BY <1>1, EditBinding, EditNarrowing, DropNarrowing, EditClaim, EditReported
  <2> HIDE DEF u
  <2>3. Narrowed(u, x, type)
          = State(Put(st.bindings, x, c), narrowed, st.claims, st.reported)
    BY <2>2, EditBinding, EditNarrowing, DropNarrowing, EditClaim, EditReported
  <2> QED
    BY <2>1, <2>3 DEF u, c
<1>8. report_suppressible(st, n) =
        State(st.bindings, st.narrowings, st.claims,
              IF n \in hidden THEN st.reported ELSE st.reported \union {n})
  <2>1. report(st, n) = State(st.bindings, st.narrowings, st.claims, st.reported \union {n})
    BY <1>1, EditBinding, EditNarrowing, DropNarrowing, EditClaim, EditReported
  <2> QED
    BY <1>1, <2>1 DEF report_suppressible, report
<1>9. Narrowed(st, x, type) = State(st.bindings, narrowed, st.claims, st.reported)
  BY <1>1, EditBinding, EditNarrowing, DropNarrowing, EditClaim, EditReported
<1> HIDE DEF bound, with, narrowed, b, type, x
<1>10. (type \notin {NoneType, Unknown} <=> type # NoneType)
       /\ (Unknown \notin {type, b.type} <=> b.type # Unknown)
  BY <1>1
<1> QED
  BY <1>4, <1>5, <1>6, <1>7, <1>8, <1>9, <1>10 DEF with, narrowed, b, type, x

\* Flat narrowings with one replaced.
LEMMA FlatNarrowed ==
  ASSUME NEW st, Flat(st), NEW x \in Names, NEW t \in Known \union {NoType}
  PROVE  Put(st.narrowings, x, t) \in [Names -> Known \union {NoType}]
BY FlatIs, PutIs

\* assign_name leaves a flat visit.
LEMMA FlatAssign ==
  ASSUME Followed, NEW st, Flat(st), NEW n \in Nodes, tree[n].kind \in Binders,
         tree[n].name \in Names, NEW o \in BOOLEAN
  PROVE  Flat(assign_name(st, n, o))
<1> DEFINE x == tree[n].name
           type == type_of_value(n)
           b == st.bindings[x]
           narrowed == Put(st.narrowings, x, type)
           u == union_of(<<type, NoneType>>)
<1>1. /\ type \in Known /\ NoneType \in Known /\ u \in Known /\ n \in Nat
      /\ st.narrowings \in [Names -> Known \union {NoType}] /\ st.claims \in TypesOf(Nodes)
      /\ st.reported \in SUBSET Nodes /\ b \in Bindings /\ x \in Names
  BY NodeIs, KnownTypes, FlatIs, UnionOfTwo
<1>2. narrowed \in [Names -> Known \union {NoType}]
  BY <1>1, FlatNarrowed
<1>3. b.bound_at \in Nat /\ b.declared_at \in Nat /\ Seeds(type, o) \in BOOLEAN
  BY <1>1, BindingIs DEF Seeds
<1> DEFINE b1 == Binding("declared", type, n, n, o, Seeds(type, o))
           b2 == Binding("declared", type, b.bound_at, b.declared_at, o, Seeds(type, o))
           b3 == Binding("declared", u, n, n, FALSE, FALSE)
           r == IF n \in hidden THEN st.reported ELSE st.reported \union {n}
<1>4. FlatBinding(b1) /\ FlatBinding(b2) /\ FlatBinding(b3)
  <2> DEFINE e == "declared"
             no == FALSE
  <2>1. e \in {"unbound", "placeholder", "declared"} /\ e = "declared" /\ no \in BOOLEAN
    OBVIOUS
  <2> HIDE DEF e, no, u, b, type
  <2>2. FlatBinding(Binding(e, type, n, n, o, Seeds(type, o)))
    BY <1>1, <1>3, <2>1, FlatChoice
  <2>3. FlatBinding(Binding(e, type, b.bound_at, b.declared_at, o, Seeds(type, o)))
    BY <1>1, <1>3, <2>1, FlatChoice
  <2>4. FlatBinding(Binding(e, u, n, n, no, no))
    BY <1>1, <1>3, <2>1, FlatChoice
  <2> QED
    BY <2>2, <2>3, <2>4 DEF e, no
<1>5. r \in SUBSET Nodes
  BY <1>1
<1> DEFINE with(nb, nm) == State(Put(st.bindings, x, nb), nm, st.claims, st.reported)
<1>6. assign_name(st, n, o) =
        IF b.status = "unbound" THEN with(b1, st.narrowings)
        ELSE IF fills_placeholder(b, n) THEN with(b2, st.narrowings)
        ELSE IF b.partial_none /\ type # NoneType THEN with(b3, narrowed)
        ELSE IF b.type # Unknown /\ ~is_subtype(type, b.type, NoClasses)
        THEN State(st.bindings, st.narrowings, st.claims, r)
        ELSE State(st.bindings, narrowed, st.claims, st.reported)
  BY AssignIs
<1> HIDE DEF b1, b2, b3, r, narrowed, x, u, b, type
<1>7. Flat(with(b1, st.narrowings)) /\ Flat(with(b2, st.narrowings)) /\ Flat(with(b3, narrowed))
  BY <1>1, <1>2, <1>4, FlatRebound
<1>8. Flat(State(st.bindings, st.narrowings, st.claims, r))
      /\ Flat(State(st.bindings, narrowed, st.claims, st.reported))
  BY <1>1, <1>2, <1>5, FlatChanged
<1> HIDE DEF with
<1> QED
  BY <1>6, <1>7, <1>8

\* An annotated statement binds its name, or it is reported.
LEMMA DeclareIs ==
  ASSUME Followed, NEW st, Flat(st), NEW n \in Nodes, tree[n].kind = "Declare"
  PROVE  LET x == tree[n].name
             b == st.bindings[x]
             fills == InFunction /\ b.status = "placeholder" /\ b.declared_at = n /\ ~b.order_exempt
             kept == ~InFunction /\ b.declared_at = n
         IN redeclare_narrowing(bind_annotation(st, n), x) =
              State(IF fills THEN Put(st.bindings, x,
                                         Binding("declared", Object, b.bound_at, b.declared_at,
                                                 b.order_exempt, b.partial_none))
                    ELSE st.bindings,
                    Put(st.narrowings, x, NoType), st.claims,
                    IF fills \/ kept THEN st.reported ELSE st.reported \union {n})
<1> DEFINE x == tree[n].name
           b == st.bindings[x]
           fills == InFunction /\ b.status = "placeholder" /\ b.declared_at = n /\ ~b.order_exempt
           kept == ~InFunction /\ b.declared_at = n
           nb == Binding("declared", Object, b.bound_at, b.declared_at, b.order_exempt, b.partial_none)
           none == Put(st.narrowings, x, NoType)
<1>1. /\ st = State(st.bindings, st.narrowings, st.claims, st.reported)
      /\ b \in Bindings /\ x \in Names
  BY FlatIs, NodeIs
<1>2. b = Binding(b.status, b.type, b.bound_at, b.declared_at, b.order_exempt, b.partial_none)
  BY <1>1, BindingIs
<1>3. fill(b, Annotation) = nb
  BY <1>2, FillIs DEF Annotation
<1>4. InFunction \in BOOLEAN
  BY DeclOK DEF Followed
<1>5. bind_annotation(st, n) = IF fills THEN SetBinding(st, x, fill(b, Annotation))
                               ELSE IF kept THEN st ELSE report(st, n)
  BY <1>4 DEF bind_annotation, has_prior_definition, SetBinding
<1> DEFINE s == bind_annotation(st, n)
           sb == IF fills THEN Put(st.bindings, x, nb) ELSE st.bindings
           sr == IF fills \/ kept THEN st.reported ELSE st.reported \union {n}
<1>6. s = State(sb, st.narrowings, st.claims, sr)
  <2>1. CASE fills
    <3> HIDE DEF nb, b, fills
    <3>1. s = SetBinding(st, x, nb)
      BY <1>3, <1>5, <2>1
    <3>2. SetBinding(st, x, nb) = State(Put(st.bindings, x, nb), st.narrowings, st.claims, st.reported)
      BY <1>1, EditBinding, EditNarrowing, DropNarrowing, EditClaim, EditReported
    <3> QED
      BY <2>1, <3>1, <3>2
  <2>2. CASE ~fills
    <3>1. report(st, n) = State(st.bindings, st.narrowings, st.claims, st.reported \union {n})
      BY <1>1, EditBinding, EditNarrowing, DropNarrowing, EditClaim, EditReported
    <3> HIDE DEF fills, kept
    <3> QED
      BY <1>1, <1>5, <2>2, <3>1
  <2> QED
    BY <2>1, <2>2
<1> HIDE DEF s, sb, sr
<1>7. redeclare_narrowing(s, x) = State(sb, none, st.claims, sr)
  BY <1>6, EditBinding, EditNarrowing, DropNarrowing, EditClaim, EditReported
<1> QED
  BY <1>7 DEF s, sb, sr

\* An annotated declaration leaves a flat visit.
LEMMA FlatDeclare ==
  ASSUME Followed, NEW st, Flat(st), NEW n \in Nodes, tree[n].kind = "Declare"
  PROVE  Flat(redeclare_narrowing(bind_annotation(st, n), tree[n].name))
<1> DEFINE x == tree[n].name
           b == st.bindings[x]
           fills == InFunction /\ b.status = "placeholder" /\ b.declared_at = n /\ ~b.order_exempt
           kept == ~InFunction /\ b.declared_at = n
           nb == Binding("declared", Object, b.bound_at, b.declared_at, b.order_exempt, b.partial_none)
           none == Put(st.narrowings, x, NoType)
           r == IF fills \/ kept THEN st.reported ELSE st.reported \union {n}
<1>1. /\ x \in Names /\ b \in Bindings /\ st.claims \in TypesOf(Nodes) /\ st.reported \in SUBSET Nodes
      /\ r \in SUBSET Nodes
  BY NodeIs, FlatIs
<1>2. none \in [Names -> Known \union {NoType}]
  BY <1>1, FlatNarrowed
<1>3. FlatBinding(nb)
  <2> DEFINE e == "declared"
  <2>1. e \in {"unbound", "placeholder", "declared"} /\ e = "declared" /\ Object \in Known
    BY ObjectIs
  <2>2. b.bound_at \in Nat /\ b.declared_at \in Nat /\ b.order_exempt \in BOOLEAN /\ b.partial_none \in BOOLEAN
    BY <1>1, BindingIs
  <2> HIDE DEF e, b
  <2>3. FlatBinding(Binding(e, Object, b.bound_at, b.declared_at, b.order_exempt, b.partial_none))
    BY <2>1, <2>2, FlatChoice
  <2> QED
    BY <2>3 DEF e
<1>4. redeclare_narrowing(bind_annotation(st, n), x) =
        State(IF fills THEN Put(st.bindings, x, nb) ELSE st.bindings, none, st.claims, r)
  BY DeclareIs
<1> HIDE DEF nb, none, r, fills, x
<1>5. Flat(State(Put(st.bindings, x, nb), none, st.claims, r))
  BY <1>1, <1>2, <1>3, FlatRebound
<1>6. Flat(State(st.bindings, none, st.claims, r))
  BY <1>1, <1>2, FlatChanged
<1> QED
  BY <1>4, <1>5, <1>6 DEF x

\* A read is reported or typed.
Unreadable(st, n) ==
  LET b == st.bindings[tree[n].name] IN b.status = "unbound" \/ (~b.order_exempt /\ b.bound_at >= n)

\* type_of_name, case by case.
LEMMA ReadIs ==
  ASSUME Followed, NEW st, Flat(st), NEW n \in Nodes
  PROVE  LET x == tree[n].name
         IN type_of_name(st, n) =
              IF x = NoName THEN st
              ELSE IF Unreadable(st, n)
              THEN State(st.bindings, st.narrowings, st.claims, st.reported \union {n})
              ELSE State(st.bindings, st.narrowings,
                         Put(st.claims, n, current_type(st.narrowings, st.bindings, x)),
                         st.reported)
<1>1. st = State(st.bindings, st.narrowings, st.claims, st.reported)
  BY FlatIs
<1>2. report(st, n) = State(st.bindings, st.narrowings, st.claims, st.reported \union {n})
  BY <1>1, EditBinding, EditNarrowing, DropNarrowing, EditClaim, EditReported
<1>3. \A y : SetClaim(st, n, y) = State(st.bindings, st.narrowings, Put(st.claims, n, y), st.reported)
  BY <1>1, EditBinding, EditNarrowing, DropNarrowing, EditClaim, EditReported
<1> QED
  BY <1>2, <1>3 DEF type_of_name, SetClaim, Unreadable

\* A read leaves a flat visit.
LEMMA FlatRead ==
  ASSUME Followed, NEW st, Flat(st), NEW n \in Nodes
  PROVE  Flat(type_of_name(st, n))
<1> DEFINE x == tree[n].name
           t == current_type(st.narrowings, st.bindings, x)
           c == Put(st.claims, n, t)
           r == st.reported \union {n}
<1>1. CASE x = NoName
  BY <1>1, ReadIs
<1>2. CASE x # NoName
  <2>1. x \in Names
    BY <1>2, NodeIs
  <2>2. st.claims \in TypesOf(Nodes) /\ st.reported \in SUBSET Nodes
        /\ st.narrowings \in [Names -> Known \union {NoType}]
    BY FlatIs
  <2>3. t \in AllTypes
    <3>1. st.narrowings[x] \in Known \union {NoType} /\ st.bindings[x] \in Bindings
      BY <2>1, FlatIs
    <3> QED
      BY <3>1, KnownTypes, BindingIs DEF current_type
  <2> HIDE DEF t
  <2>4. c \in TypesOf(Nodes) /\ r \in SUBSET Nodes
    BY <2>2, <2>3 DEF TypesOf, Put
  <2> HIDE DEF c, r
  <2>5. Flat(State(st.bindings, st.narrowings, st.claims, r))
        /\ Flat(State(st.bindings, st.narrowings, c, st.reported))
    BY <2>2, <2>4, FlatChanged
  <2> QED
    BY <1>2, <2>5, ReadIs DEF c, r, t
<1> QED
  BY <1>1, <1>2

-----------------------------------------------------------------------------
(* Joins.                                                                  *)

\* Unknown takes and is taken by every type.
LEMMA UnknownAdmits ==
  ASSUME NEW s, NEW t, s = Unknown \/ t = Unknown
  PROVE  is_subtype(s, t, NoClasses)
<1>1. Unknown.kind = "Unknown"
  BY OfIs, FieldsOf DEF Unknown
<1> QED
  BY <1>1 DEF is_subtype, subtype_rule

\* Both edges, or the one that comes out.
Edges(edges) == \E a \in FlatNarrowings, b \in FlatNarrowings : edges \in {<<a, b>>, <<a>>, <<b>>}

\* The join of one or two types covers them.
LEMMA JoinOfTypes ==
  ASSUME NEW cur, NEW a \in Known, NEW b \in Known, cur \in {<<a>>, <<a, b>>}
  PROVE  LET t == collapse_object_union(union_of(cur))
         IN t \in Known /\ \A i \in DOMAIN cur : Covers(t, cur[i])
<1> DEFINE u == union_of(cur)
           t == collapse_object_union(u)
<1>1. u \in Known /\ \A i \in DOMAIN cur : cur[i] \in Known /\ Members(cur[i]) \subseteq Members(u)
  <2>1. CASE cur = <<a>>
    <3>1. DOMAIN cur = {1} /\ cur[1] = a
      BY <2>1
    <3> QED
      BY <2>1, <3>1, UnionOfOne
  <2>2. CASE cur = <<a, b>>
    <3>1. DOMAIN cur = {1, 2} /\ cur[1] = a /\ cur[2] = b
      BY <2>2
    <3> QED
      BY <2>2, <3>1, UnionOfTwo
  <2> QED
    BY <2>1, <2>2
<1>2. \A i \in DOMAIN cur : Covers(u, cur[i])
  BY <1>1, CoversItself DEF Covers
<1>3. u \in Known /\ \A i \in DOMAIN cur : cur[i] \in Known /\ Covers(u, cur[i])
  BY <1>1, <1>2
<1> HIDE DEF u
<1>4. t \in Known /\ \A i \in DOMAIN cur : Covers(t, cur[i])
  BY <1>3, Collapsed
<1> QED
  BY <1>4 DEF u

\* The join of narrowings covers what every edge takes the name to hold.
LEMMA JoinIs ==
  ASSUME NEW edges, Edges(edges), NEW bindings, NEW x \in Names, FlatBinding(bindings[x])
  PROVE  LET j == join_narrowings(edges, bindings)
         IN /\ j[x] \in Known \union {NoType}
            /\ bindings[x].status # "declared" => j[x] = NoType
            /\ bindings[x].status = "declared" =>
                 \A i \in DOMAIN edges :
                   /\ current_type(edges[i], bindings, x) \in Known
                   /\ current_type(j, bindings, x) \in Known
                   /\ Covers(current_type(j, bindings, x), current_type(edges[i], bindings, x))
<1> DEFINE b == bindings[x]
           j == join_narrowings(edges, bindings)
           ct(i) == current_type(edges[i], bindings, x)
           cur == [i \in DOMAIN edges |-> ct(i)]
           t == collapse_object_union(union_of(cur))
           narrowed == /\ \E i \in DOMAIN edges : edges[i][x] # NoType
                       /\ b.status # "unbound"
                       /\ ~is_equivalent(t, b.type, NoClasses)
<1>1. j[x] = IF narrowed THEN t ELSE NoType
  BY DEF join_narrowings
<1>2. b \in Bindings /\ (b.status = "declared" => b.type \in Known)
      /\ (b.status # "declared" => b.type = Unknown)
  BY DEF FlatBinding
<1> HIDE DEF j, t, narrowed
<1>3. CASE b.status # "declared"
  <2>1. b.type = Unknown
    BY <1>2, <1>3
  <2>2. is_equivalent(t, b.type, NoClasses)
    BY <2>1, UnknownAdmits DEF is_equivalent
  <2> QED
    BY <1>1, <1>3, <2>2 DEF narrowed, j
<1>4. CASE b.status = "declared"
  <2>1. PICK c \in FlatNarrowings, d \in FlatNarrowings : edges \in {<<c, d>>, <<c>>, <<d>>}
    BY DEF Edges
  <2>2. c[x] \in Known \union {NoType} /\ d[x] \in Known \union {NoType}
    BY DEF FlatNarrowings
  <2> DEFINE p == current_type(c, bindings, x)
             q == current_type(d, bindings, x)
  <2>3. p \in Known /\ q \in Known
    BY <1>2, <1>4, <2>2 DEF current_type
  <2>4. cur \in {<<p, q>>, <<p>>, <<q>>} /\ DOMAIN cur = DOMAIN edges
        /\ \A i \in DOMAIN edges : cur[i] = ct(i)
    <3>1. CASE edges = <<c, d>>
      <4>1. DOMAIN edges = 1..2 /\ edges[1] = c /\ edges[2] = d
        BY <3>1
      <4>2. cur = [i \in 1..2 |-> IF i = 1 THEN p ELSE q]
        BY <4>1
      <4>3. <<p, q>> = [i \in 1..2 |-> IF i = 1 THEN p ELSE q]
        OBVIOUS
      <4> QED
        BY <4>1, <4>2, <4>3
    <3>2. CASE edges = <<c>>
      <4>1. DOMAIN edges = 1..1 /\ edges[1] = c
        BY <3>2
      <4>2. cur = [i \in 1..1 |-> p]
        BY <4>1
      <4>3. <<p>> = [i \in 1..1 |-> p]
        OBVIOUS
      <4> QED
        BY <4>1, <4>2, <4>3
    <3>3. CASE edges = <<d>>
      <4>1. DOMAIN edges = 1..1 /\ edges[1] = d
        BY <3>3
      <4>2. cur = [i \in 1..1 |-> q]
        BY <4>1
      <4>3. <<q>> = [i \in 1..1 |-> q]
        OBVIOUS
      <4> QED
        BY <4>1, <4>2, <4>3
    <3> QED
      BY <2>1, <3>1, <3>2, <3>3
  <2> HIDE DEF cur, p, q
  <2>5. t \in Known /\ \A i \in DOMAIN cur : Covers(t, cur[i])
    BY <2>3, <2>4, JoinOfTypes DEF t
  <2>6. \A i \in DOMAIN edges : ct(i) \in Known /\ Covers(t, ct(i))
    <3>1. \A i \in DOMAIN edges : edges[i] \in {c, d}
      BY <2>1
    <3>2. \A i \in DOMAIN edges : ct(i) \in {p, q}
      BY <3>1 DEF p, q
    <3> QED
      BY <2>3, <2>4, <2>5, <3>2
  <2>7. CASE narrowed
    <3>1. j[x] = t /\ t # NoType
      BY <1>1, <2>5, <2>7, KnownTypes
    <3>2. current_type(j, bindings, x) = t
      BY <3>1 DEF current_type
    <3> QED
      BY <1>4, <2>5, <2>6, <3>1, <3>2 DEF j
  <2>8. CASE ~narrowed
    <3>1. j[x] = NoType
      BY <1>1, <2>8
    <3>2. current_type(j, bindings, x) = b.type /\ b.type \in Known
      BY <1>2, <1>4, <3>1 DEF current_type
    <3>3. \A i \in DOMAIN edges : Covers(b.type, ct(i))
      <4>1. CASE \A i \in DOMAIN edges : edges[i][x] = NoType
        BY <4>1, CoversItself DEF current_type
      <4>2. CASE is_equivalent(t, b.type, NoClasses)
        <5>1. Covers(b.type, t)
          BY <2>5, <3>2, <4>2, KnownSubtype DEF is_equivalent
        <5> QED
          BY <2>5, <2>6, <3>2, <5>1, CoversTransitive
      <4> QED
        BY <1>4, <2>8, <4>1, <4>2 DEF narrowed
    <3> QED
      BY <1>4, <2>6, <3>1, <3>2, <3>3 DEF j
  <2> QED
    BY <2>7, <2>8
<1> QED
  BY <1>3, <1>4

\* A join leaves flat narrowings.
LEMMA JoinFlat ==
  ASSUME NEW edges, Edges(edges), NEW st, Flat(st)
  PROVE  join_narrowings(edges, st.bindings) \in FlatNarrowings
<1> DEFINE j == join_narrowings(edges, st.bindings)
<1>1. \A x \in Names : j[x] \in Known \union {NoType}
  BY JoinIs DEF Flat
<1>2. j = [x \in Names |-> j[x]]
  BY DEF join_narrowings
<1> HIDE DEF j
<1>3. j \in [Names -> Known \union {NoType}]
  BY <1>1, <1>2
<1> QED
  BY <1>3 DEF j, FlatNarrowings

-----------------------------------------------------------------------------
(* The visit as a walk from line to line.                                  *)

\* What the visit of a statement does before it looks inside.
Own(st, n, ignored) ==
  IF n \in ignored THEN st
  ELSE IF tree[n].kind = "Assign" THEN assign_name(st, n, FALSE)
  ELSE IF tree[n].kind = "Declare" THEN redeclare_narrowing(bind_annotation(st, n), tree[n].name)
  ELSE IF tree[n].kind = "Expr" THEN type_of_name(st, n)
  ELSE TargetBound(st, n)

\* What the visit of a statement does itself leaves a flat visit.
LEMMA FlatOwn ==
  ASSUME Followed, NEW st, Flat(st), NEW n \in Nodes, NEW ignored
  PROVE  Flat(Own(st, n, ignored))
<1>1. tree[n].kind \in {"Assign", "Declare"} => tree[n].name \in Names
  BY NodeIs
<1>2. CASE n \in ignored
  BY <1>2 DEF Own
<1>3. CASE n \notin ignored /\ tree[n].kind = "Assign"
  <2>1. tree[n].kind \in Binders
    BY <1>3 DEF Binders, Stores
  <2> DEFINE no == FALSE
  <2>2. no \in BOOLEAN
    OBVIOUS
  <2> HIDE DEF no
  <2>3. Flat(assign_name(st, n, no))
    BY <1>1, <1>3, <2>1, <2>2, FlatAssign
  <2> QED
    BY <1>3, <2>3 DEF Own, no
<1>4. CASE n \notin ignored /\ tree[n].kind = "Declare"
  BY <1>4, FlatDeclare DEF Own
<1>5. CASE n \notin ignored /\ tree[n].kind = "Expr"
  BY <1>5, FlatRead DEF Own
<1>6. CASE n \notin ignored /\ tree[n].kind \notin {"Assign", "Declare", "Expr"}
  <2>1. Own(st, n, ignored) = TargetBound(st, n)
    BY <1>6 DEF Own
  <2>2. CASE tree[n].kind = "For" /\ tree[n].name # NoName
    <3>1. tree[n].kind \in Binders /\ tree[n].name \in Names
      BY <2>2, NodeIs DEF Binders
    <3> DEFINE yes == TRUE
    <3>2. yes \in BOOLEAN
      OBVIOUS
    <3> HIDE DEF yes
    <3>3. Flat(assign_name(st, n, yes))
      BY <3>1, <3>2, FlatAssign
    <3> QED
      BY <2>1, <2>2, <3>3 DEF TargetBound, yes
  <2>3. CASE ~(tree[n].kind = "For" /\ tree[n].name # NoName)
    BY <2>1, <2>3 DEF TargetBound
  <2> QED
    BY <2>2, <2>3
<1> QED
  BY <1>2, <1>3, <1>4, <1>5, <1>6

\* Two visits of the body, in step: R[k] holds of the pair of states in front of line k.
PlainOnly(ignored) == \A n \in Nodes : n \in ignored => tree[n].kind \notin Compound
InStep(R, ig1, ig2) ==
  /\ \A k \in Nat : \A s, t : <<s, t>> \in R[k] => Flat(s) /\ Flat(t)
  /\ \A n \in Nodes : \A s, t : <<s, t>> \in R[n] => <<Own(s, n, ig1), Own(t, n, ig2)>> \in R[n + 1]
  /\ \A k \in Nat : \A s, t : <<s, t>> \in R[k] =>
       \A m1 \in FlatNarrowings : \A m2 \in FlatNarrowings :
         <<SetNarrowings(s, m1), SetNarrowings(t, m2)>> \in R[k]

\* Replacing narrowings keeps two visits in step.
LEMMA NarrowsInStep ==
  ASSUME NEW R, NEW ig1, NEW ig2, InStep(R, ig1, ig2), NEW k \in Nat, NEW s, NEW t, <<s, t>> \in R[k],
         NEW m1 \in FlatNarrowings, NEW m2 \in FlatNarrowings
  PROVE  <<SetNarrowings(s, m1), SetNarrowings(t, m2)>> \in R[k]
<1>1. \A n1 \in FlatNarrowings : \A n2 \in FlatNarrowings :
        <<SetNarrowings(s, n1), SetNarrowings(t, n2)>> \in R[k]
  BY DEF InStep
<1> QED
  BY <1>1

Walked(R, w1, w2, n) == \A s, t : <<s, t>> \in R[n] => <<w1[n][s], w2[n][t]>> \in R[End(n)]

\* Where statements end is a line.
LEMMA EndIs ==
  ASSUME Followed, NEW n \in Nodes
  PROVE  /\ n \in Nat /\ n + 1 \in Nat /\ End(n) \in Nat /\ Behind(n) \in Nat
<1>1. TreeOK /\ SourceOrder
  BY DEF Followed
<1>2. Len(tree) \in Nat /\ n \in Nat
  BY <1>1, NodesAre
<1>3. End(n) \in (n + 1)..(Len(tree) + 1) /\ Behind(n) \in (n + 1)..(Len(tree) + 1)
  BY <1>1, StretchIs, InsideIs
<1> QED
  BY <1>2, <1>3

\* A join keeps two visits in step.
LEMMA JoinsInStep ==
  ASSUME NEW R, NEW ig1, NEW ig2, InStep(R, ig1, ig2), NEW k \in Nat, NEW s, NEW t, <<s, t>> \in R[k],
         NEW e1, NEW e2, Edges(e1), Edges(e2)
  PROVE  <<Joined(s, e1), Joined(t, e2)>> \in R[k]
<1>1. Flat(s) /\ Flat(t)
  BY DEF InStep
<1> DEFINE m1 == join_narrowings(e1, s.bindings)
           m2 == join_narrowings(e2, t.bindings)
<1>2. m1 \in FlatNarrowings /\ m2 \in FlatNarrowings
  BY <1>1, JoinFlat
<1>3. Joined(s, e1) = SetNarrowings(s, m1) /\ Joined(t, e2) = SetNarrowings(t, m2)
  BY DEF Joined, SetNarrowings
<1> HIDE DEF m1, m2
<1>4. <<SetNarrowings(s, m1), SetNarrowings(t, m2)>> \in R[k]
  BY <1>2, NarrowsInStep
<1> QED
  BY <1>3, <1>4

\* The check of a suite keeps two visits in step.
LEMMA SuiteInStep ==
  ASSUME Followed, NEW R, NEW w1, NEW w2, NEW n \in Nodes, NEW a,
         \A k \in Nodes : k > n => Walked(R, w1, w2, k),
         NEW s, NEW t, NEW from \in Nat, NEW to \in Nat, <<s, t>> \in R[from],
         Suite(tree, n, a) = {} => to = from,
         Suite(tree, n, a) # {} => FirstOf(Suite(tree, n, a)) = from /\ End(from) = to
  PROVE  <<check_suite(w1, s, n, a), check_suite(w2, t, n, a)>> \in R[to]
<1>1. CASE Suite(tree, n, a) = {}
  BY <1>1 DEF check_suite
<1>2. CASE Suite(tree, n, a) # {}
  <2>1. TreeOK
    BY DEF Followed
  <2>2. from \in Nodes /\ n < from /\ n \in Nat /\ from \in Nat
    BY <1>2, <2>1, FirstOfArm, NodesAre
  <2>3. Walked(R, w1, w2, from)
    BY <2>2
  <2>4. check_suite(w1, s, n, a) = w1[from][s] /\ check_suite(w2, t, n, a) = w2[from][t]
    BY <1>2 DEF check_suite
  <2> QED
    BY <1>2, <2>3, <2>4 DEF Walked
<1> QED
  BY <1>1, <1>2

\* The visit of a statement keeps two visits in step.
LEMMA VisitInStep ==
  ASSUME Followed, NEW R, NEW ig1, NEW ig2, InStep(R, ig1, ig2), PlainOnly(ig1), PlainOnly(ig2),
         NEW w1, NEW w2, NEW n \in Nodes, \A k \in Nodes : k > n => Walked(R, w1, w2, k),
         NEW s, NEW t, <<s, t>> \in R[n]
  PROVE  <<visit(w1, s, n, ig1), visit(w2, t, n, ig2)>> \in R[Behind(n)]
<1> DEFINE body == Suite(tree, n, "body")
           orelse == Suite(tree, n, "orelse")
<1>1. TreeOK /\ SourceOrder /\ WholeProgram
  BY DEF Followed
<1>2. n \in Nat /\ n + 1 \in Nat /\ Behind(n) \in Nat
  BY EndIs
<1>3. <<Own(s, n, ig1), Own(t, n, ig2)>> \in R[n + 1]
  BY DEF InStep
<1>4. \A k \in Nat : \A p, q : <<p, q>> \in R[k] => p.narrowings \in FlatNarrowings /\ q.narrowings \in FlatNarrowings
  BY DEF InStep, Flat
<1>5. CASE tree[n].kind \notin Compound
  <2>1. Behind(n) = n + 1
    BY <1>1, <1>5, EndOfPlain
  <2>2. \A w, st, ig : visit(w, st, n, ig) = Own(st, n, ig)
    BY <1>5 DEF visit, Own, TargetBound, Compound, Loops
  <2> QED
    BY <1>3, <2>1, <2>2
<1>6. CASE tree[n].kind \in Compound
  <2>1. n \notin ig1 /\ n \notin ig2
    BY <1>6 DEF PlainOnly
  <2>2. /\ body # {} /\ FirstOf(body) = n + 1 /\ n + 1 \in Nodes
        /\ orelse = {} => End(n + 1) = Behind(n)
        /\ orelse # {} => End(n + 1) = FirstOf(orelse) /\ End(FirstOf(orelse)) = Behind(n)
    <3>1. body # {} /\ FirstOf(body) = n + 1
      BY <1>1, <1>6, EndOfCompound
    <3>2. FirstOf(body) \in Nodes
      BY <1>1, <3>1, FirstOfArm
    <3>3. /\ orelse = {} => End(FirstOf(body)) = Behind(n)
          /\ orelse # {} => End(FirstOf(body)) = FirstOf(orelse) /\ End(FirstOf(orelse)) = Behind(n)
      BY <1>1, <1>6, EndOfCompound
    <3> QED
      BY <3>1, <3>2, <3>3
  <2>3. End(n + 1) \in Nat
    BY <2>2, EndIs
  <2>4. ASSUME NEW p, NEW q, <<p, q>> \in R[n + 1]
        PROVE  <<check_suite(w1, p, n, "body"), check_suite(w2, q, n, "body")>> \in R[End(n + 1)]
    BY <1>2, <2>2, <2>3, <2>4, SuiteInStep
  <2>5. ASSUME NEW p, NEW q, <<p, q>> \in R[End(n + 1)]
        PROVE  <<check_suite(w1, p, n, "orelse"), check_suite(w2, q, n, "orelse")>> \in R[Behind(n)]
    <3> DEFINE from == End(n + 1)
    <3>1. /\ orelse = {} => Behind(n) = from
          /\ orelse # {} => FirstOf(orelse) = from /\ End(from) = Behind(n)
      BY <2>2
    <3> HIDE DEF from
    <3>2. from \in Nat /\ <<p, q>> \in R[from]
      BY <2>3, <2>5 DEF from
    <3> QED
      BY <1>2, <3>1, <3>2, SuiteInStep
  <2>6. CASE tree[n].kind = "If"
    <3> DEFINE b1 == check_suite(w1, s, n, "body")
               b2 == check_suite(w2, t, n, "body")
               c1 == SetNarrowings(b1, s.narrowings)
               c2 == SetNarrowings(b2, t.narrowings)
               o1 == check_suite(w1, c1, n, "orelse")
               o2 == check_suite(w2, c2, n, "orelse")
               e1 == EdgesOf(n, b1.narrowings, o1.narrowings)
               e2 == EdgesOf(n, b2.narrowings, o2.narrowings)
    <3>1. Own(s, n, ig1) = s /\ Own(t, n, ig2) = t
      BY <2>1, <2>6 DEF Own, TargetBound
    <3>2. <<b1, b2>> \in R[End(n + 1)]
      BY <1>3, <2>4, <3>1
    <3>3. visit(w1, s, n, ig1) = Joined(o1, e1) /\ visit(w2, t, n, ig2) = Joined(o2, e2)
      BY <2>1, <2>6 DEF visit, visit_if, SetNarrowings, Loops
    <3>4. s.narrowings \in FlatNarrowings /\ t.narrowings \in FlatNarrowings
      BY <1>2, <1>4
    <3> HIDE DEF b1, b2
    <3>5. <<c1, c2>> \in R[End(n + 1)]
      BY <2>3, <3>2, <3>4, NarrowsInStep
    <3> HIDE DEF c1, c2
    <3>6. <<o1, o2>> \in R[Behind(n)]
      BY <2>5, <3>5
    <3> HIDE DEF o1, o2
    <3>7. b1.narrowings \in FlatNarrowings /\ b2.narrowings \in FlatNarrowings
          /\ o1.narrowings \in FlatNarrowings /\ o2.narrowings \in FlatNarrowings
      BY <1>2, <1>4, <2>3, <3>2, <3>6
    <3>8. Edges(e1) /\ Edges(e2)
      BY <3>7 DEF Edges, EdgesOf
    <3> HIDE DEF e1, e2
    <3>9. <<Joined(o1, e1), Joined(o2, e2)>> \in R[Behind(n)]
      BY <1>2, <3>6, <3>8, JoinsInStep
    <3> QED
      BY <3>3, <3>9
  <2>7. CASE tree[n].kind \in Loops
    <3> DEFINE t1 == TargetBound(s, n)
               t2 == TargetBound(t, n)
               b1 == check_suite(w1, t1, n, "body")
               b2 == check_suite(w2, t2, n, "body")
               e1 == <<s.narrowings, b1.narrowings>>
               e2 == <<t.narrowings, b2.narrowings>>
               j1 == Joined(b1, e1)
               j2 == Joined(b2, e2)
    <3>1. Own(s, n, ig1) = t1 /\ Own(t, n, ig2) = t2
      BY <2>1, <2>7 DEF Own, Loops
    <3>2. <<b1, b2>> \in R[End(n + 1)]
      BY <1>3, <2>4, <3>1
    <3>3. /\ visit(w1, s, n, ig1) = check_suite(w1, j1, n, "orelse")
          /\ visit(w2, t, n, ig2) = check_suite(w2, j2, n, "orelse")
      BY <2>1, <2>7 DEF visit, visit_loop, Loops
    <3> HIDE DEF t1, t2, b1, b2
    <3>4. s.narrowings \in FlatNarrowings /\ t.narrowings \in FlatNarrowings
          /\ b1.narrowings \in FlatNarrowings /\ b2.narrowings \in FlatNarrowings
      BY <1>2, <1>4, <2>3, <3>2
    <3>5. Edges(e1) /\ Edges(e2)
      BY <3>4 DEF Edges
    <3> HIDE DEF e1, e2
    <3>6. <<j1, j2>> \in R[End(n + 1)]
      BY <2>3, <3>2, <3>5, JoinsInStep
    <3> HIDE DEF j1, j2
    <3> QED
      BY <2>5, <3>3, <3>6
  <2> QED
    BY <1>6, <2>6, <2>7 DEF Compound
<1> QED
  BY <1>5, <1>6

\* Every visit keeps two visits in step, to the end of the suite.
LEMMA WalksInStep ==
  ASSUME Followed, NEW R, NEW ig1, NEW ig2, InStep(R, ig1, ig2), PlainOnly(ig1), PlainOnly(ig2)
  PROVE  \A n \in Nodes : Walked(R, VisitsOf(ig1), VisitsOf(ig2), n)
<1> DEFINE w1 == VisitsOf(ig1)
           w2 == VisitsOf(ig2)
           T == {n \in Nodes : Walked(R, w1, w2, n)}
<1>1. TreeOK /\ SourceOrder /\ Len(tree) \in Nat /\ Nodes = 1..Len(tree)
  BY NodesAre DEF Followed
<1>2. \A n \in Nodes : \A st : Flat(st) =>
        w1[n][st] = VisitFrom(w1, st, n, ig1) /\ w2[n][st] = VisitFrom(w2, st, n, ig2)
  BY <1>1, VisitsAre DEF Flat
<1> HIDE DEF w1, w2
<1>3. ASSUME NEW n \in Nodes, \A k \in Nodes : n < k => k \in T PROVE n \in T
  <2>1. \A k \in Nodes : k > n => Walked(R, w1, w2, k)
    BY <1>1, <1>3
  <2> SUFFICES ASSUME NEW s, NEW t, <<s, t>> \in R[n] PROVE <<w1[n][s], w2[n][t]>> \in R[End(n)]
    BY DEF Walked
  <2> DEFINE a1 == visit(w1, s, n, ig1)
             a2 == visit(w2, t, n, ig2)
             later == Later(tree, n)
             l == FirstOf(later)
             r1 == IF later = {} THEN a1 ELSE w1[l][a1]
             r2 == IF later = {} THEN a2 ELSE w2[l][a2]
             leaves == answer[n].leaves[Place(InLoopBody(n), NoName)]
  <2>2. n \in Nat /\ End(n) \in Nat /\ Behind(n) \in Nat
    BY EndIs
  <2>3. Flat(s) /\ Flat(t)
    BY <2>2 DEF InStep
  <2>4. <<a1, a2>> \in R[Behind(n)]
    BY <2>1, VisitInStep
  <2>5. /\ w1[n][s] = IF leaves THEN SetNarrowings(r1, a1.narrowings) ELSE r1
        /\ w2[n][t] = IF leaves THEN SetNarrowings(r2, a2.narrowings) ELSE r2
    BY <1>2, <2>3 DEF VisitFrom, SetNarrowings
  <2> HIDE DEF a1, a2
  <2>6. <<r1, r2>> \in R[End(n)]
    <3>1. CASE later = {}
      BY <1>1, <2>4, <3>1, EndOfLast
    <3>2. CASE later # {}
      <4>1. Behind(n) = l /\ End(n) = End(l)
        BY <1>1, <3>2, EndOfEarlier
      <4>2. l \in Nodes /\ l > n
        BY <1>1, <3>2, FirstLater
      <4>3. Walked(R, w1, w2, l)
        BY <2>1, <4>2
      <4> QED
        BY <2>4, <3>2, <4>1, <4>3 DEF Walked
    <3> QED
      BY <3>1, <3>2
  <2> HIDE DEF r1, r2, leaves
  <2>7. a1.narrowings \in FlatNarrowings /\ a2.narrowings \in FlatNarrowings
    BY <2>2, <2>4 DEF InStep, Flat
  <2>8. <<SetNarrowings(r1, a1.narrowings), SetNarrowings(r2, a2.narrowings)>> \in R[End(n)]
    BY <2>2, <2>6, <2>7, NarrowsInStep
  <2> QED
    BY <2>5, <2>6, <2>8
<1> HIDE DEF T
<1>4. \A n \in 1..Len(tree) : (\A k \in 1..Len(tree) : n < k => k \in T) => n \in T
  BY <1>1, <1>3
<1>5. \A n \in 1..Len(tree) : n \in T
  BY <1>1, <1>4, LastFirst
<1> QED
  BY <1>1, <1>5 DEF T, w1, w2

\* From the first line to the last.
LEMMA CheckedInStep ==
  ASSUME Followed, NEW R, NEW ig1, NEW ig2, InStep(R, ig1, ig2), PlainOnly(ig1), PlainOnly(ig2),
         <<Unvisited, Unvisited>> \in R[1]
  PROVE  <<Checked(ig1), Checked(ig2)>> \in R[Len(tree) + 1]
<1>1. Suite(tree, 0, "body") # {} /\ FirstOf(Suite(tree, 0, "body")) = 1 /\ 1 \in Nodes
      /\ End(1) = Len(tree) + 1
  BY EndOfBody DEF Followed
<1>2. Checked(ig1) = VisitsOf(ig1)[1][Unvisited] /\ Checked(ig2) = VisitsOf(ig2)[1][Unvisited]
  BY <1>1 DEF Checked, check_suite
<1>3. Walked(R, VisitsOf(ig1), VisitsOf(ig2), 1)
  BY <1>1, WalksInStep
<1> QED
  BY <1>1, <1>2, <1>3 DEF Walked

-----------------------------------------------------------------------------
(* The declared type admits whatever a live statement stored so far.       *)

Annotated(x) == ~InFunction /\ \E m \in BindingsOf(x) : tree[m].kind = "Declare"

\* What a name's binding is in front of line k.
Admitting(b, x, k) ==
  /\ \A m \in BindingsOf(x) : m < k /\ m \notin hidden =>
       b.status = "declared" /\ Covers(b.type, type_of_value(m))
  /\ b.partial_none => b.status = "declared" /\ b.type = NoneType
  /\ b.status = "unbound" => \A m \in BindingsOf(x) : ~(m < k)
  /\ b.status = "placeholder" =>
       /\ ~b.order_exempt /\ b.bound_at \in BindingsOf(x) /\ k <= b.bound_at
       /\ \A m \in BindingsOf(x) : m < b.bound_at => m \in hidden
  /\ Annotated(x) => b.status = "declared" /\ b.type = Object /\ ~b.partial_none

AllAdmit(st, k) == \A x \in Names : Admitting(st.bindings[x], x, k)

\* A statement that does not bind the name changes nothing for it.
LEMMA AdmitsPast ==
  ASSUME Followed, NEW n \in Nodes, NEW x \in Names, NEW b, Admitting(b, x, n), n \notin BindingsOf(x)
  PROVE  Admitting(b, x, n + 1)
<1>1. n \in Nat /\ \A m \in BindingsOf(x) : m \in Nat /\ (m < n + 1 => m < n)
  BY NodesAre DEF BindingsOf, Followed
<1>2. b.status = "placeholder" => n + 1 <= b.bound_at
  BY <1>1 DEF Admitting
<1> QED
  BY <1>1, <1>2 DEF Admitting

\* The same, by the kind and the name of the statement.
LEMMA AdmitsElsewhere ==
  ASSUME Followed, NEW n \in Nodes, NEW x \in Names, NEW b, Admitting(b, x, n),
         tree[n].kind \notin Binders \/ tree[n].name # x
  PROVE  Admitting(b, x, n + 1)
<1>1. n \notin BindingsOf(x)
  BY DEF BindingsOf
<1> QED
  BY <1>1, AdmitsPast

\* A visit that rebinds the name of its statement.
LEMMA AdmitPut ==
  ASSUME Followed, NEW st, Flat(st), NEW n \in Nodes, AllAdmit(st, n), tree[n].name \in Names,
         NEW nb, FlatBinding(nb), Admitting(nb, tree[n].name, n + 1), NEW m, NEW c, NEW r
  PROVE  AllAdmit(State(Put(st.bindings, tree[n].name, nb), m, c, r), n + 1)
<1> DEFINE x == tree[n].name
           f == Put(st.bindings, x, nb)
<1>1. st.bindings \in [Names -> Bindings] /\ nb \in Bindings
  BY FlatIs DEF FlatBinding
<1>2. f[x] = nb /\ \A y \in Names : y # x => f[y] = st.bindings[y]
  <2>1. x \in Names
    OBVIOUS
  <2> HIDE DEF x
  <2> QED
    BY <1>1, <2>1 DEF Put
<1> HIDE DEF f
<1>3. \A y \in Names : Admitting(f[y], y, n + 1)
  BY <1>2, AdmitsElsewhere DEF AllAdmit
<1>4. State(f, m, c, r).bindings = f
  BY StateFields
<1> QED
  BY <1>3, <1>4 DEF AllAdmit, f

\* A visit that rebinds nothing.
LEMMA AdmitSame ==
  ASSUME Followed, NEW st, NEW n \in Nodes, AllAdmit(st, n),
         tree[n].name \in Names /\ tree[n].kind \in Binders =>
           Admitting(st.bindings[tree[n].name], tree[n].name, n + 1),
         NEW m, NEW c, NEW r
  PROVE  AllAdmit(State(st.bindings, m, c, r), n + 1)
<1>1. \A y \in Names : Admitting(st.bindings[y], y, n + 1)
  BY AdmitsElsewhere DEF AllAdmit
<1>4. State(st.bindings, m, c, r).bindings = st.bindings
  BY StateFields
<1> QED
  BY <1>1, <1>4 DEF AllAdmit

\* The binding of the name a statement binds, in front of it and behind it.
LEMMA AdmitsBound ==
  ASSUME Followed, NEW n \in Nodes, tree[n].kind \in Binders, tree[n].name \in Names,
         NEW b, FlatBinding(b), Admitting(b, tree[n].name, n)
  PROVE  /\ n \in BindingsOf(tree[n].name) /\ n \in Nat
         /\ \A m \in BindingsOf(tree[n].name) :
              m \in Nat /\ m \in Nodes /\ (m < n + 1 => m < n \/ m = n) /\ type_of_value(m) \in Known
         /\ b.status \in {"unbound", "placeholder", "declared"}
         /\ b.status = "declared" => b.type \in Known /\ b.type # Unknown
<1>1. n \in BindingsOf(tree[n].name) /\ n \in Nat
  BY NodeIs DEF BindingsOf
<1>2. \A m \in BindingsOf(tree[n].name) : m \in Nodes /\ m \in Nat /\ type_of_value(m) \in Known
  BY NodeIs DEF BindingsOf
<1> QED
  BY <1>1, <1>2, BindingIs, KnownTypes DEF FlatBinding

\* assign_name without a report: the declared type admits what is stored.
LEMMA AdmitAssign ==
  ASSUME Followed, NEW st, Flat(st), NEW n \in Nodes, tree[n].kind \in Binders,
         tree[n].name \in Names, NEW o \in BOOLEAN, AllAdmit(st, n),
         assign_name(st, n, o).reported = {}
  PROVE  AllAdmit(assign_name(st, n, o), n + 1)
<1> DEFINE x == tree[n].name
           type == type_of_value(n)
           b == st.bindings[x]
           narrowed == Put(st.narrowings, x, type)
           u == union_of(<<type, NoneType>>)
           e == "declared"
           no == FALSE
           b1 == Binding(e, type, n, n, o, Seeds(type, o))
           b2 == Binding(e, type, b.bound_at, b.declared_at, o, Seeds(type, o))
           b3 == Binding(e, u, n, n, no, no)
           r == IF n \in hidden THEN st.reported ELSE st.reported \union {n}
           with(nb, nm) == State(Put(st.bindings, x, nb), nm, st.claims, st.reported)
<1>1. /\ type \in Known /\ NoneType \in Known /\ u \in Known
      /\ Members(u) = Members(type) \union Members(NoneType)
      /\ FlatBinding(b) /\ Admitting(b, x, n) /\ b \in Bindings
  BY NodeIs, KnownTypes, FlatIs, UnionOfTwo DEF AllAdmit
<1>2. /\ n \in BindingsOf(x) /\ n \in Nat
      /\ \A m \in BindingsOf(x) :
              m \in Nat /\ m \in Nodes /\ (m < n + 1 => m < n \/ m = n) /\ type_of_value(m) \in Known
      /\ b.status \in {"unbound", "placeholder", "declared"}
      /\ b.status = "declared" => b.type \in Known /\ b.type # Unknown
  BY <1>1, AdmitsBound
<1>3. assign_name(st, n, o) =
        IF b.status = "unbound" THEN with(b1, st.narrowings)
        ELSE IF fills_placeholder(b, n) THEN with(b2, st.narrowings)
        ELSE IF b.partial_none /\ type # NoneType THEN with(b3, narrowed)
        ELSE IF b.type # Unknown /\ ~is_subtype(type, b.type, NoClasses)
        THEN State(st.bindings, st.narrowings, st.claims, r)
        ELSE State(st.bindings, narrowed, st.claims, st.reported)
  BY AssignIs
<1>4. /\ b1.status = e /\ b1.type = type /\ (b1.partial_none => type = NoneType)
      /\ b2.status = e /\ b2.type = type /\ (b2.partial_none => type = NoneType)
      /\ b3.status = e /\ b3.type = u /\ b3.partial_none = FALSE
  BY DEF Binding, Seeds
<1>5. FlatBinding(b1) /\ FlatBinding(b2) /\ FlatBinding(b3)
  <2>1. e \in {"unbound", "placeholder", "declared"} /\ e = "declared" /\ no \in BOOLEAN
    OBVIOUS
  <2>2. b.bound_at \in Nat /\ b.declared_at \in Nat /\ Seeds(type, o) \in BOOLEAN
    BY <1>1, BindingIs DEF Seeds
  <2> HIDE DEF e, no, u, b, type
  <2> QED
    BY <1>1, <1>2, <2>1, <2>2, FlatChoice DEF b1, b2, b3
<1>6. Covers(type, type)
  BY CoversItself
<1> HIDE DEF b1, b2, b3, with, narrowed, r, type, u, b
<1>7. CASE b.status = "unbound"
  <2>1. Admitting(b1, x, n + 1)
    BY <1>1, <1>2, <1>4, <1>6, <1>7 DEF Admitting, type
  <2> QED
    BY <1>1, <1>3, <1>5, <1>7, <2>1, AdmitPut DEF with
<1>8. CASE b.status # "unbound" /\ fills_placeholder(b, n)
  <2>1. b.status = "placeholder" /\ b.bound_at = n
    BY <1>8 DEF fills_placeholder
  <2>2. Admitting(b2, x, n + 1)
    BY <1>1, <1>2, <1>4, <1>6, <2>1 DEF Admitting, type
  <2> QED
    BY <1>1, <1>3, <1>5, <1>8, <2>2, AdmitPut DEF with
<1>9. CASE b.status # "unbound" /\ ~fills_placeholder(b, n) /\ b.partial_none /\ type # NoneType
  <2>1. b.status = "declared" /\ b.type = NoneType
    BY <1>1, <1>9 DEF Admitting
  <2>2. Covers(u, NoneType) /\ Covers(u, type)
    BY <1>1, CoversItself DEF Covers
  <2>3. \A m \in BindingsOf(x) : m < n /\ m \notin hidden => Covers(u, type_of_value(m))
    BY <1>1, <1>2, <2>1, <2>2, CoversTransitive DEF Admitting
  <2>4. Admitting(b3, x, n + 1)
    BY <1>1, <1>2, <1>4, <1>9, <2>1, <2>2, <2>3 DEF Admitting, type
  <2> QED
    BY <1>1, <1>3, <1>5, <1>9, <2>4, AdmitPut DEF with
<1>10. CASE b.status # "unbound" /\ ~fills_placeholder(b, n) /\ ~(b.partial_none /\ type # NoneType)
  <2>1. Admitting(b, x, n + 1)
    <3>1. CASE b.status = "placeholder"
      <4>1. b.bound_at # n
        BY <1>1, <1>10, <3>1 DEF Admitting, fills_placeholder
      <4>2. n + 1 <= b.bound_at /\ n < b.bound_at
        BY <1>1, <1>2, <3>1, <4>1 DEF Admitting
      <4> QED
        BY <1>1, <1>2, <3>1, <4>2 DEF Admitting
    <3>2. CASE b.status = "declared"
      <4>1. b.type # Unknown /\ b.type \in Known
        BY <1>2, <3>2
      <4>2. n \in hidden \/ is_subtype(type, b.type, NoClasses)
        <5>1. SUFFICES ASSUME n \notin hidden, ~is_subtype(type, b.type, NoClasses) PROVE FALSE
          OBVIOUS
        <5>2. assign_name(st, n, o) = State(st.bindings, st.narrowings, st.claims, r)
          BY <1>3, <1>10, <4>1, <5>1
        <5>3. assign_name(st, n, o).reported = r
          BY <5>2, StateFields
        <5>4. n \in r
          BY <5>1 DEF r
        <5> QED
          BY <5>3, <5>4
      <4>3. n \in hidden \/ Covers(b.type, type)
        BY <1>1, <4>1, <4>2, KnownSubtype
      <4> QED
        BY <1>1, <1>2, <3>2, <4>3 DEF Admitting, type
    <3> QED
      BY <1>2, <1>10, <3>1, <3>2
  <2>2. AllAdmit(State(st.bindings, st.narrowings, st.claims, r), n + 1)
        /\ AllAdmit(State(st.bindings, narrowed, st.claims, st.reported), n + 1)
    BY <2>1, AdmitSame DEF b
  <2> QED
    BY <1>3, <1>10, <2>2
<1> QED
  BY <1>7, <1>8, <1>9, <1>10

\* An annotated declaration without a report declares object.
LEMMA AdmitDeclare ==
  ASSUME Followed, NEW st, Flat(st), NEW n \in Nodes, tree[n].kind = "Declare", AllAdmit(st, n),
         redeclare_narrowing(bind_annotation(st, n), tree[n].name).reported = {}
  PROVE  AllAdmit(redeclare_narrowing(bind_annotation(st, n), tree[n].name), n + 1)
<1> DEFINE x == tree[n].name
           b == st.bindings[x]
           fills == InFunction /\ b.status = "placeholder" /\ b.declared_at = n /\ ~b.order_exempt
           kept == ~InFunction /\ b.declared_at = n
           e == "declared"
           nb == Binding(e, Object, b.bound_at, b.declared_at, b.order_exempt, b.partial_none)
           none == Put(st.narrowings, x, NoType)
           r == IF fills \/ kept THEN st.reported ELSE st.reported \union {n}
           after == redeclare_narrowing(bind_annotation(st, n), x)
<1>1. tree[n].kind \in Binders /\ x \in Names /\ InFunction \in BOOLEAN
  BY NodeIs, DeclOK DEF Binders, Stores, Followed
<1>2. FlatBinding(b) /\ Admitting(b, x, n) /\ b \in Bindings
  BY <1>1, FlatIs DEF AllAdmit
<1>3. /\ n \in BindingsOf(x) /\ n \in Nat
      /\ \A m \in BindingsOf(x) :
              m \in Nat /\ m \in Nodes /\ (m < n + 1 => m < n \/ m = n) /\ type_of_value(m) \in Known
      /\ b.status \in {"unbound", "placeholder", "declared"}
      /\ b.status = "declared" => b.type \in Known /\ b.type # Unknown
  BY <1>1, <1>2, AdmitsBound
<1>4. after = State(IF fills THEN Put(st.bindings, x, nb) ELSE st.bindings, none, st.claims, r)
  BY DeclareIs
<1>5. FlatBinding(nb)
  <2>1. e \in {"unbound", "placeholder", "declared"} /\ e = "declared" /\ Object \in Known
    BY ObjectIs
  <2>2. b.bound_at \in Nat /\ b.declared_at \in Nat /\ b.order_exempt \in BOOLEAN /\ b.partial_none \in BOOLEAN
    BY <1>2, BindingIs
  <2> HIDE DEF e, b
  <2> QED
    BY <2>1, <2>2, FlatChoice
<1>6. nb.status = e /\ nb.type = Object /\ nb.partial_none = b.partial_none
  BY BindingFields
<1>7. fills \/ kept
  <2>1. after.reported = r
    <3> DEFINE f == IF fills THEN Put(st.bindings, x, nb) ELSE st.bindings
    <3>1. after = State(f, none, st.claims, r)
      BY <1>4
    <3> HIDE DEF f, after, none, r
    <3> QED
      BY <3>1, StateFields
  <2>2. r = {}
    BY <2>1
  <2> QED
    BY <2>2
<1> HIDE DEF nb, none, r, b
<1>8. CASE fills
  <2>1. ~b.partial_none
    BY <1>2, <1>8 DEF Admitting
  <2>2. \A m \in BindingsOf(x) : Covers(Object, type_of_value(m))
    BY <1>3, ObjectIs
  <2>3. Admitting(nb, x, n + 1)
    BY <1>6, <2>1, <2>2 DEF Admitting
  <2>4. AllAdmit(State(Put(st.bindings, x, nb), none, st.claims, r), n + 1)
    BY <1>1, <1>5, <2>3, AdmitPut
  <2> QED
    BY <1>4, <1>8, <2>4
<1>9. CASE kept /\ ~fills
  <2>1. Annotated(x)
    BY <1>3, <1>9 DEF Annotated
  <2>2. b.status = "declared" /\ b.type = Object /\ ~b.partial_none
    BY <1>2, <2>1 DEF Admitting
  <2>3. \A m \in BindingsOf(x) : Covers(Object, type_of_value(m))
    BY <1>3, ObjectIs
  <2>4. Admitting(b, x, n + 1)
    BY <2>2, <2>3 DEF Admitting
  <2>5. AllAdmit(State(st.bindings, none, st.claims, r), n + 1)
    BY <2>4, AdmitSame DEF b
  <2> QED
    BY <1>4, <1>9, <2>5
<1> QED
  BY <1>7, <1>8, <1>9

\* What was reported stays reported.
LEMMA OwnReports ==
  ASSUME Followed, NEW st, Flat(st), NEW n \in Nodes, NEW ignored
  PROVE  st.reported \subseteq Own(st, n, ignored).reported
<1> DEFINE r1 == IF n \in hidden THEN st.reported ELSE st.reported \union {n}
           r2 == st.reported \union {n}
           Kept(s) == \E b, m, c, r : s = State(b, m, c, r) /\ st.reported \subseteq r
<1>1. \A s : Kept(s) => st.reported \subseteq s.reported
  BY StateFields
<1>2. ASSUME NEW o \in BOOLEAN, tree[n].kind \in Binders, tree[n].name \in Names
      PROVE  Kept(assign_name(st, n, o))
  <2> DEFINE x == tree[n].name
             type == type_of_value(n)
             b == st.bindings[x]
             with(nb, nm) == State(Put(st.bindings, x, nb), nm, st.claims, st.reported)
             narrowed == Put(st.narrowings, x, type)
             b1 == Binding("declared", type, n, n, o, Seeds(type, o))
             b2 == Binding("declared", type, b.bound_at, b.declared_at, o, Seeds(type, o))
             b3 == Binding("declared", union_of(<<type, NoneType>>), n, n, FALSE, FALSE)
  <2>1. assign_name(st, n, o) =
        IF b.status = "unbound" THEN with(b1, st.narrowings)
        ELSE IF fills_placeholder(b, n) THEN with(b2, st.narrowings)
        ELSE IF b.partial_none /\ type # NoneType THEN with(b3, narrowed)
        ELSE IF b.type # Unknown /\ ~is_subtype(type, b.type, NoClasses)
        THEN State(st.bindings, st.narrowings, st.claims, r1)
        ELSE State(st.bindings, narrowed, st.claims, st.reported)
    BY <1>2, AssignIs
  <2>2. st.reported \subseteq r1
    OBVIOUS
  <2> HIDE DEF b1, b2, b3, r1, narrowed, type, x, b
  <2>3. \A nb, nm : Kept(with(nb, nm))
    OBVIOUS
  <2>4. Kept(State(st.bindings, st.narrowings, st.claims, r1)) /\ Kept(State(st.bindings, narrowed, st.claims, st.reported))
    BY <2>2
  <2> HIDE DEF Kept, with
  <2> QED
    BY <2>1, <2>3, <2>4
<1>3. ASSUME tree[n].kind = "Declare"
      PROVE  Kept(redeclare_narrowing(bind_annotation(st, n), tree[n].name))
  <2> DEFINE x == tree[n].name
             b == st.bindings[x]
             fills == InFunction /\ b.status = "placeholder" /\ b.declared_at = n /\ ~b.order_exempt
             kept == ~InFunction /\ b.declared_at = n
             nb == Binding("declared", Object, b.bound_at, b.declared_at, b.order_exempt, b.partial_none)
             f == IF fills THEN Put(st.bindings, x, nb) ELSE st.bindings
             none == Put(st.narrowings, x, NoType)
             r == IF fills \/ kept THEN st.reported ELSE st.reported \union {n}
             after == redeclare_narrowing(bind_annotation(st, n), x)
  <2>1. after = State(f, none, st.claims, r)
    BY <1>3, DeclareIs
  <2>2. st.reported \subseteq r
    OBVIOUS
  <2> HIDE DEF f, none, r, after
  <2>3. Kept(after)
    BY <2>1, <2>2
  <2> QED
    BY <2>3 DEF after
<1>4. Kept(type_of_name(st, n))
  <2>1. st = State(st.bindings, st.narrowings, st.claims, st.reported)
    BY FlatIs
  <2> DEFINE x == tree[n].name
             c == Put(st.claims, n, current_type(st.narrowings, st.bindings, x))
             after == type_of_name(st, n)
  <2>2. after =
              IF x = NoName THEN st
              ELSE IF Unreadable(st, n)
              THEN State(st.bindings, st.narrowings, st.claims, r2)
              ELSE State(st.bindings, st.narrowings, c, st.reported)
    BY ReadIs
  <2>3. st.reported \subseteq r2 /\ st.reported \subseteq st.reported
    OBVIOUS
  <2> HIDE DEF c, r2, after, x
  <2>4. Kept(st)
    BY <2>1, <2>3
  <2>5. Kept(State(st.bindings, st.narrowings, st.claims, r2))
    BY <2>3
  <2>6. Kept(State(st.bindings, st.narrowings, c, st.reported))
    BY <2>3
  <2> HIDE DEF Kept
  <2>7. Kept(after)
    BY <2>2, <2>4, <2>5, <2>6
  <2> QED
    BY <2>7 DEF after
<1>5. Kept(st)
  <2>1. st = State(st.bindings, st.narrowings, st.claims, st.reported)
    BY FlatIs
  <2> QED
    BY <2>1
<1> HIDE DEF Kept
<1>6. tree[n].kind = "Assign" => tree[n].name \in Names /\ tree[n].kind \in Binders
  BY NodeIs DEF Binders, Stores
<1>7. tree[n].kind = "For" /\ tree[n].name # NoName => tree[n].name \in Names /\ tree[n].kind \in Binders
  BY NodeIs DEF Binders
<1>8. TRUE \in BOOLEAN /\ FALSE \in BOOLEAN
  OBVIOUS
<1>9. Kept(Own(st, n, ignored))
  BY <1>2, <1>3, <1>4, <1>5, <1>6, <1>7, <1>8 DEF Own, TargetBound
<1> QED
  BY <1>1, <1>9

\* Every statement that is not reported keeps the bindings admitting.
LEMMA AdmitOwn ==
  ASSUME Followed, NEW st, Flat(st), NEW n \in Nodes, AllAdmit(st, n), Own(st, n, {}).reported = {}
  PROVE  AllAdmit(Own(st, n, {}), n + 1)
<1>1. st = State(st.bindings, st.narrowings, st.claims, st.reported)
  BY FlatIs
<1>2. CASE tree[n].kind = "Assign"
  <2>1. tree[n].name \in Names /\ tree[n].kind \in Binders
    BY <1>2, NodeIs DEF Binders, Stores
  <2> DEFINE no == FALSE
  <2>2. no \in BOOLEAN /\ Own(st, n, {}) = assign_name(st, n, no)
    BY <1>2 DEF Own
  <2> HIDE DEF no
  <2> QED
    BY <2>1, <2>2, AdmitAssign
<1>3. CASE tree[n].kind = "Declare"
  <2>1. Own(st, n, {}) = redeclare_narrowing(bind_annotation(st, n), tree[n].name)
    BY <1>3 DEF Own
  <2> QED
    BY <1>3, <2>1, AdmitDeclare
<1>4. CASE tree[n].kind = "Expr"
  <2>1. Own(st, n, {}) = type_of_name(st, n) /\ tree[n].kind \notin Binders
    BY <1>4 DEF Own, Binders, Stores
  <2>2. \A m, c, r : AllAdmit(State(st.bindings, m, c, r), n + 1)
    BY <2>1, AdmitSame
  <2> DEFINE x == tree[n].name
             c == Put(st.claims, n, current_type(st.narrowings, st.bindings, x))
  <2>3. type_of_name(st, n) =
              IF x = NoName THEN st
              ELSE IF Unreadable(st, n)
              THEN State(st.bindings, st.narrowings, st.claims, st.reported \union {n})
              ELSE State(st.bindings, st.narrowings, c, st.reported)
    BY ReadIs
  <2> HIDE DEF c
  <2> QED
    BY <1>1, <2>1, <2>2, <2>3
<1>5. CASE tree[n].kind = "For" /\ tree[n].name # NoName
  <2>1. tree[n].name \in Names /\ tree[n].kind \in Binders
    BY <1>5, NodeIs DEF Binders
  <2> DEFINE yes == TRUE
  <2>2. yes \in BOOLEAN /\ Own(st, n, {}) = assign_name(st, n, yes)
    BY <1>5 DEF Own, TargetBound
  <2> HIDE DEF yes
  <2> QED
    BY <2>1, <2>2, AdmitAssign
<1>6. CASE tree[n].kind \notin {"Assign", "Declare", "Expr"} /\ ~(tree[n].kind = "For" /\ tree[n].name # NoName)
  <2>1. Own(st, n, {}) = st
    BY <1>6 DEF Own, TargetBound
  <2>2. ~(tree[n].name \in Names /\ tree[n].kind \in Binders)
    BY <1>6, NodeIs DEF Binders, Stores
  <2>3. AllAdmit(State(st.bindings, st.narrowings, st.claims, st.reported), n + 1)
    BY <2>2, AdmitSame
  <2> QED
    BY <1>1, <2>1, <2>3
<1> QED
  BY <1>2, <1>3, <1>4, <1>5, <1>6

\* A flat visit with its narrowings replaced.
LEMMA FlatRenarrowed ==
  ASSUME NEW st, Flat(st), NEW m \in FlatNarrowings
  PROVE  Flat(SetNarrowings(st, m)) /\ SetNarrowings(st, m) = State(st.bindings, m, st.claims, st.reported)
<1>1. st = State(st.bindings, st.narrowings, st.claims, st.reported)
      /\ st.claims \in TypesOf(Nodes) /\ st.reported \in SUBSET Nodes
  BY FlatIs
<1>2. SetNarrowings(st, m) = State(st.bindings, m, st.claims, st.reported)
  BY <1>1, EditNarrowings
<1>3. m \in [Names -> Known \union {NoType}]
  BY DEF FlatNarrowings
<1> QED
  BY <1>1, <1>2, <1>3, FlatChanged

\* Before the visit.
LEMMA BindersAre ==
  ASSUME Followed, NEW x
  PROVE  /\ BindingsOf(x) \subseteq Nodes /\ BindingsOf(x) \in SUBSET Nat
         /\ \A S \in SUBSET BindingsOf(x) :
              S # {} => FirstOf(S) \in S /\ FirstOf(S) \in Nat /\ \A k \in S : FirstOf(S) <= k
<1>1. BindingsOf(x) \subseteq Nodes /\ BindingsOf(x) \in SUBSET Nat
  BY NodesAre DEF BindingsOf, Followed
<1> QED
  BY <1>1, LeastOf

\* The bindings before the visit.
LEMMA StartBinding ==
  ASSUME Followed, NEW x \in Names
  PROVE  LET b == Unvisited.bindings[x]
             live == {n \in BindingsOf(x) : tree[n].kind = "Declare" \/ ~InDeadCode(n)}
             at == FirstOf(IF live # {} THEN live ELSE BindingsOf(x))
             none == Binding("unbound", Unknown, 0, 0, FALSE, FALSE)
             due(l) == Binding("placeholder", Unknown, l, FirstOf(BindingsOf(x)), FALSE, FALSE)
             annotated == {n \in BindingsOf(x) : tree[n].kind = "Declare"}
             known == Binding("declared", Object, FirstOf(annotated), FirstOf(annotated), FALSE, FALSE)
         IN IF InFunction THEN IF BindingsOf(x) = {} THEN b = none ELSE b = due(at)
            ELSE IF annotated # {} THEN b = known
            ELSE b = none \/ (BindingsOf(x) # {} /\ b = due(FirstOf(BindingsOf(x))))
<1> DEFINE annotated == {n \in BindingsOf(x) : tree[n].kind = "Declare"}
           live == {n \in BindingsOf(x) : tree[n].kind = "Declare" \/ ~InDeadCode(n)}
           at == FirstOf(IF live # {} THEN live ELSE BindingsOf(x))
           none == Binding("unbound", Unknown, 0, 0, FALSE, FALSE)
           due(l) == Binding("placeholder", Unknown, l, FirstOf(BindingsOf(x)), FALSE, FALSE)
           known == Binding("declared", Object, FirstOf(annotated), FirstOf(annotated), FALSE, FALSE)
           top == {n \in BindingsOf(x) : tree[n].kind = "Assign" /\ tree[n].up = 0}
<1>1. NoBinding = none /\ \A l : placeholder(l, FirstOf(BindingsOf(x))) = due(l)
  BY BindingForms
<1>2. declared(Annotation, FirstOf(annotated)) = known
  BY BindingForms DEF Annotation
<1>3. Unvisited.bindings[x] = IF InFunction THEN pre_bind_function_body(x) ELSE pre_bind_assignment_targets(x)
  BY DEF Unvisited
<1>4. collect_signatures(x) = IF annotated = {} THEN NoBinding ELSE known
  BY <1>2 DEF collect_signatures
<1>5. known # NoBinding
  BY <1>1 DEF Binding
<1>6. pre_bind_function_body(x) = IF BindingsOf(x) = {} THEN none ELSE due(at)
  <2>1. pre_bind_function_body(x)
          = IF BindingsOf(x) = {} THEN NoBinding ELSE placeholder(at, FirstOf(BindingsOf(x)))
    BY DEF pre_bind_function_body
  <2> HIDE DEF none, due, at
  <2> QED
    BY <1>1, <2>1
<1>7. pre_bind_assignment_targets(x) = IF collect_signatures(x) # NoBinding THEN collect_signatures(x)
                                       ELSE IF top = {} THEN NoBinding ELSE due(FirstOf(BindingsOf(x)))
  BY <1>1 DEF pre_bind_assignment_targets
<1>8. top # {} => BindingsOf(x) # {}
  OBVIOUS
<1> HIDE DEF none, due, known, annotated, at, top
<1> QED
  BY <1>1, <1>3, <1>4, <1>5, <1>6, <1>7, <1>8 DEF none, due, known, annotated, at

\* Before the visit nothing is stored.
LEMMA StartAdmits ==
  ASSUME Followed, hidden = Suppressed(answer)
  PROVE  Flat(Unvisited) /\ AllAdmit(Unvisited, 1)
<1>1. ASSUME NEW x \in Names
      PROVE  FlatBinding(Unvisited.bindings[x]) /\ Admitting(Unvisited.bindings[x], x, 1)
  <2> DEFINE b == Unvisited.bindings[x]
             B == BindingsOf(x)
             live == {n \in B : tree[n].kind = "Declare" \/ ~InDeadCode(n)}
             at == FirstOf(IF live # {} THEN live ELSE B)
             f == FirstOf(B)
             no == FALSE
             z == 0
             none == Binding("unbound", Unknown, z, z, no, no)
             due(l) == Binding("placeholder", Unknown, l, f, no, no)
             annotated == {n \in B : tree[n].kind = "Declare"}
             g == FirstOf(annotated)
             known == Binding("declared", Object, g, g, no, no)
  <2>1. IF InFunction THEN IF B = {} THEN b = none ELSE b = due(at)
        ELSE IF annotated # {} THEN b = known
        ELSE b = none \/ (B # {} /\ b = due(f))
    BY StartBinding
  <2>2. /\ \A n \in B : n \in Nodes /\ n \in Nat /\ n >= 1
        /\ \A S \in SUBSET B : S # {} => FirstOf(S) \in S /\ FirstOf(S) \in Nat /\ \A k \in S : FirstOf(S) <= k
    BY BindersAre, NodesAre DEF Followed
  <2>3. live \in SUBSET B /\ annotated \in SUBSET B /\ B \in SUBSET B
    OBVIOUS
  <2>4. \A n \in Nodes : InDeadCode(n) => n \in hidden
    BY DEF Suppressed, InDeadCode
  <2>5. no \in BOOLEAN /\ z \in Nat /\ no = FALSE /\ InFunction \in BOOLEAN
    BY DeclOK DEF Followed
  <2>6. B # {} => /\ at \in B /\ at \in Nat /\ at >= 1 /\ f \in B /\ f \in Nat /\ f >= 1
                  /\ \A m \in B : ~(m < f)
                  /\ \A m \in B : m < at => m \in hidden
    <3> SUFFICES ASSUME B # {}
             PROVE /\ at \in B /\ at \in Nat /\ at >= 1 /\ f \in B /\ f \in Nat /\ f >= 1
                   /\ \A m \in B : ~(m < f)
                   /\ \A m \in B : m < at => m \in hidden
      OBVIOUS
    <3>1. f \in B /\ f \in Nat /\ f >= 1 /\ \A m \in B : f <= m
      BY <2>2, <2>3
    <3>2. CASE live # {}
      <4>1. at \in live /\ at \in Nat /\ \A m \in live : at <= m
        BY <2>2, <2>3, <3>2
      <4> HIDE DEF at, f
      <4> QED
        BY <2>2, <2>4, <3>1, <4>1
    <3>3. CASE live = {}
      <4>1. at = f
        BY <3>3
      <4> HIDE DEF at, f
      <4> QED
        BY <2>2, <3>1, <4>1
    <3> QED
      BY <3>2, <3>3
  <2>7. annotated # {} => g \in Nat
    BY <2>2, <2>3
  <2> DEFINE bare == "unbound"
             wait == "placeholder"
             done == "declared"
  <2>8. /\ bare \in {"unbound", "placeholder", "declared"} /\ bare # "declared"
        /\ wait \in {"unbound", "placeholder", "declared"} /\ wait # "declared"
        /\ done \in {"unbound", "placeholder", "declared"} /\ done = "declared"
    OBVIOUS
  <2>9. none = Binding(bare, Unknown, z, z, no, no) /\ known = Binding(done, Object, g, g, no, no)
        /\ \A l : due(l) = Binding(wait, Unknown, l, f, no, no)
    OBVIOUS
  <2> HIDE DEF at, f, g, no, z, none, due, known, annotated, b, bare, wait, done
  <2>10. FlatBinding(none)
    BY <2>5, <2>8, <2>9, FlatChoice
  <2>11. annotated # {} => FlatBinding(known)
    BY <2>5, <2>7, <2>8, <2>9, FlatChoice, ObjectIs
  <2>12. \A l \in Nat : B # {} => FlatBinding(due(l))
    BY <2>5, <2>6, <2>8, <2>9, FlatChoice
  <2>13. none.status = "unbound" /\ none.partial_none = FALSE
    BY <2>5, <2>9, BindingFields DEF bare
  <2>14. known.status = "declared" /\ known.partial_none = FALSE /\ known.type = Object
    BY <2>5, <2>9, BindingFields DEF done
  <2>15. \A l : /\ due(l).status = "placeholder" /\ due(l).partial_none = FALSE /\ due(l).bound_at = l
                /\ due(l).order_exempt = FALSE
    BY <2>5, <2>9, BindingFields DEF wait
  <2>16. Annotated(x) <=> ~InFunction /\ annotated # {}
    BY DEF Annotated, annotated
  <2>17. \A m \in B : ~(m < 1)
    BY <2>2
  <2>18. CASE b = none /\ (InFunction \/ annotated = {})
    BY <2>10, <2>13, <2>16, <2>17, <2>18 DEF Admitting, b
  <2>19. CASE b = known /\ annotated # {}
    BY <2>11, <2>14, <2>16, <2>17, <2>19 DEF Admitting, b
  <2>20. CASE b = due(at) /\ B # {} /\ InFunction
    <3>1. Admitting(b, x, 1)
      BY <2>6, <2>15, <2>16, <2>17, <2>20 DEF Admitting
    <3> QED
      BY <2>6, <2>12, <2>20, <3>1 DEF b
  <2>21. CASE b = due(f) /\ B # {} /\ annotated = {}
    <3>1. Admitting(b, x, 1)
      BY <2>6, <2>15, <2>16, <2>17, <2>21 DEF Admitting
    <3> QED
      BY <2>6, <2>12, <2>21, <3>1 DEF b
  <2> QED
    BY <2>1, <2>18, <2>19, <2>20, <2>21
<1> DEFINE bs == Unvisited.bindings
           ms == Unvisited.narrowings
           cs == Unvisited.claims
           rs == Unvisited.reported
<1>2. /\ Unvisited = State(bs, ms, cs, rs) /\ bs = [x \in Names |-> bs[x]]
      /\ ms \in [Names -> Known \union {NoType}] /\ cs \in TypesOf(Nodes) /\ rs \in SUBSET Nodes
  BY DEF Unvisited, State, TypesOf
<1> HIDE DEF bs, ms, cs, rs
<1>3. Flat(State(bs, ms, cs, rs))
  BY <1>1, <1>2, FlatState DEF bs
<1> QED
  BY <1>1, <1>2, <1>3 DEF AllAdmit

\* Behind the last line, of a body with nothing reported.
LEMMA CheckedAdmits ==
  ASSUME Followed, hidden = Suppressed(answer)
  PROVE  /\ Flat(Checked({}))
         /\ Checked({}).reported = {} => AllAdmit(Checked({}), Len(tree) + 1)
<1> DEFINE Fine(s, k) == Flat(s) /\ (s.reported = {} => AllAdmit(s, k))
           R == [k \in Nat |-> {p \in Visits \X Visits : Fine(p[1], k) /\ Fine(p[2], k)}]
           no == {}
<1>1. \A k \in Nat : \A s, t : <<s, t>> \in R[k] <=> Fine(s, k) /\ Fine(t, k)
  BY DEF Flat
<1> HIDE DEF R
<1>2. InStep(R, no, no)
  <2>1. ASSUME NEW n \in Nodes, NEW s, Fine(s, n) PROVE Fine(Own(s, n, no), n + 1)
    <3>1. Flat(Own(s, n, no))
      BY <2>1, FlatOwn
    <3>2. ASSUME Own(s, n, no).reported = {} PROVE AllAdmit(Own(s, n, no), n + 1)
      <4>1. s.reported \subseteq Own(s, n, no).reported
        BY <2>1, OwnReports
      <4>2. AllAdmit(s, n)
        BY <2>1, <3>2, <4>1
      <4> QED
        BY <2>1, <3>2, <4>2, AdmitOwn
    <3> QED
      BY <3>1, <3>2
  <2>2. ASSUME NEW k \in Nat, NEW s, Fine(s, k), NEW m1 \in FlatNarrowings
        PROVE  Fine(SetNarrowings(s, m1), k)
    <3>1. Flat(SetNarrowings(s, m1)) /\ SetNarrowings(s, m1) = State(s.bindings, m1, s.claims, s.reported)
      BY <2>2, FlatRenarrowed
    <3>2. SetNarrowings(s, m1).reported = s.reported /\ SetNarrowings(s, m1).bindings = s.bindings
      BY <3>1, StateFields
    <3> QED
      BY <2>2, <3>1, <3>2 DEF AllAdmit
  <2>3. \A n \in Nodes : n \in Nat /\ n + 1 \in Nat
    BY EndIs
  <2>4. \A k \in Nat : \A s, t : <<s, t>> \in R[k] => Flat(s) /\ Flat(t)
    BY <1>1
  <2> HIDE DEF Fine
  <2>5. \A n \in Nodes : \A s, t : <<s, t>> \in R[n] => <<Own(s, n, no), Own(t, n, no)>> \in R[n + 1]
    BY <1>1, <2>1, <2>3
  <2>6. \A k \in Nat : \A s, t : <<s, t>> \in R[k] =>
          \A m1 \in FlatNarrowings : \A m2 \in FlatNarrowings :
            <<SetNarrowings(s, m1), SetNarrowings(t, m2)>> \in R[k]
    BY <1>1, <2>2
  <2> QED
    BY <2>4, <2>5, <2>6 DEF InStep
<1>3. PlainOnly(no)
  BY DEF PlainOnly
<1>4. Len(tree) + 1 \in Nat
  BY NodesAre DEF Followed
<1>5. <<Unvisited, Unvisited>> \in R[1]
  BY <1>1, StartAdmits
<1>6. <<Checked(no), Checked(no)>> \in R[Len(tree) + 1]
  BY <1>2, <1>3, <1>5, CheckedInStep
<1> DEFINE c == Checked(no)
<1> HIDE DEF c
<1>7. Fine(c, Len(tree) + 1)
  BY <1>1, <1>4, <1>6 DEF c
<1> QED
  BY <1>7 DEF c

-----------------------------------------------------------------------------
(* Runs of a typed program.                                                *)

\* A typed program runs as Reachability runs it.
THEOREM TypedRunsAreRuns == TSpec => Spec
<1>1. TInit => Init
  BY DEF TInit
<1>2. [TNext]_allVars => [Next]_vars
  BY DEF TNext, Next, allVars, TypeBody, RunTyped, vars
<1> QED
  BY <1>1, <1>2, PTL DEF TSpec, Spec

\* What every name holds came from a statement that runs.
Sourced == phase = "run" /\ Following =>
             \A x \in Names : env[x] # "unset" =>
               \E m \in BindingsOf(x) : m \notin hidden /\ env[x] = tree[m].value

\* The slots admit what the statements that run store.
Slotted == typed # <<>> /\ Following /\ typed.reported = {} =>
             \A x \in Names : \A m \in BindingsOf(x) : m \notin hidden =>
               /\ typed.bindings[x].status = "declared"
               /\ Admits(typed.bindings[x].type, tree[m].value)

TypedInv == SourceOrder /\ Sourced /\ Slotted /\ (typed # <<>> => phase = "run")

\* A step of the run changes neither the program nor the phase.
LEMMA RunsSame ==
  ASSUME Run
  PROVE  UNCHANGED <<decl, tree, phase>> /\ phase = "run"
BY DEF Run, RunExpr, RunAssign, RunReturn, RunBreak, RunContinue, RunIf, RunWhile, RunTest,
       RunForNext, RunForExhausted, RunNext, Raise, Goto, At, AtOneOf

\* A step of the run changes one name, to what the statement stores.
LEMMA RunsStore ==
  ASSUME decl \in Decls, Following, Run
  PROVE  \/ \A x \in Names : env'[x] = env[x]
         \/ /\ pc[1] = "exec" /\ tree[pc[2]].kind \in Binders
            /\ \E v \in Stored(pc[2]) : \A x \in Names : env'[x] = IF x = tree[pc[2]].name THEN v ELSE env[x]
<1>1. decl.mutable = {}
  BY NarrowingAssumption DEF Following
<1>2. CASE RunExpr
  <2>1. CASE UNCHANGED env
    BY <2>1
  <2>2. CASE MayMutate
    BY <1>1, <2>2 DEF MayMutate
  <2> QED
    BY <1>2, <2>1, <2>2 DEF RunExpr, Raise
<1>3. ASSUME NEW n, n = pc[2], Bind(n), pc[1] = "exec", tree[n].kind \in Binders
      PROVE  \E v \in Stored(pc[2]) : \A x \in Names : env'[x] = IF x = tree[pc[2]].name THEN v ELSE env[x]
  BY <1>3 DEF Bind
<1>4. CASE RunAssign
  <2>1. pc[1] = "exec" /\ tree[pc[2]].kind \in Binders
    BY <1>4 DEF RunAssign, AtOneOf, Binders
  <2>2. UNCHANGED env \/ Bind(pc[2])
    BY <1>4 DEF RunAssign, Raise
  <2> QED
    BY <1>3, <2>1, <2>2
<1>5. CASE RunForNext
  <2>1. pc[1] = "exec" /\ tree[pc[2]].kind \in Binders /\ Bind(pc[2])
    BY <1>5 DEF RunForNext, At, AtOneOf, Binders
  <2> QED
    BY <1>3, <2>1
<1>6. CASE ~RunExpr /\ ~RunAssign /\ ~RunForNext
  <2>1. UNCHANGED env
    BY <1>6 DEF Run, RunReturn, RunBreak, RunContinue, RunIf, RunWhile, RunTest, RunForExhausted, RunNext, Raise
  <2> QED
    BY <2>1
<1> QED
  BY <1>2, <1>4, <1>5, <1>6

\* The statement that is executed is not hidden.
LEMMA HiddenIsDead ==
  ASSUME IInv, phase = "run", pc[1] = "exec"
  PROVE  pc[2] \in Nodes /\ pc[2] \notin hidden
<1> DEFINE n == pc[2]
<1>1. Reached(n) /\ hidden = Suppressed(answer)
  BY DEF IInv, Running
<1>2. SUFFICES ASSUME n \in Suppressed(answer) PROVE FALSE
  BY <1>1 DEF Reached
<1>3. PICK m \in Path(n) : BehindTerminator(answer, m) \/ InDeadArm(m)
  BY <1>2 DEF Suppressed, Path
<1>4. Live(m)
  BY <1>1, <1>3 DEF Reached
<1>5. CASE BehindTerminator(answer, m)
  <2>1. PICK k \in Earlier(tree, m) : Leaves(k, InLoopBody(m), NoName)
    BY <1>5, Zenon DEF BehindTerminator, Leaves
  <2>2. NoName \in Tracked /\ Held(m, NoName)
    BY DEF Tracked, Held
  <2> QED
    BY <1>4, <2>1, <2>2, Zenon DEF Live
<1>6. CASE InDeadArm(m)
  BY <1>4, <1>6, Zenon DEF InDeadArm, Live, Verdict
<1> QED
  BY <1>3, <1>5, <1>6

\* The body is whole when it is typed.
LEMMA RunIsFollowed ==
  ASSUME IInv, SourceOrder, phase = "run", Following
  PROVE  Followed /\ hidden = Suppressed(answer) /\ Table
BY DEF IInv, Followed

\* A program without a report has declared the slot of every name that live code stores, with a type
\* that admits the value.
LEMMA SlotsFilled ==
  ASSUME IInv, SourceOrder, phase = "run", Following, Checked({}).reported = {},
         NEW x \in Names, NEW m \in BindingsOf(x), m \notin hidden
  PROVE  /\ Checked({}).bindings[x].status = "declared"
         /\ Admits(Checked({}).bindings[x].type, tree[m].value)
<1> DEFINE c == Checked({})
           b == c.bindings[x]
<1>1. Followed /\ hidden = Suppressed(answer)
  BY RunIsFollowed
<1>2. Flat(c) /\ AllAdmit(c, Len(tree) + 1)
  BY <1>1, CheckedAdmits
<1>3. FlatBinding(b) /\ Admitting(b, x, Len(tree) + 1)
  BY <1>2, FlatIs DEF AllAdmit
<1>4. m < Len(tree) + 1 /\ m \in Nodes
  BY <1>1, NodesAre DEF BindingsOf, Followed
<1>5. type_of_value(m) = of(tree[m].value) /\ type_of_value(m) \in Known
  BY <1>1, <1>4, NodeIs DEF BindingsOf
<1> HIDE DEF b
<1>6. b.status = "declared" /\ Covers(b.type, of(tree[m].value)) /\ of(tree[m].value) \in Known
  BY <1>3, <1>4, <1>5 DEF Admitting
<1>7. b.type \in Known
  BY <1>3, <1>6 DEF FlatBinding
<1>8. is_subtype(of(tree[m].value), b.type, NoClasses)
  BY <1>6, <1>7, KnownSubtype
<1> QED
  BY <1>6, <1>8 DEF Admits, b

\* The invariant is kept by every step.
LEMMA TypedStep ==
  ASSUME IInv, TypedInv, [TNext]_allVars
  PROVE  TypedInv'
<1>1. decl \in Decls /\ TreeOK
  BY DEF IInv
<1>2. ASSUME UNCHANGED <<decl, tree>> PROVE SourceOrder' /\ \A x : BindingsOf(x)' = BindingsOf(x)
  <2>1. Nodes' = Nodes /\ NamesFor("x")' = NamesFor("x") /\ \A k : NamesFor(k)' = NamesFor(k)
    BY <1>2 DEF Nodes, NamesFor, Names, Unassigned
  <2>2. \A k, l : Legal(k, l)' <=> Legal(k, l)
    BY <1>2 DEF Legal, InFunction
  <2>3. SourceOrder'
    BY <1>2, <2>1, <2>2 DEF SourceOrder, TypedInv
  <2> QED
    BY <1>2, <2>1, <2>3 DEF BindingsOf
<1>3. CASE Parse /\ UNCHANGED <<checkVars, typeVars>>
  <2>1. phase = "parse" /\ phase' = phase
    BY <1>3 DEF Parse, AddStatement
  <2>2. typed' = <<>>
    BY <1>3, <2>1 DEF typeVars, TypedInv
  <2>3. SourceOrder'
    BY <1>1, <1>3, ParseKeepsOrder DEF TypedInv
  <2> QED
    BY <2>1, <2>2, <2>3 DEF TypedInv, Sourced, Slotted
<1>4. CASE Check /\ UNCHANGED typeVars
  <2>1. phase = "parse" /\ UNCHANGED <<decl, tree>> /\ \A x \in Names : env'[x] = "unset" <=> x \in Unassigned
    BY <1>4 DEF Check, Begin
  <2>2. phase' = "run"
    BY <1>4 DEF Check, Begin
  <2>3. typed' = <<>>
    BY <1>4, <2>1 DEF typeVars, TypedInv
  <2>4. Sourced'
    <3>1. SUFFICES ASSUME Following' PROVE \A x \in Names' : env'[x] = "unset"
      BY DEF Sourced
    <3>2. Following
      BY <2>1, <3>1 DEF Following
    <3>3. Unassigned = Names
      BY <1>1, <3>2, NarrowingAssumption DEF Following, Unassigned, Names
    <3> QED
      BY <2>1, <3>3 DEF Names
  <2> QED
    BY <1>2, <2>1, <2>2, <2>3, <2>4 DEF TypedInv, Slotted
<1>5. CASE TypeBody
  <2>1. phase = "run" /\ UNCHANGED <<decl, tree, phase, env, hidden>> /\ typed' = Checked({})
    BY <1>5 DEF TypeBody, vars, progVars, checkVars
  <2>2. Sourced'
    BY <1>2, <2>1 DEF TypedInv, Sourced, Following, Names
  <2>3. Slotted'
    <3>1. SUFFICES ASSUME Following', typed'.reported = {}, NEW x \in Names', NEW m \in BindingsOf(x)', m \notin hidden'
                   PROVE  typed'.bindings[x].status = "declared" /\ Admits(typed'.bindings[x].type, tree'[m].value)
      BY DEF Slotted, Admits
    <3>2. Following /\ x \in Names /\ m \in BindingsOf(x) /\ m \notin hidden /\ Checked({}).reported = {}
      BY <1>2, <2>1, <3>1 DEF Following, Names
    <3> QED
      BY <2>1, <3>2, SlotsFilled DEF TypedInv
  <2> QED
    BY <1>2, <2>1, <2>2, <2>3 DEF TypedInv
<1>6. CASE RunTyped
  <2>1. Run /\ UNCHANGED <<answer, hidden, typed>>
    BY <1>6 DEF RunTyped, checkVars
  <2>2. UNCHANGED <<decl, tree, phase>> /\ phase = "run"
    BY <2>1, RunsSame
  <2>3. Sourced'
    <3>1. SUFFICES ASSUME Following, NEW x \in Names, env'[x] # "unset"
                   PROVE  \E m \in BindingsOf(x) : m \notin hidden /\ env'[x] = tree[m].value
      BY <1>2, <2>1, <2>2 DEF Sourced, Following, Names
    <3>2. CASE env'[x] = env[x]
      BY <2>2, <3>1, <3>2 DEF TypedInv, Sourced
    <3>3. CASE env'[x] # env[x]
      <4>1. PICK v \in Stored(pc[2]) : /\ pc[1] = "exec" /\ tree[pc[2]].kind \in Binders
                                       /\ env'[x] = IF x = tree[pc[2]].name THEN v ELSE env[x]
        BY <1>1, <2>1, <3>1, <3>3, RunsStore
      <4>2. x = tree[pc[2]].name /\ env'[x] = v
        BY <3>3, <4>1
      <4>3. pc[2] \in Nodes /\ pc[2] \notin hidden
        BY <2>2, <4>1, HiddenIsDead
      <4>4. Stored(pc[2]) = {tree[pc[2]].value}
        <5>1. Followed
          BY <2>2, <3>1, RunIsFollowed DEF TypedInv
        <5> QED
          BY <4>1, <4>3, <5>1, NodeIs
      <4>5. pc[2] \in BindingsOf(x)
        BY <4>1, <4>2, <4>3 DEF BindingsOf
      <4> QED
        BY <4>1, <4>2, <4>3, <4>4, <4>5
    <3> QED
      BY <3>2, <3>3
  <2>4. Slotted'
    BY <1>2, <2>1, <2>2 DEF TypedInv, Slotted, Following, Names, Admits
  <2> QED
    BY <1>2, <2>1, <2>2, <2>3, <2>4 DEF TypedInv
<1>7. CASE UNCHANGED allVars
  <2>1. UNCHANGED <<decl, tree, phase, env, hidden, typed>>
    BY <1>7 DEF allVars, vars, progVars, checkVars, typeVars
  <2>2. Sourced' /\ Slotted'
    BY <1>2, <2>1 DEF TypedInv, Sourced, Slotted, Following, Names, Admits
  <2> QED
    BY <1>2, <2>1, <2>2 DEF TypedInv
<1> QED
  BY <1>3, <1>4, <1>5, <1>6, <1>7 DEF TNext

\* Every name holds what a live statement stored, and every slot admits what live statements store.
THEOREM TypedInvariance == TSpec => []TypedInv
<1>1. TInit => TypedInv
  <2>1. SUFFICES ASSUME TInit PROVE TypedInv
    OBVIOUS
  <2>2. tree = <<>> /\ phase = "parse" /\ typed = <<>>
    BY <2>1 DEF TInit, Init, ProgInit
  <2>3. Nodes = {}
    BY <2>2 DEF Nodes
  <2> QED
    BY <2>2, <2>3 DEF TypedInv, SourceOrder, Sourced, Slotted
<1>2. TSpec => []IInv
  BY TypedRunsAreRuns, Invariance, PTL
<1>3. IInv /\ TypedInv /\ [TNext]_allVars => TypedInv'
  BY TypedStep
<1> QED
  BY <1>1, <1>2, <1>3, PTL DEF TSpec

\* Of every body: in an accepted program a name holds, at every moment of every run, a value its
\* declared type admits, and the emitter's slot of that type can hold it.
THEOREM SlotsAdmit == TSpec => []SlotAdmitsEveryValue
<1>1. IInv /\ TypedInv => SlotAdmitsEveryValue
  BY DEF TypedInv, Sourced, Slotted, SlotAdmitsEveryValue, Accepted
<1>2. TSpec => []IInv
  BY TypedRunsAreRuns, Invariance, PTL
<1> QED
  BY <1>1, <1>2, TypedInvariance, PTL

-----------------------------------------------------------------------------
(* What a statement does to the binding and the narrowing of its name.     *)

Assigns(n) == tree[n].kind \in {"Assign", "For"}
Exempt(n) == tree[n].kind = "For"
Fulfils(b, n) == InFunction /\ b.status = "placeholder" /\ b.declared_at = n /\ ~b.order_exempt
Resolves(b, n) == b.partial_none /\ type_of_value(n) # NoneType
Mismatched(b, n) == b.type # Unknown /\ ~is_subtype(type_of_value(n), b.type, NoClasses)

Rebound(b, n) ==
  IF Assigns(n)
  THEN IF b.status = "unbound"
       THEN Binding("declared", type_of_value(n), n, n, Exempt(n), Seeds(type_of_value(n), Exempt(n)))
       ELSE IF fills_placeholder(b, n)
       THEN Binding("declared", type_of_value(n), b.bound_at, b.declared_at, Exempt(n),
                    Seeds(type_of_value(n), Exempt(n)))
       ELSE IF Resolves(b, n)
       THEN Binding("declared", union_of(<<type_of_value(n), NoneType>>), n, n, FALSE, FALSE)
       ELSE b
  ELSE IF tree[n].kind = "Declare" /\ Fulfils(b, n)
       THEN Binding("declared", Object, b.bound_at, b.declared_at, b.order_exempt, b.partial_none)
       ELSE b

Renarrowed(b, n, t) ==
  IF Assigns(n)
  THEN IF b.status = "unbound" \/ fills_placeholder(b, n) THEN t
       ELSE IF ~Resolves(b, n) /\ Mismatched(b, n) THEN t
       ELSE type_of_value(n)
  ELSE IF tree[n].kind = "Declare" THEN NoType ELSE t

Complains(b, n) ==
  \/ /\ Assigns(n) /\ n \notin hidden
     /\ b.status # "unbound" /\ ~fills_placeholder(b, n) /\ ~Resolves(b, n) /\ Mismatched(b, n)
  \/ tree[n].kind = "Declare" /\ ~Fulfils(b, n) /\ ~(~InFunction /\ b.declared_at = n)
  \/ tree[n].kind = "Expr" /\ (b.status = "unbound" \/ (~b.order_exempt /\ b.bound_at >= n))

\* after is before, with the name of n bound and narrowed anew.
Edited(before, after, n) ==
  LET x == tree[n].name
      b == before.bindings[x]
  IN /\ \A y \in Names : after.bindings[y] = IF y = x THEN Rebound(b, n) ELSE before.bindings[y]
     /\ \A y \in Names : after.narrowings[y] = IF y = x THEN Renarrowed(b, n, before.narrowings[x])
                                               ELSE before.narrowings[y]
     /\ \A k \in Nodes : after.claims[k] =
                           IF k = n /\ tree[n].kind = "Expr" /\ x \in Names /\ ~Complains(b, n)
                           THEN current_type(before.narrowings, before.bindings, x) ELSE before.claims[k]
     /\ after.reported = IF x \in Names /\ Complains(b, n) THEN before.reported \union {n}
                         ELSE before.reported

\* A visit put together from the parts that are looked at.
LEMMA Composed ==
  ASSUME NEW st, NEW n, tree[n].kind # "Expr", NEW nb, NEW nm, NEW r, NEW f, NEW m,
         \A y \in Names : f[y] = IF y = tree[n].name THEN nb ELSE st.bindings[y],
         \A y \in Names : m[y] = IF y = tree[n].name THEN nm ELSE st.narrowings[y],
         tree[n].name \in Names,
         nb = Rebound(st.bindings[tree[n].name], n),
         nm = Renarrowed(st.bindings[tree[n].name], n, st.narrowings[tree[n].name]),
         r = IF Complains(st.bindings[tree[n].name], n) THEN st.reported \union {n} ELSE st.reported
  PROVE  Edited(st, State(f, m, st.claims, r), n)
<1> DEFINE after == State(f, m, st.claims, r)
<1>1. after.bindings = f /\ after.narrowings = m /\ after.claims = st.claims /\ after.reported = r
  BY StateFields
<1> HIDE DEF after
<1> QED
  BY <1>1 DEF Edited, after

\* What assign_name does, name by name.
LEMMA AssignEdits ==
  ASSUME Followed, NEW st, Flat(st), NEW n \in Nodes, Assigns(n), tree[n].name \in Names
  PROVE  Edited(st, assign_name(st, n, Exempt(n)), n)
<1> DEFINE x == tree[n].name
           o == Exempt(n)
           type == type_of_value(n)
           b == st.bindings[x]
           with(nb, nm) == State(Put(st.bindings, x, nb), nm, st.claims, st.reported)
           narrowed == Put(st.narrowings, x, type)
           b1 == Binding("declared", type, n, n, o, Seeds(type, o))
           b2 == Binding("declared", type, b.bound_at, b.declared_at, o, Seeds(type, o))
           b3 == Binding("declared", union_of(<<type, NoneType>>), n, n, FALSE, FALSE)
           r == IF n \in hidden THEN st.reported ELSE st.reported \union {n}
           after == assign_name(st, n, o)
<1>1. tree[n].kind \in Binders /\ o \in BOOLEAN /\ x \in Names
  BY DEF Assigns, Binders, Stores, Exempt
<1>2. after =
        IF b.status = "unbound" THEN with(b1, st.narrowings)
        ELSE IF fills_placeholder(b, n) THEN with(b2, st.narrowings)
        ELSE IF b.partial_none /\ type # NoneType THEN with(b3, narrowed)
        ELSE IF b.type # Unknown /\ ~is_subtype(type, b.type, NoClasses)
        THEN State(st.bindings, st.narrowings, st.claims, r)
        ELSE State(st.bindings, narrowed, st.claims, st.reported)
  BY <1>1, AssignIs
<1>3. Rebound(b, n) = IF b.status = "unbound" THEN b1 ELSE IF fills_placeholder(b, n) THEN b2
                      ELSE IF Resolves(b, n) THEN b3 ELSE b
  BY DEF Rebound
<1>4. \A t : Renarrowed(b, n, t) = IF b.status = "unbound" \/ fills_placeholder(b, n) THEN t
                                   ELSE IF ~Resolves(b, n) /\ Mismatched(b, n) THEN t ELSE type
  BY DEF Renarrowed
<1>5. Complains(b, n) <=> /\ n \notin hidden
                          /\ b.status # "unbound" /\ ~fills_placeholder(b, n) /\ ~Resolves(b, n) /\ Mismatched(b, n)
  BY DEF Complains, Assigns
<1>6. tree[n].kind # "Expr"
  BY DEF Assigns
<1>7. (Resolves(b, n) <=> b.partial_none /\ type # NoneType)
      /\ (Mismatched(b, n) <=> b.type # Unknown /\ ~is_subtype(type, b.type, NoClasses))
  BY DEF Resolves, Mismatched
<1>8. st.bindings \in [Names -> Bindings] /\ st.narrowings \in [Names -> Known \union {NoType}]
  BY FlatIs
<1>9. \A y \in Names : \A c : Put(st.bindings, x, c)[y] = IF y = x THEN c ELSE st.bindings[y]
  BY <1>8 DEF Put
<1>10. \A y \in Names : narrowed[y] = IF y = x THEN type ELSE st.narrowings[y]
  BY <1>8 DEF Put
<1>11. \A y \in Names : /\ st.bindings[y] = IF y = x THEN b ELSE st.bindings[y]
                        /\ st.narrowings[y] = IF y = x THEN st.narrowings[x] ELSE st.narrowings[y]
  <2> TAKE y \in Names
  <2>1. CASE y = x
    BY <2>1
  <2>2. CASE y # x
    BY <2>2
  <2> QED
    BY <2>1, <2>2
<1>21. r = IF n \in hidden THEN st.reported ELSE st.reported \union {n}
  OBVIOUS
<1> HIDE DEF b1, b2, b3, narrowed, type, o, r
<1>12. CASE b.status = "unbound"
  <2> DEFINE f == Put(st.bindings, x, b1)
             m == st.narrowings
  <2>1. after = State(f, m, st.claims, st.reported)
    BY <1>2, <1>7, <1>12
  <2>2. \A y \in Names : f[y] = IF y = x THEN b1 ELSE st.bindings[y]
    BY <1>9, <1>11
  <2>3. \A y \in Names : m[y] = IF y = x THEN st.narrowings[x] ELSE st.narrowings[y]
    BY <1>10, <1>11
  <2>4. /\ b1 = Rebound(b, n) /\ st.narrowings[x] = Renarrowed(b, n, st.narrowings[x])
        /\ st.reported = IF Complains(b, n) THEN st.reported \union {n} ELSE st.reported
    BY <1>3, <1>4, <1>5, <1>21, <1>12
  <2> HIDE DEF f, m, after
  <2>5. Edited(st, State(f, m, st.claims, st.reported), n)
    BY <1>1, <1>6, <2>2, <2>3, <2>4, Composed
  <2> QED
    BY <2>1, <2>5 DEF after, o
<1>13. CASE b.status # "unbound" /\ fills_placeholder(b, n)
  <2> DEFINE f == Put(st.bindings, x, b2)
             m == st.narrowings
  <2>1. after = State(f, m, st.claims, st.reported)
    BY <1>2, <1>7, <1>13
  <2>2. \A y \in Names : f[y] = IF y = x THEN b2 ELSE st.bindings[y]
    BY <1>9, <1>11
  <2>3. \A y \in Names : m[y] = IF y = x THEN st.narrowings[x] ELSE st.narrowings[y]
    BY <1>10, <1>11
  <2>4. /\ b2 = Rebound(b, n) /\ st.narrowings[x] = Renarrowed(b, n, st.narrowings[x])
        /\ st.reported = IF Complains(b, n) THEN st.reported \union {n} ELSE st.reported
    BY <1>3, <1>4, <1>5, <1>21, <1>13
  <2> HIDE DEF f, m, after
  <2>5. Edited(st, State(f, m, st.claims, st.reported), n)
    BY <1>1, <1>6, <2>2, <2>3, <2>4, Composed
  <2> QED
    BY <2>1, <2>5 DEF after, o
<1>14. CASE b.status # "unbound" /\ ~fills_placeholder(b, n) /\ Resolves(b, n)
  <2> DEFINE f == Put(st.bindings, x, b3)
             m == narrowed
  <2>1. after = State(f, m, st.claims, st.reported)
    BY <1>2, <1>7, <1>14
  <2>2. \A y \in Names : f[y] = IF y = x THEN b3 ELSE st.bindings[y]
    BY <1>9, <1>11
  <2>3. \A y \in Names : m[y] = IF y = x THEN type ELSE st.narrowings[y]
    BY <1>10, <1>11
  <2>4. /\ b3 = Rebound(b, n) /\ type = Renarrowed(b, n, st.narrowings[x])
        /\ st.reported = IF Complains(b, n) THEN st.reported \union {n} ELSE st.reported
    BY <1>3, <1>4, <1>5, <1>21, <1>14
  <2> HIDE DEF f, m, after
  <2>5. Edited(st, State(f, m, st.claims, st.reported), n)
    BY <1>1, <1>6, <2>2, <2>3, <2>4, Composed
  <2> QED
    BY <2>1, <2>5 DEF after, o
<1>15. CASE b.status # "unbound" /\ ~fills_placeholder(b, n) /\ ~Resolves(b, n) /\ Mismatched(b, n)
  <2> DEFINE f == st.bindings
             m == st.narrowings
  <2>1. after = State(f, m, st.claims, r)
    BY <1>2, <1>7, <1>15
  <2>2. \A y \in Names : f[y] = IF y = x THEN b ELSE st.bindings[y]
    BY <1>9, <1>11
  <2>3. \A y \in Names : m[y] = IF y = x THEN st.narrowings[x] ELSE st.narrowings[y]
    BY <1>10, <1>11
  <2>4. /\ b = Rebound(b, n) /\ st.narrowings[x] = Renarrowed(b, n, st.narrowings[x])
        /\ r = IF Complains(b, n) THEN st.reported \union {n} ELSE st.reported
    BY <1>3, <1>4, <1>5, <1>21, <1>15
  <2> HIDE DEF f, m, after
  <2>6. r = IF Complains(st.bindings[tree[n].name], n) THEN st.reported \union {n} ELSE st.reported
    BY <2>4
  <2>5. Edited(st, State(f, m, st.claims, r), n)
    BY <1>1, <1>6, <2>2, <2>3, <2>4, <2>6, Composed, Zenon
  <2> QED
    BY <2>1, <2>5 DEF after, o
<1>16. CASE b.status # "unbound" /\ ~fills_placeholder(b, n) /\ ~Resolves(b, n) /\ ~Mismatched(b, n)
  <2> DEFINE f == st.bindings
             m == narrowed
  <2>1. after = State(f, m, st.claims, st.reported)
    BY <1>2, <1>7, <1>16
  <2>2. \A y \in Names : f[y] = IF y = x THEN b ELSE st.bindings[y]
    BY <1>9, <1>11
  <2>3. \A y \in Names : m[y] = IF y = x THEN type ELSE st.narrowings[y]
    BY <1>10, <1>11
  <2>4. /\ b = Rebound(b, n) /\ type = Renarrowed(b, n, st.narrowings[x])
        /\ st.reported = IF Complains(b, n) THEN st.reported \union {n} ELSE st.reported
    BY <1>3, <1>4, <1>5, <1>21, <1>16
  <2> HIDE DEF f, m, after
  <2>5. Edited(st, State(f, m, st.claims, st.reported), n)
    BY <1>1, <1>6, <2>2, <2>3, <2>4, Composed
  <2> QED
    BY <2>1, <2>5 DEF after, o
<1> QED
  BY <1>12, <1>13, <1>14, <1>15, <1>16 DEF o

\* What an annotated declaration does, name by name.
LEMMA DeclareEdits ==
  ASSUME Followed, NEW st, Flat(st), NEW n \in Nodes, tree[n].kind = "Declare"
  PROVE  Edited(st, redeclare_narrowing(bind_annotation(st, n), tree[n].name), n)
<1> DEFINE x == tree[n].name
           b == st.bindings[x]
           fills == InFunction /\ b.status = "placeholder" /\ b.declared_at = n /\ ~b.order_exempt
           kept == ~InFunction /\ b.declared_at = n
           nb == Binding("declared", Object, b.bound_at, b.declared_at, b.order_exempt, b.partial_none)
           f == IF fills THEN Put(st.bindings, x, nb) ELSE st.bindings
           none == Put(st.narrowings, x, NoType)
           r == IF fills \/ kept THEN st.reported ELSE st.reported \union {n}
           after == redeclare_narrowing(bind_annotation(st, n), x)
<1>1. after = State(f, none, st.claims, r)
  BY DeclareIs
<1>2. x \in Names
  BY NodeIs
<1>3. st.bindings \in [Names -> Bindings] /\ st.narrowings \in [Names -> Known \union {NoType}]
  BY FlatIs
<1>4. fills <=> Fulfils(b, n)
  BY DEF Fulfils
<1>5. Rebound(b, n) = IF fills THEN nb ELSE b
  BY <1>4 DEF Rebound, Assigns
<1>6. Complains(b, n) <=> ~fills /\ ~kept
  BY <1>4 DEF Complains, Assigns
<1>7. \A t : Renarrowed(b, n, t) = NoType
  BY DEF Renarrowed, Assigns
<1> HIDE DEF fills, kept, nb
<1>8. \A y \in Names : f[y] = IF y = x THEN Rebound(b, n) ELSE st.bindings[y]
  BY <1>2, <1>3, <1>5 DEF Put
<1>9. \A y \in Names : none[y] = IF y = x THEN NoType ELSE st.narrowings[y]
  BY <1>3 DEF Put
<1> HIDE DEF f, none, after
<1>10. after.bindings = f /\ after.narrowings = none /\ after.claims = st.claims /\ after.reported = r
  BY <1>1, StateFields
<1> QED
  BY <1>2, <1>6, <1>7, <1>8, <1>9, <1>10 DEF Edited, after

\* What a read does, name by name.
LEMMA ReadEdits ==
  ASSUME Followed, NEW st, Flat(st), NEW n \in Nodes, tree[n].kind = "Expr"
  PROVE  Edited(st, type_of_name(st, n), n)
<1> DEFINE x == tree[n].name
           b == st.bindings[x]
           t == current_type(st.narrowings, st.bindings, x)
           c == Put(st.claims, n, t)
           after == type_of_name(st, n)
<1>1. after = IF x = NoName THEN st
              ELSE IF Unreadable(st, n)
              THEN State(st.bindings, st.narrowings, st.claims, st.reported \union {n})
              ELSE State(st.bindings, st.narrowings, c, st.reported)
  BY ReadIs
<1>2. x \in Names \union {NoName} /\ NoName \notin Names
  BY NodeIs
<1>3. st.claims \in TypesOf(Nodes)
  BY FlatIs
<1>4. \A k \in Nodes : c[k] = IF k = n THEN t ELSE st.claims[k]
  BY <1>3 DEF Put, TypesOf
<1>5. Rebound(b, n) = b /\ \A u : Renarrowed(b, n, u) = u
  BY DEF Rebound, Renarrowed, Assigns
<1>6. Complains(b, n) <=> Unreadable(st, n)
  BY DEF Complains, Assigns, Unreadable
<1>7. \A bb, m, cc, rr : LET s == State(bb, m, cc, rr)
                         IN s.bindings = bb /\ s.narrowings = m /\ s.claims = cc /\ s.reported = rr
  BY StateFields
<1> HIDE DEF c, t, after, b
<1>8. CASE x = NoName
  BY <1>1, <1>2, <1>5, <1>8 DEF Edited, after, b
<1>9. CASE x # NoName /\ Unreadable(st, n)
  <2>1. after = State(st.bindings, st.narrowings, st.claims, st.reported \union {n})
    BY <1>1, <1>9
  <2> QED
    BY <1>2, <1>5, <1>6, <1>7, <1>9, <2>1 DEF Edited, after, b
<1>10. CASE x # NoName /\ ~Unreadable(st, n)
  <2>1. after = State(st.bindings, st.narrowings, c, st.reported)
    BY <1>1, <1>10
  <2> QED
    BY <1>2, <1>4, <1>5, <1>6, <1>7, <1>10, <2>1 DEF Edited, after, b, t
<1> QED
  BY <1>8, <1>9, <1>10

\* What the visit of a statement does itself, name by name.
LEMMA OwnEdits ==
  ASSUME Followed, NEW st, Flat(st), NEW n \in Nodes, NEW ignored
  PROVE  IF n \in ignored THEN Own(st, n, ignored) = st ELSE Edited(st, Own(st, n, ignored), n)
<1>1. tree[n].kind = "Assign" => tree[n].name \in Names
  BY NodeIs
<1>2. tree[n].kind = "For" /\ tree[n].name # NoName => tree[n].name \in Names
  BY NodeIs
<1>3. CASE n \in ignored
  BY <1>3 DEF Own
<1>4. CASE n \notin ignored /\ tree[n].kind = "Assign"
  <2>1. Assigns(n) /\ Exempt(n) = FALSE
    BY <1>4 DEF Assigns, Exempt
  <2>2. Own(st, n, ignored) = assign_name(st, n, Exempt(n))
    BY <1>4, <2>1 DEF Own
  <2> QED
    BY <1>1, <1>4, <2>1, <2>2, AssignEdits
<1>5. CASE n \notin ignored /\ tree[n].kind = "Declare"
  <2>1. Own(st, n, ignored) = redeclare_narrowing(bind_annotation(st, n), tree[n].name)
    BY <1>5 DEF Own
  <2> QED
    BY <1>5, <2>1, DeclareEdits
<1>6. CASE n \notin ignored /\ tree[n].kind = "Expr"
  <2>1. Own(st, n, ignored) = type_of_name(st, n)
    BY <1>6 DEF Own
  <2> QED
    BY <1>6, <2>1, ReadEdits
<1>7. CASE n \notin ignored /\ tree[n].kind = "For" /\ tree[n].name # NoName
  <2>1. Assigns(n) /\ Exempt(n) = TRUE
    BY <1>7 DEF Assigns, Exempt
  <2>2. Own(st, n, ignored) = assign_name(st, n, Exempt(n))
    BY <1>7, <2>1 DEF Own, TargetBound
  <2> QED
    BY <1>2, <1>7, <2>1, <2>2, AssignEdits
<1>8. CASE n \notin ignored /\ tree[n].kind \notin {"Assign", "Declare", "Expr"}
           /\ ~(tree[n].kind = "For" /\ tree[n].name # NoName)
  <2>1. Own(st, n, ignored) = st
    BY <1>8 DEF Own, TargetBound
  <2>2. NoName \notin Names
    BY NodeIs
  <2>3. tree[n].name \in Names => ~Assigns(n)
    BY <1>8, <2>2 DEF Assigns
  <2>4. \A b : tree[n].name \in Names => Rebound(b, n) = b /\ ~Complains(b, n) /\ \A t : Renarrowed(b, n, t) = t
    BY <1>8, <2>3 DEF Rebound, Complains, Renarrowed, Assigns
  <2> QED
    BY <1>8, <2>1, <2>4 DEF Edited
<1> QED
  BY <1>3, <1>4, <1>5, <1>6, <1>7, <1>8

-----------------------------------------------------------------------------
(* Two visits that pass over assignments of pruned arms, side by side.     *)

HoldsNoNone == \A n \in Nodes : tree[n].value # "NoneType"

\* In no arm that is pruned.
Spared(n) == \A m \in Path(n) : ~Pruned(m)
\* The lines of an arm of n are, if n is.
SparedArm(n, a) == Spared(n) /\ (Suite(tree, n, a) # {} => Spared(FirstOf(Suite(tree, n, a))))

\* Nothing that was passed over was to fill the placeholder.
Steady(b, x) ==
  /\ ~b.partial_none
  /\ BindingsOf(x) # {} => b.status # "unbound"
  /\ b.status = "placeholder" => b.bound_at \notin PrunedAssignments

\* The same bindings, and live code is told the same; Alike: and where no pruned arm is
\* visited, the same narrowings.
AllSteady(st) == \A x \in Names : Steady(st.bindings[x], x)
SameVerdict(s, t) == \A n \in Nodes : ~InDeadCode(n) =>
                       /\ n \in s.reported <=> n \in t.reported
                       /\ s.claims[n] = t.claims[n]
InAccord(s, t) == /\ Flat(s) /\ Flat(t) /\ s.bindings = t.bindings
               /\ AllSteady(s) /\ SameVerdict(s, t)
Alike(n, s, t) == InAccord(s, t) /\ (Spared(n) => s.narrowings = t.narrowings)

\* An assignment of a pruned arm is dead.
LEMMA PrunedIsDead ==
  ASSUME NEW n \in PrunedAssignments
  PROVE  n \in Nodes /\ tree[n].kind = "Assign" /\ InDeadCode(n) /\ ~Spared(n)
<1>1. PICK m \in {n} \union tree[n].within : Pruned(m)
  BY DEF PrunedAssignments
<1>2. InDeadArm(m)
  BY <1>1 DEF Pruned
<1> QED
  BY <1>1, <1>2 DEF PrunedAssignments, InDeadCode, Spared, Path

\* A statement that stores no None has another type to store.
LEMMA NoNone ==
  ASSUME Followed, NEW n \in Nodes, tree[n].value # "NoneType", tree[n].kind \in Binders
  PROVE  type_of_value(n) # NoneType
<1>1. type_of_value(n) = of(tree[n].value) /\ of(tree[n].value).kind = tree[n].value
  BY NodeIs, OfIs, FieldsOf
<1>2. NoneType.kind = "NoneType"
  BY OfIs, FieldsOf DEF NoneType
<1> QED
  BY <1>1, <1>2

\* A statement keeps the binding of its name steady, and one of a pruned arm leaves it as it is.
LEMMA SteadyBehind ==
  ASSUME Followed, NEW n \in Nodes, NEW x \in Names, tree[n].name = x, tree[n].value # "NoneType",
         NEW b \in Bindings, Steady(b, x)
  PROVE  Steady(Rebound(b, n), x) /\ (n \in PrunedAssignments => Rebound(b, n) = b)
<1> DEFINE type == type_of_value(n)
           o == Exempt(n)
           p == Seeds(type, o)
           e == "declared"
           filled == Binding(e, type, b.bound_at, b.declared_at, o, p)
           annotated == Binding(e, Object, b.bound_at, b.declared_at, b.order_exempt, b.partial_none)
<1>1. Assigns(n) => tree[n].kind \in Binders
  BY DEF Assigns, Binders, Stores
<1>2. tree[n].kind \in Binders => n \in BindingsOf(x) /\ b.status # "unbound"
  BY DEF BindingsOf, Steady
<1>3. Assigns(n) => ~p
  BY <1>1, NoNone DEF Seeds
<1>4. ~Resolves(b, n)
  BY DEF Resolves, Steady
<1>5. Rebound(b, n) \in {b, filled, annotated}
  BY <1>1, <1>2, <1>4 DEF Rebound
<1>6. Rebound(b, n) # b => \/ Assigns(n) /\ fills_placeholder(b, n) /\ Rebound(b, n) = filled
                           \/ ~Assigns(n) /\ Rebound(b, n) = annotated
  BY <1>1, <1>2, <1>4 DEF Rebound
<1>7. n \in PrunedAssignments => Assigns(n) /\ ~fills_placeholder(b, n)
  BY PrunedIsDead DEF Assigns, Steady, fills_placeholder
<1>8. e # "placeholder" /\ e # "unbound"
  OBVIOUS
<1> HIDE DEF filled, annotated, p, e
<1>9. filled.status = e /\ filled.partial_none = p /\ annotated.status = e
      /\ annotated.partial_none = b.partial_none
  BY BindingFields DEF filled, annotated
<1>10. CASE Rebound(b, n) = b
  BY <1>10
<1>11. CASE Rebound(b, n) # b
  BY <1>3, <1>6, <1>7, <1>8, <1>9, <1>11 DEF Steady
<1> QED
  BY <1>10, <1>11

\* Passed over or not, an assignment of a pruned arm leaves the bindings as they are.
LEMMA SteadyOwn ==
  ASSUME Followed, HoldsNoNone, NEW n \in Nodes, NEW st, Flat(st), AllSteady(st), NEW ignored,
         ignored \subseteq PrunedAssignments
  PROVE  /\ AllSteady(Own(st, n, ignored))
         /\ \A y \in Names : Own(st, n, ignored).bindings[y] =
              IF y = tree[n].name THEN Rebound(st.bindings[y], n) ELSE st.bindings[y]
<1> DEFINE x == tree[n].name
           after == Own(st, n, ignored)
<1>1. IF n \in ignored THEN after = st ELSE Edited(st, after, n)
  BY OwnEdits
<1>2. \A y \in Names : st.bindings[y] \in Bindings
  BY FlatIs
<1>3. ASSUME NEW y \in Names, y = x
      PROVE  Steady(Rebound(st.bindings[y], n), y) /\ (n \in PrunedAssignments => Rebound(st.bindings[y], n) = st.bindings[y])
  <2>1. Steady(st.bindings[y], y) /\ tree[n].value # "NoneType"
    BY DEF AllSteady, HoldsNoNone
  <2> QED
    BY <1>2, <1>3, <2>1, SteadyBehind
<1> HIDE DEF after
<1>4. \A y \in Names : after.bindings[y] = IF y = x THEN Rebound(st.bindings[y], n) ELSE st.bindings[y]
  BY <1>1, <1>3 DEF Edited
<1>5. AllSteady(after)
  BY <1>3, <1>4 DEF AllSteady
<1> QED
  BY <1>4, <1>5 DEF after

\* What the visit of one line tells live code, and what it narrows.
LEMMA OwnVerdict ==
  ASSUME Followed, NEW n \in Nodes, NEW s, NEW t, Alike(n, s, t), NEW ig1, NEW ig2,
         ig1 \subseteq PrunedAssignments, ig2 \subseteq PrunedAssignments
  PROVE  /\ SameVerdict(Own(s, n, ig1), Own(t, n, ig2))
         /\ Spared(n) => \A y \in Names : Own(s, n, ig1).narrowings[y] = Own(t, n, ig2).narrowings[y]
<1> DEFINE x == tree[n].name
           sn == Own(s, n, ig1)
           tn == Own(t, n, ig2)
<1>1. Flat(s) /\ Flat(t) /\ s.bindings = t.bindings /\ SameVerdict(s, t)
  BY DEF Alike, InAccord
<1>2. (IF n \in ig1 THEN sn = s ELSE Edited(s, sn, n)) /\ (IF n \in ig2 THEN tn = t ELSE Edited(t, tn, n))
  BY <1>1, OwnEdits
<1> HIDE DEF sn, tn
<1>3. CASE InDeadCode(n)
  <2>1. \A k \in Nodes : k # n => /\ k \in sn.reported <=> k \in s.reported
                                  /\ k \in tn.reported <=> k \in t.reported
                                  /\ sn.claims[k] = s.claims[k] /\ tn.claims[k] = t.claims[k]
    BY <1>2 DEF Edited
  <2>2. SameVerdict(sn, tn)
    BY <1>1, <1>3, <2>1 DEF SameVerdict
  <2>3. ASSUME Spared(n), NEW y \in Names PROVE sn.narrowings[y] = tn.narrowings[y]
    <3>1. n \notin ig1 /\ n \notin ig2
      BY <2>3, PrunedIsDead
    <3>2. s.narrowings = t.narrowings
      BY <2>3 DEF Alike
    <3> QED
      BY <1>1, <1>2, <3>1, <3>2 DEF Edited
  <2> QED
    BY <2>2, <2>3 DEF sn, tn
<1>4. CASE ~InDeadCode(n)
  <2>1. n \notin ig1 /\ n \notin ig2
    BY <1>4, PrunedIsDead
  <2>2. Edited(s, sn, n) /\ Edited(t, tn, n)
    BY <1>2, <2>1
  <2>3. Spared(n)
    BY <1>4 DEF Spared, Path, InDeadCode, Pruned
  <2>4. s.narrowings = t.narrowings
    BY <2>3 DEF Alike
  <2>5. \A y \in Names : sn.narrowings[y] = tn.narrowings[y]
    BY <1>1, <2>2, <2>4 DEF Edited
  <2>6. \A k \in Nodes : ~InDeadCode(k) => (k \in sn.reported <=> k \in tn.reported)
    BY <1>1, <2>2 DEF Edited, SameVerdict
  <2>7. \A k \in Nodes : ~InDeadCode(k) => sn.claims[k] = tn.claims[k]
    BY <1>1, <2>2, <2>4 DEF Edited, SameVerdict
  <2> QED
    BY <2>5, <2>6, <2>7 DEF sn, tn, SameVerdict
<1> QED
  BY <1>3, <1>4

\* Every statement keeps the two visits alike.
LEMMA OwnAlike ==
  ASSUME Followed, HoldsNoNone, NEW n \in Nodes, NEW s, NEW t, Alike(n, s, t), NEW ig1, NEW ig2,
         ig1 \subseteq PrunedAssignments, ig2 \subseteq PrunedAssignments
  PROVE  Alike(n, Own(s, n, ig1), Own(t, n, ig2))
<1> DEFINE sn == Own(s, n, ig1)
           tn == Own(t, n, ig2)
<1>1. Flat(s) /\ Flat(t) /\ s.bindings = t.bindings /\ AllSteady(s) /\ AllSteady(t)
  BY DEF Alike, InAccord, AllSteady
<1>2. Flat(sn) /\ Flat(tn)
  BY <1>1, FlatOwn
<1>3. AllSteady(sn) /\ \A y \in Names : sn.bindings[y] = tn.bindings[y]
  <2> DEFINE to(y) == IF y = tree[n].name THEN Rebound(s.bindings[y], n) ELSE s.bindings[y]
  <2>1. AllSteady(sn) /\ \A y \in Names : sn.bindings[y] = to(y)
    BY <1>1, SteadyOwn
  <2>2. \A y \in Names : tn.bindings[y] = IF y = tree[n].name THEN Rebound(t.bindings[y], n) ELSE t.bindings[y]
    BY <1>1, SteadyOwn
  <2> HIDE DEF sn, tn
  <2>3. \A y \in Names : tn.bindings[y] = to(y)
    BY <1>1, <2>2
  <2> QED
    BY <2>1, <2>3
<1>4. SameVerdict(sn, tn) /\ (Spared(n) => \A y \in Names : sn.narrowings[y] = tn.narrowings[y])
  BY OwnVerdict
<1> HIDE DEF sn, tn
<1>5. sn.bindings \in [Names -> Bindings] /\ tn.bindings \in [Names -> Bindings]
      /\ sn.narrowings \in [Names -> Known \union {NoType}] /\ tn.narrowings \in [Names -> Known \union {NoType}]
  BY <1>2, FlatIs
<1>6. sn.bindings = tn.bindings
  BY <1>3, <1>5
<1>7. Spared(n) => sn.narrowings = tn.narrowings
  BY <1>4, <1>5
<1>8. Alike(n, sn, tn)
  BY <1>2, <1>3, <1>4, <1>6, <1>7 DEF Alike, InAccord
<1> QED
  BY <1>8 DEF sn, tn

\* Where pruned arms stand.
LEMMA SparedLater ==
  ASSUME TreeOK, NEW n \in Nodes, Later(tree, n) # {}
  PROVE  Spared(FirstOf(Later(tree, n))) <=> Spared(n)
<1> DEFINE l == FirstOf(Later(tree, n))
<1>1. tree[l].up = tree[n].up /\ tree[l].arm = tree[n].arm /\ tree[l].within = tree[n].within
  BY FirstLater
<1> HIDE DEF l
<1>2. Pruned(l) <=> Pruned(n)
  BY <1>1 DEF Pruned, InDeadArm
<1>3. Spared(l) <=> Spared(n)
  BY <1>1, <1>2 DEF Spared, Path
<1> QED
  BY <1>3 DEF l

\* An arm that is pruned is left out of the join behind its if, and the other one is not.
LEMMA SparedArms ==
  ASSUME TreeOK, NEW n \in Nodes, NEW a
  PROVE  /\ Suite(tree, n, a) # {} /\ Spared(FirstOf(Suite(tree, n, a))) => SparedArm(n, a)
         /\ Spared(n) /\ tree[n].kind # "If" => SparedArm(n, a)
         /\ Spared(n) /\ ~SparedArm(n, a) => DroppedArm(n, a) /\ (DroppedArm(n, "body") # DroppedArm(n, "orelse"))
<1> DEFINE c == FirstOf(Suite(tree, n, a))
<1>1. CASE Suite(tree, n, a) = {}
  BY <1>1 DEF SparedArm
<1>2. CASE Suite(tree, n, a) # {}
  <2>1. tree[c].up = n /\ tree[c].arm = a /\ tree[c].within = Path(n)
    BY <1>2, FirstOfArm
  <2> HIDE DEF c
  <2>2. Spared(c) <=> Spared(n) /\ ~Pruned(c)
    BY <2>1 DEF Spared, Path
  <2>3. Pruned(c) => tree[n].kind = "If" /\ InDeadArm(c) /\ (DroppedArm(n, "body") # DroppedArm(n, "orelse"))
    BY <2>1 DEF Pruned
  <2>4. InDeadArm(c) => DroppedArm(n, a)
    BY <2>1 DEF InDeadArm, DroppedArm
  <2> QED
    BY <1>2, <2>2, <2>3, <2>4 DEF SparedArm, c
<1> QED
  BY <1>1, <1>2

\* What is narrowed does not touch the accord.
LEMMA AccordNarrowed ==
  ASSUME NEW s, NEW t, InAccord(s, t), NEW m1 \in FlatNarrowings, NEW m2 \in FlatNarrowings
  PROVE  /\ InAccord(SetNarrowings(s, m1), SetNarrowings(t, m2))
         /\ SetNarrowings(s, m1).narrowings = m1 /\ SetNarrowings(t, m2).narrowings = m2
<1> DEFINE sn == SetNarrowings(s, m1)
           tn == SetNarrowings(t, m2)
<1>1. Flat(s) /\ Flat(t)
  BY DEF InAccord
<1>2. /\ Flat(sn) /\ sn = State(s.bindings, m1, s.claims, s.reported)
      /\ Flat(tn) /\ tn = State(t.bindings, m2, t.claims, t.reported)
  BY <1>1, FlatRenarrowed
<1> HIDE DEF sn, tn
<1>3. /\ sn.bindings = s.bindings /\ sn.narrowings = m1 /\ sn.claims = s.claims /\ sn.reported = s.reported
      /\ tn.bindings = t.bindings /\ tn.narrowings = m2 /\ tn.claims = t.claims /\ tn.reported = t.reported
  BY <1>2, StateFields
<1>4. InAccord(sn, tn)
  BY <1>2, <1>3 DEF InAccord, AllSteady, SameVerdict
<1> QED
  BY <1>3, <1>4 DEF sn, tn

\* Nor do joins, and of the same edges they are the same.
LEMMA AccordJoined ==
  ASSUME NEW s, NEW t, InAccord(s, t), NEW e1, NEW e2, Edges(e1), Edges(e2)
  PROVE  /\ InAccord(Joined(s, e1), Joined(t, e2))
         /\ e1 = e2 => Joined(s, e1).narrowings = Joined(t, e2).narrowings
<1> DEFINE m1 == join_narrowings(e1, s.bindings)
           m2 == join_narrowings(e2, t.bindings)
<1>1. Flat(s) /\ Flat(t) /\ s.bindings = t.bindings
  BY DEF InAccord
<1>2. m1 \in FlatNarrowings /\ m2 \in FlatNarrowings
  BY <1>1, JoinFlat
<1>3. Joined(s, e1) = SetNarrowings(s, m1) /\ Joined(t, e2) = SetNarrowings(t, m2)
  BY DEF Joined, SetNarrowings
<1>4. e1 = e2 => m1 = m2
  BY <1>1
<1> HIDE DEF m1, m2
<1> QED
  BY <1>2, <1>3, <1>4, AccordNarrowed

\* The two visits from a statement on.
WalkedAlike(w1, w2, n) == \A s, t : Alike(n, s, t) => Alike(n, w1[n][s], w2[n][t])

\* Suites keep the two visits alike if all later statements do.
LEMMA SuiteAlike ==
  ASSUME TreeOK, NEW w1, NEW w2, NEW n \in Nodes, NEW a, \A k \in Nodes : k > n => WalkedAlike(w1, w2, k),
         NEW s, NEW t, InAccord(s, t), SparedArm(n, a) => s.narrowings = t.narrowings
  PROVE  LET p == check_suite(w1, s, n, a)
             q == check_suite(w2, t, n, a)
         IN InAccord(p, q) /\ (SparedArm(n, a) => p.narrowings = q.narrowings)
<1>1. CASE Suite(tree, n, a) = {}
  BY <1>1 DEF check_suite
<1>2. CASE Suite(tree, n, a) # {}
  <2> DEFINE c == FirstOf(Suite(tree, n, a))
  <2>1. c \in Nodes /\ n < c /\ n \in Nat /\ c \in Nat
    BY <1>2, FirstOfArm, NodesAre
  <2>2. SparedArm(n, a) <=> Spared(c)
    BY <1>2, SparedArms DEF SparedArm
  <2>3. check_suite(w1, s, n, a) = w1[c][s] /\ check_suite(w2, t, n, a) = w2[c][t]
    BY <1>2 DEF check_suite
  <2> HIDE DEF c
  <2>4. WalkedAlike(w1, w2, c)
    BY <2>1
  <2>5. Alike(c, s, t)
    BY <2>2 DEF Alike
  <2>6. Alike(c, w1[c][s], w2[c][t])
    BY <2>4, <2>5 DEF WalkedAlike
  <2> QED
    BY <2>2, <2>3, <2>6 DEF Alike
<1> QED
  BY <1>1, <1>2

\* An if: the pruned arm contributes no edge to the join.
LEMMA IfAlike ==
  ASSUME Followed, NEW w1, NEW w2, NEW n \in Nodes, \A k \in Nodes : k > n => WalkedAlike(w1, w2, k),
         tree[n].kind = "If", NEW s, NEW t, Alike(n, s, t)
  PROVE  Alike(n, visit_if(w1, s, n), visit_if(w2, t, n))
<1> DEFINE b1 == check_suite(w1, s, n, "body")
           b2 == check_suite(w2, t, n, "body")
           c1 == SetNarrowings(b1, s.narrowings)
           c2 == SetNarrowings(b2, t.narrowings)
           o1 == check_suite(w1, c1, n, "orelse")
           o2 == check_suite(w2, c2, n, "orelse")
           e1 == EdgesOf(n, b1.narrowings, o1.narrowings)
           e2 == EdgesOf(n, b2.narrowings, o2.narrowings)
           body == SparedArm(n, "body")
           orelse == SparedArm(n, "orelse")
<1>1. TreeOK
  BY DEF Followed
<1>2. visit_if(w1, s, n) = Joined(o1, e1) /\ visit_if(w2, t, n) = Joined(o2, e2)
  BY DEF visit_if, SetNarrowings
<1>3. InAccord(s, t) /\ (Spared(n) => s.narrowings = t.narrowings)
  BY DEF Alike
<1>4. (body => Spared(n)) /\ (orelse => Spared(n))
  BY DEF SparedArm
<1>5. InAccord(b1, b2) /\ (body => b1.narrowings = b2.narrowings)
  BY <1>1, <1>3, <1>4, SuiteAlike
<1> HIDE DEF b1, b2
<1>6. s.narrowings \in FlatNarrowings /\ t.narrowings \in FlatNarrowings
  BY <1>3 DEF InAccord, Flat
<1>7. InAccord(c1, c2) /\ c1.narrowings = s.narrowings /\ c2.narrowings = t.narrowings
  BY <1>5, <1>6, AccordNarrowed
<1> HIDE DEF c1, c2
<1>8. InAccord(o1, o2) /\ (orelse => o1.narrowings = o2.narrowings)
  BY <1>1, <1>3, <1>4, <1>7, SuiteAlike
<1> HIDE DEF o1, o2
<1>9. /\ b1.narrowings \in FlatNarrowings /\ b2.narrowings \in FlatNarrowings
      /\ o1.narrowings \in FlatNarrowings /\ o2.narrowings \in FlatNarrowings
  BY <1>5, <1>8 DEF InAccord, Flat
<1>10. Edges(e1) /\ Edges(e2)
  BY <1>9 DEF Edges, EdgesOf
<1>11. Spared(n) /\ ~body => DroppedArm(n, "body") /\ ~DroppedArm(n, "orelse")
  <2>1. DroppedArm(n, "body") \in BOOLEAN /\ DroppedArm(n, "orelse") \in BOOLEAN
    BY DEF DroppedArm
  <2> QED
    BY <1>1, <2>1, SparedArms
<1>12. Spared(n) /\ ~orelse => DroppedArm(n, "orelse") /\ ~DroppedArm(n, "body")
  <2>1. DroppedArm(n, "body") \in BOOLEAN /\ DroppedArm(n, "orelse") \in BOOLEAN
    BY DEF DroppedArm
  <2> QED
    BY <1>1, <2>1, SparedArms
<1>13. Spared(n) => e1 = e2
  <2>1. CASE body /\ orelse
    BY <1>5, <1>8, <2>1
  <2>2. CASE Spared(n) /\ ~body
    <3>1. orelse
      BY <1>11, <1>12, <2>2
    <3>2. e1 = <<o1.narrowings>> /\ e2 = <<o2.narrowings>>
      BY <1>11, <2>2 DEF EdgesOf
    <3> QED
      BY <1>8, <3>1, <3>2
  <2>3. CASE Spared(n) /\ ~orelse
    <3>1. body
      BY <1>11, <1>12, <2>3
    <3>2. e1 = <<b1.narrowings>> /\ e2 = <<b2.narrowings>>
      BY <1>12, <2>3 DEF EdgesOf
    <3> QED
      BY <1>5, <3>1, <3>2
  <2> QED
    BY <2>1, <2>2, <2>3
<1> HIDE DEF e1, e2
<1> QED
  BY <1>2, <1>8, <1>10, <1>13, AccordJoined DEF Alike

\* A loop: neither of its arms is pruned.
LEMMA LoopAlike ==
  ASSUME Followed, NEW w1, NEW w2, NEW n \in Nodes, \A k \in Nodes : k > n => WalkedAlike(w1, w2, k),
         tree[n].kind \in Loops, NEW s, NEW t, Alike(n, s, t),
         Alike(n, TargetBound(s, n), TargetBound(t, n))
  PROVE  Alike(n, visit_loop(w1, s, n), visit_loop(w2, t, n))
<1> DEFINE t1 == TargetBound(s, n)
           t2 == TargetBound(t, n)
           b1 == check_suite(w1, t1, n, "body")
           b2 == check_suite(w2, t2, n, "body")
           e1 == <<s.narrowings, b1.narrowings>>
           e2 == <<t.narrowings, b2.narrowings>>
           j1 == Joined(b1, e1)
           j2 == Joined(b2, e2)
<1>1. TreeOK
  BY DEF Followed
<1>2. /\ visit_loop(w1, s, n) = check_suite(w1, j1, n, "orelse")
      /\ visit_loop(w2, t, n) = check_suite(w2, j2, n, "orelse")
  BY DEF visit_loop
<1>3. InAccord(s, t) /\ (Spared(n) => s.narrowings = t.narrowings)
  BY DEF Alike
<1>4. InAccord(t1, t2) /\ (Spared(n) => t1.narrowings = t2.narrowings)
  BY DEF Alike
<1> HIDE DEF t1, t2
<1>5. /\ SparedArm(n, "body") <=> Spared(n)
      /\ SparedArm(n, "orelse") <=> Spared(n)
  <2>1. tree[n].kind # "If"
    BY DEF Loops
  <2> QED
    BY <1>1, <2>1, SparedArms DEF SparedArm
<1>6. InAccord(b1, b2) /\ (Spared(n) => b1.narrowings = b2.narrowings)
  BY <1>1, <1>4, <1>5, SuiteAlike
<1> HIDE DEF b1, b2
<1>7. /\ s.narrowings \in FlatNarrowings /\ t.narrowings \in FlatNarrowings
      /\ b1.narrowings \in FlatNarrowings /\ b2.narrowings \in FlatNarrowings
  BY <1>3, <1>6 DEF InAccord, Flat
<1>8. Edges(e1) /\ Edges(e2)
  BY <1>7 DEF Edges
<1>9. Spared(n) => e1 = e2
  BY <1>3, <1>6
<1> HIDE DEF e1, e2
<1>10. InAccord(j1, j2) /\ (Spared(n) => j1.narrowings = j2.narrowings)
  BY <1>6, <1>8, <1>9, AccordJoined
<1> HIDE DEF j1, j2
<1> DEFINE p == check_suite(w1, j1, n, "orelse")
           q == check_suite(w2, j2, n, "orelse")
<1>11. InAccord(p, q) /\ (Spared(n) => p.narrowings = q.narrowings)
  BY <1>1, <1>5, <1>10, SuiteAlike
<1> QED
  BY <1>2, <1>11 DEF Alike

\* Every statement, with all that is inside of it.
LEMMA VisitAlike ==
  ASSUME Followed, HoldsNoNone, NEW ig1, NEW ig2, ig1 \subseteq PrunedAssignments, ig2 \subseteq PrunedAssignments,
         NEW w1, NEW w2, NEW n \in Nodes, \A k \in Nodes : k > n => WalkedAlike(w1, w2, k),
         NEW s, NEW t, Alike(n, s, t)
  PROVE  Alike(n, visit(w1, s, n, ig1), visit(w2, t, n, ig2))
<1>1. Alike(n, Own(s, n, ig1), Own(t, n, ig2))
  BY OwnAlike
<1>2. tree[n].kind \in Compound => n \notin ig1 /\ n \notin ig2
  BY PrunedIsDead DEF Compound, Loops
<1>3. CASE tree[n].kind \notin Compound
  <2>1. \A w, st, ig : visit(w, st, n, ig) = Own(st, n, ig)
    BY <1>3 DEF visit, Own, TargetBound, Compound, Loops
  <2> QED
    BY <1>1, <2>1
<1>4. CASE tree[n].kind = "If"
  <2>1. visit(w1, s, n, ig1) = visit_if(w1, s, n) /\ visit(w2, t, n, ig2) = visit_if(w2, t, n)
    BY <1>2, <1>4 DEF visit, Compound, Loops
  <2> QED
    BY <1>4, <2>1, IfAlike
<1>5. CASE tree[n].kind \in Loops
  <2>1. visit(w1, s, n, ig1) = visit_loop(w1, s, n) /\ visit(w2, t, n, ig2) = visit_loop(w2, t, n)
    BY <1>2, <1>5 DEF visit, Compound, Loops
  <2>2. Own(s, n, ig1) = TargetBound(s, n) /\ Own(t, n, ig2) = TargetBound(t, n)
    BY <1>2, <1>5 DEF Own, Compound, Loops
  <2>3. Alike(n, TargetBound(s, n), TargetBound(t, n))
    BY <1>1, <2>2
  <2> QED
    BY <1>5, <2>1, <2>3, LoopAlike
<1> QED
  BY <1>3, <1>4, <1>5 DEF Compound

\* From every statement on, from the last one down.
LEMMA WalksAlike ==
  ASSUME Followed, HoldsNoNone, NEW ig1, NEW ig2, ig1 \subseteq PrunedAssignments, ig2 \subseteq PrunedAssignments
  PROVE  \A n \in Nodes : WalkedAlike(VisitsOf(ig1), VisitsOf(ig2), n)
<1> DEFINE w1 == VisitsOf(ig1)
           w2 == VisitsOf(ig2)
           T == {n \in Nodes : WalkedAlike(w1, w2, n)}
<1>1. TreeOK /\ Len(tree) \in Nat /\ Nodes = 1..Len(tree)
  BY NodesAre DEF Followed
<1>2. \A n \in Nodes : \A st : Flat(st) =>
        w1[n][st] = VisitFrom(w1, st, n, ig1) /\ w2[n][st] = VisitFrom(w2, st, n, ig2)
  BY <1>1, VisitsAre DEF Flat
<1> HIDE DEF w1, w2
<1>3. ASSUME NEW n \in Nodes, \A k \in Nodes : n < k => k \in T PROVE n \in T
  <2>1. \A k \in Nodes : k > n => WalkedAlike(w1, w2, k)
    BY <1>1, <1>3
  <2> SUFFICES ASSUME NEW s, NEW t, Alike(n, s, t) PROVE Alike(n, w1[n][s], w2[n][t])
    BY DEF WalkedAlike
  <2> DEFINE a1 == visit(w1, s, n, ig1)
             a2 == visit(w2, t, n, ig2)
             later == Later(tree, n)
             l == FirstOf(later)
             r1 == IF later = {} THEN a1 ELSE w1[l][a1]
             r2 == IF later = {} THEN a2 ELSE w2[l][a2]
             leaves == answer[n].leaves[Place(InLoopBody(n), NoName)]
  <2>2. Flat(s) /\ Flat(t)
    BY DEF Alike, InAccord
  <2>3. Alike(n, a1, a2)
    BY <2>1, VisitAlike
  <2>4. /\ w1[n][s] = IF leaves THEN SetNarrowings(r1, a1.narrowings) ELSE r1
        /\ w2[n][t] = IF leaves THEN SetNarrowings(r2, a2.narrowings) ELSE r2
    BY <1>2, <2>2 DEF VisitFrom, SetNarrowings
  <2> HIDE DEF a1, a2
  <2>5. Alike(n, r1, r2)
    <3>1. CASE later = {}
      BY <2>3, <3>1
    <3>2. CASE later # {}
      <4>1. l \in Nodes /\ l > n /\ (Spared(l) <=> Spared(n))
        BY <1>1, <3>2, FirstLater, SparedLater
      <4>2. WalkedAlike(w1, w2, l)
        BY <2>1, <4>1
      <4> HIDE DEF l
      <4>3. Alike(l, a1, a2)
        BY <2>3, <4>1 DEF Alike
      <4>4. Alike(l, w1[l][a1], w2[l][a2])
        BY <4>2, <4>3 DEF WalkedAlike
      <4> QED
        BY <3>2, <4>1, <4>4 DEF Alike
    <3> QED
      BY <3>1, <3>2
  <2> HIDE DEF r1, r2, leaves
  <2>6. a1.narrowings \in FlatNarrowings /\ a2.narrowings \in FlatNarrowings
    BY <2>3 DEF Alike, InAccord, Flat
  <2> DEFINE u1 == SetNarrowings(r1, a1.narrowings)
             u2 == SetNarrowings(r2, a2.narrowings)
  <2>7. InAccord(u1, u2) /\ u1.narrowings = a1.narrowings /\ u2.narrowings = a2.narrowings
    BY <2>5, <2>6, AccordNarrowed DEF Alike
  <2> HIDE DEF u1, u2
  <2>8. Alike(n, u1, u2)
    BY <2>3, <2>7 DEF Alike
  <2> QED
    BY <2>4, <2>5, <2>8 DEF u1, u2
<1> HIDE DEF T
<1>4. \A n \in 1..Len(tree) : (\A k \in 1..Len(tree) : n < k => k \in T) => n \in T
  BY <1>1, <1>3
<1>5. \A n \in 1..Len(tree) : n \in T
  BY <1>1, <1>4, LastFirst
<1> QED
  BY <1>1, <1>5 DEF T, w1, w2

\* No placeholder waits for an assignment of a pruned arm.
LEMMA StartSteady ==
  ASSUME Followed, hidden = Suppressed(answer), InFunction
  PROVE  Flat(Unvisited) /\ AllSteady(Unvisited)
<1>1. Flat(Unvisited)
  BY StartAdmits
<1>2. ASSUME NEW x \in Names PROVE Steady(Unvisited.bindings[x], x)
  <2> DEFINE b == Unvisited.bindings[x]
             B == BindingsOf(x)
             live == {n \in B : tree[n].kind = "Declare" \/ ~InDeadCode(n)}
             at == FirstOf(IF live # {} THEN live ELSE B)
             f == FirstOf(B)
             no == FALSE
             z == 0
             bare == "unbound"
             wait == "placeholder"
             none == Binding(bare, Unknown, z, z, no, no)
             due == Binding(wait, Unknown, at, f, no, no)
  <2>1. IF B = {} THEN b = none ELSE b = due
    BY StartBinding
  <2>2. live # {} => at \in live
    <3>1. live \in SUBSET B
      OBVIOUS
    <3>2. \A S \in SUBSET B : S # {} => FirstOf(S) \in S
      BY BindersAre
    <3> QED
      BY <3>1, <3>2
  <2>3. live = {} /\ B # {} => at \in B /\ ~BoundAlive(x)
    <3>1. B # {} => f \in B
      BY BindersAre
    <3>2. live = {} => ~BoundAlive(x)
      BY DEF BoundAlive
    <3> QED
      BY <3>1, <3>2
  <2>4. at \in B => tree[at].name = x
    BY DEF BindingsOf
  <2>5. B # {} => at \notin PrunedAssignments
    <3>1. at \in PrunedAssignments => at \notin live
      BY PrunedIsDead
    <3>2. at \in PrunedAssignments => BoundAlive(tree[at].name)
      BY DEF PrunedAssignments
    <3> QED
      BY <2>2, <2>3, <2>4, <3>1, <3>2
  <2>6. no = FALSE /\ bare # "placeholder" /\ wait # "unbound"
    OBVIOUS
  <2> HIDE DEF at, f, no, z, none, due, b, live, bare, wait
  <2>7. none.status = bare /\ none.partial_none = no
        /\ due.status = wait /\ due.partial_none = no /\ due.bound_at = at
    BY BindingFields DEF none, due
  <2>8. Steady(b, x)
    BY <2>1, <2>5, <2>6, <2>7 DEF Steady
  <2> QED
    BY <2>8 DEF b
<1> QED
  BY <1>1, <1>2 DEF AllSteady

\* Of the whole body.
LEMMA CheckedAlike ==
  ASSUME Followed, HoldsNoNone, hidden = Suppressed(answer), InFunction,
         NEW ig1, NEW ig2, ig1 \subseteq PrunedAssignments, ig2 \subseteq PrunedAssignments
  PROVE  SameVerdict(Checked(ig1), Checked(ig2))
<1>1. Suite(tree, 0, "body") # {} /\ FirstOf(Suite(tree, 0, "body")) = 1 /\ 1 \in Nodes
  BY EndOfBody DEF Followed
<1>2. Checked(ig1) = VisitsOf(ig1)[1][Unvisited] /\ Checked(ig2) = VisitsOf(ig2)[1][Unvisited]
  BY <1>1 DEF Checked, check_suite
<1>3. WalkedAlike(VisitsOf(ig1), VisitsOf(ig2), 1)
  BY <1>1, WalksAlike
<1>4. Alike(1, Unvisited, Unvisited)
  BY StartSteady DEF Alike, InAccord, SameVerdict
<1>5. Alike(1, Checked(ig1), Checked(ig2))
  BY <1>2, <1>3, <1>4 DEF WalkedAlike
<1> QED
  BY <1>5 DEF Alike, InAccord

\* Of every def whose names hold no None: whichever assignments of pruned arms the checker passes
\* over, it reports the same live statements and types live reads the same
\* (pre_bind_function_body, visit(If)).
THEOREM PrunedArmsAreSilent == TSpec => []PrunedArmsDecideNothing
<1>1. IInv /\ TypedInv => PrunedArmsDecideNothing
  <2> SUFFICES ASSUME IInv, TypedInv, PlainDef,
                      NEW one \in LiveVerdicts(PrunedAssignments), NEW other \in LiveVerdicts(PrunedAssignments)
               PROVE  one = other
    BY DEF PrunedArmsDecideNothing
  <2>1. Followed /\ hidden = Suppressed(answer)
    BY RunIsFollowed DEF TypedInv, PlainDef
  <2>2. PICK ig1 \in SUBSET PrunedAssignments : one = LiveVerdict(Checked(ig1))
    BY DEF LiveVerdicts
  <2>3. PICK ig2 \in SUBSET PrunedAssignments : other = LiveVerdict(Checked(ig2))
    BY DEF LiveVerdicts
  <2>4. SameVerdict(Checked(ig1), Checked(ig2))
    BY <2>1, CheckedAlike DEF PlainDef, HoldsNoNone
  <2> DEFINE c == Checked(ig1)
             d == Checked(ig2)
  <2> HIDE DEF c, d
  <2>5. \A n \in {m \in Nodes : ~InDeadCode(m)} :
          <<n \in c.reported, c.claims[n]>> = <<n \in d.reported, d.claims[n]>>
    BY <2>4 DEF SameVerdict, c, d
  <2>6. LiveVerdict(c) = LiveVerdict(d)
    BY <2>5 DEF LiveVerdict
  <2> QED
    BY <2>2, <2>3, <2>6 DEF c, d
<1>2. TSpec => []IInv
  BY TypedRunsAreRuns, Invariance, PTL
<1> QED
  BY <1>1, <1>2, TypedInvariance, PTL
=============================================================================
