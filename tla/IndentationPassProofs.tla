----------------------- MODULE IndentationPassProofs -----------------------
(***************************************************************************)
(* Proofs about IndentationPass, for every MaxCol and MaxDepth: the stream *)
(* it returns is balanced, its stack is ordered in both measures, and a    *)
(* text without a diagnostic has the same blocks under both.               *)
(***************************************************************************)
EXTENDS IndentationPass, SequenceTheorems, TLAPS

\* The stack read as a sequence.
LEMMA LevelsShape ==
  ASSUME TypeOK
  PROVE  /\ Len(levels) \in Nat /\ Len(levels) >= 1
         /\ DOMAIN levels = 1..Len(levels)
         /\ \A i \in 1..Len(levels) : levels[i] \in IndentLevel
         /\ Back \in IndentLevel
<1>1. levels \in Seq(IndentLevel) /\ levels # <<>>
  BY DEF TypeOK
<1>2. Len(levels) \in Nat /\ Len(levels) >= 1 /\ DOMAIN levels = 1..Len(levels)
  BY <1>1
<1>3. \A i \in 1..Len(levels) : levels[i] \in IndentLevel
  BY <1>1, <1>2
<1>4. QED
  BY <1>2, <1>3 DEF Back

\* What is left of the stack when k levels are kept.
LEMMA KeptShape ==
  ASSUME TypeOK, NEW k \in 1..Len(levels)
  PROVE  /\ SubSeq(levels, 1, k) \in Seq(IndentLevel)
         /\ Len(SubSeq(levels, 1, k)) = k
         /\ \A i \in 1..k : SubSeq(levels, 1, k)[i] = levels[i]
<1>1. /\ Len(levels) \in Nat
      /\ \A i \in 1..Len(levels) : levels[i] \in IndentLevel
  BY LevelsShape
<1>2. levels \in Seq(IndentLevel)
  BY DEF TypeOK
<1>3. QED
  BY <1>1, <1>2

\* The stack when the line replaces the levels above k.
LEMMA ReplacedShape ==
  ASSUME TypeOK, NEW k \in 1..Len(levels), k > 1
  PROVE  LET s == Append(SubSeq(levels, 1, k - 1), pending)
         IN /\ s \in Seq(IndentLevel)
            /\ Len(s) = k
            /\ \A i \in 1..(k - 1) : s[i] = levels[i]
            /\ s[k] = pending
<1>1. k - 1 \in 1..Len(levels)
  BY LevelsShape
<1>2. /\ SubSeq(levels, 1, k - 1) \in Seq(IndentLevel)
      /\ Len(SubSeq(levels, 1, k - 1)) = k - 1
      /\ \A i \in 1..(k - 1) : SubSeq(levels, 1, k - 1)[i] = levels[i]
  BY <1>1, KeptShape
<1>3. pending \in IndentLevel
  BY DEF TypeOK
<1>4. QED
  BY <1>2, <1>3

-----------------------------------------------------------------------------
(* close_line, one lemma per outcome: what the stack is afterwards.        *)

\* A deeper line is pushed on the stack it found.
LEMMA IndentShape ==
  ASSUME TypeOK, Indent
  PROVE  /\ levels' \in Seq(IndentLevel)
         /\ Len(levels') = Len(levels) + 1
         /\ \A i \in 1..Len(levels) : levels'[i] = levels[i]
         /\ levels'[Len(levels) + 1] = pending
<1>1. pending \in IndentLevel /\ levels \in Seq(IndentLevel)
  BY DEF TypeOK
<1>2. levels' = Append(levels, pending)
  BY DEF Indent
<1>3. QED
  BY <1>1, <1>2, LevelsShape

\* A shallower line keeps the k levels that are not deeper than it.
LEMMA DedentShape ==
  ASSUME TypeOK, Dedent
  PROVE  \E k \in 1..Len(levels) :
           /\ StaysOpen(k)
           /\ balance' = balance - (Len(levels) - k)
           /\ levels' \in Seq(IndentLevel)
           /\ Len(levels') = k
           /\ \A i \in 1..(k - 1) : levels'[i] = levels[i]
           /\ \/ /\ levels[k].col # pending.col
                 /\ errors' = errors \union {"IndentationError"}
                 /\ levels'[k] = IF k > 1 THEN pending ELSE levels[k]
              \/ /\ levels[k].col = pending.col
                 /\ TabErrorIf(pending.alt_col # levels[k].alt_col)
                 /\ levels'[k] = levels[k]
<1>1. PICK k \in DOMAIN levels :
        /\ StaysOpen(k)
        /\ balance' = balance - (Len(levels) - k)
        /\ IF levels[k].col # pending.col
           THEN /\ errors' = errors \union {"IndentationError"}
                /\ levels' = IF k > 1 THEN Append(SubSeq(levels, 1, k - 1), pending)
                                      ELSE SubSeq(levels, 1, 1)
           ELSE /\ TabErrorIf(pending.alt_col # levels[k].alt_col)
                /\ levels' = SubSeq(levels, 1, k)
  BY DEF Dedent
<1>2. k \in 1..Len(levels)
  BY LevelsShape
<1>3. CASE levels[k].col # pending.col /\ k > 1
  BY <1>1, <1>2, <1>3, ReplacedShape
<1>4. CASE levels[k].col # pending.col /\ ~(k > 1)
  <2>1. k = 1
    BY <1>2, <1>4, LevelsShape
  <2>2. levels' = SubSeq(levels, 1, k)
    BY <1>1, <1>4, <2>1
  <2>3. /\ levels' \in Seq(IndentLevel)
        /\ Len(levels') = k
        /\ \A i \in 1..k : levels'[i] = levels[i]
    BY <1>2, <2>2, KeptShape
  <2>4. QED
    BY <1>1, <1>2, <1>4, <2>1, <2>3
<1>5. CASE levels[k].col = pending.col
  BY <1>1, <1>2, <1>5, KeptShape, LevelsShape
<1>6. QED
  BY <1>3, <1>4, <1>5

\* flush leaves the sentinel alone.
LEMMA FlushShape ==
  ASSUME TypeOK, flush
  PROVE  /\ levels' \in Seq(IndentLevel)
         /\ Len(levels') = 1
         /\ levels'[1] = levels[1]
BY LevelsShape, KeptShape DEF flush

-----------------------------------------------------------------------------
(* The inductive invariant.                                                *)

LEMMA InitIInv == Init => IInv
<1> SUFFICES ASSUME Init PROVE IInv
  OBVIOUS
<1>1. Sentinel \in IndentLevel /\ InBounds(Sentinel)
  BY IndentationAssumption DEF Sentinel, IndentLevel, InBounds
<1>2. Len(levels) = 1 /\ levels[1] = Sentinel /\ DOMAIN levels = 1..1
  BY DEF Init
<1>3. TypeOK
  BY <1>1 DEF Init, TypeOK
<1>4. StackOrdered /\ AltOrdered
  BY <1>2 DEF StackOrdered, AltOrdered
<1>5. QED
  BY <1>1, <1>2, <1>3, <1>4 DEF IInv, Init, BalanceIsDepth

\* The whitespace actions move pending only.
LEMMA MeasureStep ==
  ASSUME IInv, Space \/ Tab \/ Newline
  PROVE  IInv'
<1>1. pending' \in IndentLevel /\ InBounds(pending')
  <2>1. CASE Space
    <3>1. /\ pending.col \in Nat /\ pending.alt_col \in Nat
          /\ pending.alt_col <= pending.col /\ pending.col < MaxCol
          /\ pending' = [col |-> pending.col + 1, alt_col |-> pending.alt_col + 1]
      BY <2>1 DEF Space, IInv, TypeOK, IndentLevel, InBounds
    <3>2. QED
      BY <3>1, IndentationAssumption DEF IndentLevel, InBounds
  <2>2. CASE Tab
    BY <2>2, IndentationAssumption
       DEF Tab, NextTabStop, TAB_STOP, IInv, TypeOK, IndentLevel, InBounds
  <2>3. CASE Newline
    BY <2>3, IndentationAssumption DEF Newline, Sentinel, IndentLevel, InBounds
  <2>4. QED
    BY <2>1, <2>2, <2>3
<1>2. measuring' \in BOOLEAN /\ UNCHANGED <<levels, balance, errors, stage>>
  BY DEF Space, Tab, Newline, IInv, TypeOK
<1>3. QED
  BY <1>1, <1>2 DEF IInv, TypeOK, StackOrdered, BalanceIsDepth, AltOrdered, InBounds

\* The stack and the counters after close_line, whatever it found.
LEMMA CloseLineStep ==
  ASSUME IInv, SameLevel \/ Indent \/ Dedent
  PROVE  /\ levels' \in Seq(IndentLevel) /\ levels' # <<>>
         /\ balance' \in Int /\ errors' \subseteq {"TabError", "IndentationError"}
         /\ StackOrdered' /\ BalanceIsDepth' /\ AltOrdered'
         /\ \A i \in DOMAIN levels' : InBounds(levels'[i])
<1> USE DEF IInv
<1>1. CASE SameLevel
  BY <1>1 DEF SameLevel, TabErrorIf, TypeOK, StackOrdered, BalanceIsDepth, AltOrdered
<1>2. CASE Indent
  <2>1. /\ levels' \in Seq(IndentLevel)
        /\ Len(levels') = Len(levels) + 1
        /\ \A i \in 1..Len(levels) : levels'[i] = levels[i]
        /\ levels'[Len(levels) + 1] = pending
        /\ DOMAIN levels' = 1..(Len(levels) + 1)
    BY <1>2, IndentShape
  <2>2. /\ Len(levels) \in Nat /\ Len(levels) >= 1
        /\ DOMAIN levels = 1..Len(levels)
        /\ \A i \in 1..Len(levels) : levels[i] \in IndentLevel
    BY LevelsShape
  <2>3. balance' = balance + 1 /\ balance \in Int
    BY <1>2 DEF Indent, TypeOK
  <2>4. BalanceIsDepth' /\ balance' \in Int
    BY <2>1, <2>2, <2>3 DEF BalanceIsDepth
  <2>5. errors' \subseteq {"TabError", "IndentationError"}
    BY <1>2 DEF Indent, TabErrorIf, TypeOK
  <2>6. pending.col > levels[Len(levels)].col /\ pending \in IndentLevel
    BY <1>2 DEF Indent, Back, TypeOK
  <2>7. \A i \in 1..Len(levels) : levels[i].col <= levels[Len(levels)].col
    BY <2>2 DEF StackOrdered, IndentLevel
  <2>8. StackOrdered'
    <3>1. levels'[1] = Sentinel
      BY <2>1, <2>2 DEF StackOrdered
    <3>2. ASSUME NEW i \in DOMAIN levels', NEW j \in DOMAIN levels', i < j
          PROVE  levels'[i].col < levels'[j].col
      <4>1. CASE j \in 1..Len(levels)
        BY <2>1, <2>2, <3>2, <4>1 DEF StackOrdered
      <4>2. CASE j = Len(levels) + 1
        BY <2>1, <2>2, <2>6, <2>7, <3>2, <4>2 DEF IndentLevel
      <4>3. QED
        BY <2>1, <2>2, <4>1, <4>2
    <3>3. QED
      BY <3>1, <3>2 DEF StackOrdered
  <2>9. AltOrdered'
    <3>1. SUFFICES ASSUME errors' = {}, NEW i \in DOMAIN levels', NEW j \in DOMAIN levels', i < j
                   PROVE  levels'[i].alt_col < levels'[j].alt_col
      BY DEF AltOrdered
    <3>2. errors = {} /\ pending.alt_col > levels[Len(levels)].alt_col
      <4>1. TabErrorIf(pending.alt_col <= Back.alt_col)
        BY <1>2 DEF Indent
      <4>2. errors = {} /\ ~(pending.alt_col <= Back.alt_col)
        BY <3>1, <4>1 DEF TabErrorIf
      <4>3. pending.alt_col \in Nat /\ levels[Len(levels)].alt_col \in Nat
        BY <2>2, <2>6 DEF IndentLevel
      <4>4. QED
        BY <4>2, <4>3 DEF Back
    <3>3. \A m \in 1..Len(levels) : levels[m].alt_col <= levels[Len(levels)].alt_col
      <4>1. SUFFICES ASSUME NEW m \in 1..Len(levels)
                     PROVE  levels[m].alt_col <= levels[Len(levels)].alt_col
        OBVIOUS
      <4>2. levels[m].alt_col \in Nat
        BY <2>2 DEF IndentLevel
      <4>3. Len(levels) \in DOMAIN levels
        BY <2>2
      <4>4. CASE m = Len(levels)
        BY <4>2, <4>4
      <4>5. CASE m < Len(levels)
        <5>1. levels[m].alt_col < levels[Len(levels)].alt_col
          BY <2>2, <3>2, <4>3, <4>5 DEF AltOrdered
        <5>2. levels[Len(levels)].alt_col \in Nat
          BY <2>2 DEF IndentLevel
        <5>3. QED
          BY <4>2, <5>1, <5>2
      <4>6. m = Len(levels) \/ m < Len(levels)
        <5>1. Len(levels) \in Nat
          BY <2>2
        <5>2. QED
          BY <5>1
      <4>7. QED
        BY <4>4, <4>5, <4>6
    <3>4. CASE j \in 1..Len(levels)
      BY <2>1, <2>2, <3>1, <3>2, <3>4 DEF AltOrdered
    <3>5. CASE j = Len(levels) + 1
      BY <2>1, <2>2, <2>6, <3>1, <3>2, <3>3, <3>5 DEF IndentLevel
    <3>6. QED
      BY <2>1, <2>2, <3>4, <3>5
  <2>10. \A i \in DOMAIN levels' : InBounds(levels'[i])
    BY <2>1, <2>2
  <2>11. QED
    BY <2>1, <2>4, <2>5, <2>8, <2>9, <2>10
<1>3. CASE Dedent
  <2>1. PICK k \in 1..Len(levels) :
           /\ StaysOpen(k)
           /\ balance' = balance - (Len(levels) - k)
           /\ levels' \in Seq(IndentLevel)
           /\ Len(levels') = k
           /\ \A i \in 1..(k - 1) : levels'[i] = levels[i]
           /\ \/ /\ levels[k].col # pending.col
                 /\ errors' = errors \union {"IndentationError"}
                 /\ levels'[k] = IF k > 1 THEN pending ELSE levels[k]
              \/ /\ levels[k].col = pending.col
                 /\ TabErrorIf(pending.alt_col # levels[k].alt_col)
                 /\ levels'[k] = levels[k]
    BY <1>3, DedentShape
  <2>2. /\ Len(levels) \in Nat /\ Len(levels) >= 1
        /\ DOMAIN levels = 1..Len(levels)
        /\ \A i \in 1..Len(levels) : levels[i] \in IndentLevel
    BY LevelsShape
  <2>3. DOMAIN levels' = 1..k /\ levels' # <<>>
    BY <2>1, <2>2
  <2>4. BalanceIsDepth' /\ balance' \in Int
    BY <2>1, <2>2 DEF BalanceIsDepth, TypeOK
  <2>5. errors' \subseteq {"TabError", "IndentationError"}
    BY <2>1 DEF TabErrorIf, TypeOK
  <2>6. levels'[k].col >= levels[k].col
    BY <2>1, <2>2 DEF StaysOpen, TypeOK, IndentLevel
  <2>7. StackOrdered'
    <3>1. levels'[1] = Sentinel
      BY <2>1, <2>2 DEF StackOrdered
    <3>2. ASSUME NEW i \in DOMAIN levels', NEW j \in DOMAIN levels', i < j
          PROVE  levels'[i].col < levels'[j].col
      <4>1. i \in 1..(k - 1) /\ levels'[i] = levels[i] /\ levels[i].col < levels[j].col
        BY <2>1, <2>2, <2>3, <3>2 DEF StackOrdered
      <4>2. levels'[j].col >= levels[j].col
        <5>1. CASE j = k
          BY <2>6, <5>1
        <5>2. CASE j # k
          <6>1. j \in 1..(k - 1)
            BY <2>2, <2>3, <5>2
          <6>2. j \in 1..Len(levels) /\ levels'[j] = levels[j]
            BY <2>1, <2>2, <6>1
          <6>3. levels[j].col \in Nat
            BY <2>2, <6>2 DEF IndentLevel
          <6>4. QED
            BY <6>2, <6>3
        <5>3. QED
          BY <5>1, <5>2
      <4>3. levels'[j] \in IndentLevel /\ levels[j] \in IndentLevel /\ levels[i] \in IndentLevel
        BY <2>1, <2>2, <2>3
      <4>4. QED
        BY <4>1, <4>2, <4>3 DEF IndentLevel
    <3>3. QED
      BY <3>1, <3>2 DEF StackOrdered
  <2>8. AltOrdered'
    <3>1. SUFFICES ASSUME errors' = {}, NEW i \in DOMAIN levels', NEW j \in DOMAIN levels', i < j
                   PROVE  levels'[i].alt_col < levels'[j].alt_col
      BY DEF AltOrdered
    <3>2. errors = {} /\ levels'[k] = levels[k]
      BY <2>1, <3>1 DEF TabErrorIf
    <3>3. QED
      BY <2>1, <2>2, <2>3, <3>1, <3>2 DEF AltOrdered
  <2>9. \A i \in DOMAIN levels' : InBounds(levels'[i])
    BY <2>1, <2>2, <2>3
  <2>10. QED
    BY <2>1, <2>3, <2>4, <2>5, <2>7, <2>8, <2>9
<1>4. QED
  BY <1>1, <1>2, <1>3

LEMMA FlushStep ==
  ASSUME IInv, flush, UNCHANGED <<pending, measuring, errors>>,
         stage' \in {"reading", "returned"}
  PROVE  IInv'
<1>1. /\ levels' \in Seq(IndentLevel)
      /\ Len(levels') = 1
      /\ levels'[1] = levels[1]
      /\ DOMAIN levels' = 1..1
  BY FlushShape DEF IInv
<1>2. levels[1] = Sentinel /\ 1 \in DOMAIN levels /\ Len(levels) \in Nat
  BY LevelsShape DEF IInv, StackOrdered
<1>3. balance' = 0
  BY <1>2 DEF IInv, BalanceIsDepth, flush
<1>4. TypeOK'
  <2>1. levels' # <<>>
    <3>1. Len(<<>>) # 1
      OBVIOUS
    <3>2. Len(levels') = 1
      BY <1>1
    <3>3. QED
      BY <3>1, <3>2, Zenon
  <2>2. pending' \in IndentLevel /\ measuring' \in BOOLEAN
        /\ errors' \subseteq {"TabError", "IndentationError"}
    BY DEF IInv, TypeOK
  <2>3. QED
    BY <1>1, <1>3, <2>1, <2>2 DEF TypeOK
<1>5. StackOrdered' /\ AltOrdered' /\ BalanceIsDepth'
  BY <1>1, <1>2, <1>3 DEF StackOrdered, AltOrdered, BalanceIsDepth
<1>6. \A i \in DOMAIN levels' : InBounds(levels'[i])
  BY <1>1, <1>2 DEF IInv
<1>7. InBounds(pending')
  BY DEF IInv
<1>8. QED
  BY <1>1, <1>4, <1>5, <1>6, <1>7 DEF IInv

LEMMA StepIInv == IInv /\ [Next]_vars => IInv'
<1> SUFFICES ASSUME IInv, [Next]_vars PROVE IInv'
  OBVIOUS
<1>1. CASE Space \/ Tab \/ Newline
  BY <1>1, MeasureStep
<1>2. CASE UNCHANGED vars
  BY <1>2 DEF vars, IInv, TypeOK, StackOrdered, BalanceIsDepth, AltOrdered, InBounds
<1>3. CASE Significant
  <2>1. stage' = "reading" /\ measuring' = FALSE /\ UNCHANGED pending
    BY <1>3 DEF Significant
  <2>2. CASE measuring
    <3>1. SameLevel \/ Indent \/ Dedent
      BY <1>3, <2>2 DEF Significant
    <3>2. QED
      BY <2>1, <3>1, CloseLineStep DEF IInv, TypeOK, InBounds
  <2>3. CASE ~measuring
    <3>1. UNCHANGED <<levels, balance, errors>>
      BY <1>3, <2>3 DEF Significant
    <3>2. QED
      BY <2>1, <3>1 DEF IInv, TypeOK, StackOrdered, BalanceIsDepth, AltOrdered, InBounds
  <2>4. QED
    BY <2>2, <2>3
<1>4. CASE Eof
  BY <1>4, FlushStep DEF Eof
<1>5. CASE Return
  BY <1>5, FlushStep DEF Return
<1>6. QED
  BY <1>1, <1>2, <1>3, <1>4, <1>5 DEF Next, Comment

\* The inductive invariant holds of every stream the pass is given.
THEOREM Invariance == Spec => []IInv
<1>1. QED
  BY InitIInv, StepIInv, PTL DEF Spec

\* The state of the pass keeps its types (Builder's members).
THEOREM TypeCorrect == Spec => []TypeOK
<1>1. IInv => TypeOK
  BY DEF IInv
<1>2. QED
  BY <1>1, Invariance, PTL

\* The sentinel survives every recovery and the columns of levels_ increase.
THEOREM StackStaysOrdered == Spec => []StackOrdered
<1>1. IInv => StackOrdered
  BY DEF IInv
<1>2. QED
  BY <1>1, Invariance, PTL

\* Every INDENT run() emits is answered by exactly one DEDENT, which comes after it.
THEOREM StreamIsBalanced == Spec => []Balanced
<1>1. IInv => Balanced
  BY LevelsShape DEF IInv, Balanced, BalanceIsDepth
<1>2. QED
  BY <1>1, Invariance, PTL

-----------------------------------------------------------------------------
(* One reading in both measures.                                           *)

\* A sequence of columns one longer than another that it continues.
LEMMA LongerIsAppend ==
  ASSUME NEW s \in Seq(Nat), NEW t \in Seq(Nat), NEW c \in Nat,
         Len(t) = Len(s) + 1, t[Len(s) + 1] = c,
         \A i \in 1..Len(s) : t[i] = s[i]
  PROVE  t = Append(s, c)
<1>1. Append(s, c) \in Seq(Nat) /\ Len(Append(s, c)) = Len(s) + 1
  OBVIOUS
<1>2. \A i \in 1..Len(t) : t[i] = Append(s, c)[i]
  OBVIOUS
<1>3. QED
  BY <1>1, <1>2, SeqEqual

\* A sequence of columns that is the first k of another.
LEMMA ShorterIsSubSeq ==
  ASSUME NEW s \in Seq(Nat), NEW t \in Seq(Nat), NEW k \in 1..Len(s),
         Len(t) = k, \A i \in 1..k : t[i] = s[i]
  PROVE  t = SubSeq(s, 1, k)
<1>1. \A i \in 1..k : s[i] \in Nat
  OBVIOUS
<1>2. /\ SubSeq(s, 1, k) \in Seq(Nat)
      /\ Len(SubSeq(s, 1, k)) = k
      /\ \A i \in 1..k : SubSeq(s, 1, k)[i] = s[i]
  OBVIOUS
<1>3. QED
  BY <1>2, SeqEqual

\* The stack read in either measure is a sequence of columns.
LEMMA MeasureShape ==
  ASSUME TypeOK
  PROVE  /\ Cols \in Seq(Nat) /\ Len(Cols) = Len(levels)
         /\ Alts \in Seq(Nat) /\ Len(Alts) = Len(levels)
         /\ \A i \in 1..Len(levels) : Cols[i] = levels[i].col /\ Alts[i] = levels[i].alt_col
<1>1. /\ Len(levels) \in Nat
      /\ DOMAIN levels = 1..Len(levels)
      /\ \A i \in 1..Len(levels) : levels[i].col \in Nat /\ levels[i].alt_col \in Nat
  BY LevelsShape DEF IndentLevel
<1>2. Cols \in [1..Len(levels) -> Nat] /\ Alts \in [1..Len(levels) -> Nat]
  BY <1>1 DEF Cols, Alts
<1>3. QED
  BY <1>1, <1>2 DEF Cols, Alts

\* The line opens a block in both measures.
LEMMA IndentReads ==
  ASSUME IInv, IInv', Indent, errors' = {}
  PROVE  /\ Cols' = Append(Cols, pending.col) /\ pending.col > Cols[Len(Cols)]
         /\ Alts' = Append(Alts, pending.alt_col) /\ pending.alt_col > Alts[Len(Alts)]
         /\ pending.col \in 0..MaxCol /\ pending.alt_col \in 0..MaxCol
         /\ balance' = balance + 1
<1>1. TypeOK /\ TypeOK'
  BY DEF IInv
<1>2. /\ Len(levels') = Len(levels) + 1
      /\ \A i \in 1..Len(levels) : levels'[i] = levels[i]
      /\ levels'[Len(levels) + 1] = pending
  BY <1>1, IndentShape
<1>3. /\ Cols \in Seq(Nat) /\ Len(Cols) = Len(levels)
      /\ Alts \in Seq(Nat) /\ Len(Alts) = Len(levels)
      /\ \A i \in 1..Len(levels) : Cols[i] = levels[i].col /\ Alts[i] = levels[i].alt_col
  BY <1>1, MeasureShape
<1>4. /\ Cols' \in Seq(Nat) /\ Len(Cols') = Len(levels')
      /\ Alts' \in Seq(Nat) /\ Len(Alts') = Len(levels')
      /\ \A i \in 1..Len(levels') : Cols'[i] = levels'[i].col /\ Alts'[i] = levels'[i].alt_col
  <2>1. (TypeOK => /\ Cols \in Seq(Nat) /\ Len(Cols) = Len(levels)
                   /\ Alts \in Seq(Nat) /\ Len(Alts) = Len(levels)
                   /\ \A i \in 1..Len(levels) : Cols[i] = levels[i].col /\ Alts[i] = levels[i].alt_col)'
    BY MeasureShape, PTL
  <2>2. QED
    BY <1>1, <2>1
<1>5. /\ pending.col \in Nat /\ pending.alt_col \in Nat
      /\ pending.alt_col <= pending.col /\ pending.col <= MaxCol
  BY DEF IInv, TypeOK, IndentLevel, InBounds
<1>6. Len(levels) \in Nat /\ Len(levels) >= 1
      /\ levels[Len(levels)].alt_col \in Nat
  BY <1>1, LevelsShape DEF IndentLevel
<1>7. /\ pending.col > levels[Len(levels)].col
      /\ balance' = balance + 1
      /\ TabErrorIf(pending.alt_col <= Back.alt_col)
  BY DEF Indent, Back
<1>8. ~(pending.alt_col <= levels[Len(levels)].alt_col)
  BY <1>7 DEF TabErrorIf, Back
<1>9. pending.alt_col > levels[Len(levels)].alt_col
  BY <1>5, <1>6, <1>8
<1>10. Cols' = Append(Cols, pending.col)
  <2>1. Len(Cols') = Len(Cols) + 1
    BY <1>2, <1>3, <1>4
  <2>2. Cols'[Len(Cols) + 1] = pending.col
    BY <1>2, <1>3, <1>4, <1>6
  <2>3. \A i \in 1..Len(Cols) : Cols'[i] = Cols[i]
    <3>1. SUFFICES ASSUME NEW i \in 1..Len(levels) PROVE Cols'[i] = Cols[i]
      BY <1>3
    <3>2. i \in 1..Len(levels') /\ levels'[i] = levels[i]
      BY <1>2, <1>6
    <3>3. QED
      BY <1>3, <1>4, <3>2
  <2>4. Cols \in Seq(Nat) /\ Cols' \in Seq(Nat) /\ pending.col \in Nat
    BY <1>3, <1>4, <1>5
  <2>5. QED
    BY <2>1, <2>2, <2>3, <2>4, LongerIsAppend
<1>11. Alts' = Append(Alts, pending.alt_col)
  <2>1. Len(Alts') = Len(Alts) + 1
    BY <1>2, <1>3, <1>4
  <2>2. Alts'[Len(Alts) + 1] = pending.alt_col
    BY <1>2, <1>3, <1>4, <1>6
  <2>3. \A i \in 1..Len(Alts) : Alts'[i] = Alts[i]
    <3>1. SUFFICES ASSUME NEW i \in 1..Len(levels) PROVE Alts'[i] = Alts[i]
      BY <1>3
    <3>2. i \in 1..Len(levels') /\ levels'[i] = levels[i]
      BY <1>2, <1>6
    <3>3. QED
      BY <1>3, <1>4, <3>2
  <2>4. Alts \in Seq(Nat) /\ Alts' \in Seq(Nat) /\ pending.alt_col \in Nat
    BY <1>3, <1>4, <1>5
  <2>5. QED
    BY <2>1, <2>2, <2>3, <2>4, LongerIsAppend
<1>12. QED
  BY <1>3, <1>5, <1>6, <1>7, <1>9, <1>10, <1>11, IndentationAssumption

\* The line closes the same blocks in both measures.
LEMMA CutReads ==
  ASSUME IInv, IInv', NEW k \in 1..Len(levels), Len(levels') = k,
         \A i \in 1..k : levels'[i] = levels[i]
  PROVE  Cols' = SubSeq(Cols, 1, k) /\ Alts' = SubSeq(Alts, 1, k)
<1>1. TypeOK /\ TypeOK'
  BY DEF IInv
<1>2. /\ Cols \in Seq(Nat) /\ Len(Cols) = Len(levels)
      /\ Alts \in Seq(Nat) /\ Len(Alts) = Len(levels)
      /\ \A i \in 1..Len(levels) : Cols[i] = levels[i].col /\ Alts[i] = levels[i].alt_col
  BY <1>1, MeasureShape
<1>3. /\ Cols' \in Seq(Nat) /\ Len(Cols') = Len(levels')
      /\ Alts' \in Seq(Nat) /\ Len(Alts') = Len(levels')
      /\ \A i \in 1..Len(levels') : Cols'[i] = levels'[i].col /\ Alts'[i] = levels'[i].alt_col
  <2>1. (TypeOK => /\ Cols \in Seq(Nat) /\ Len(Cols) = Len(levels)
                   /\ Alts \in Seq(Nat) /\ Len(Alts) = Len(levels)
                   /\ \A i \in 1..Len(levels) : Cols[i] = levels[i].col /\ Alts[i] = levels[i].alt_col)'
    BY MeasureShape, PTL
  <2>2. QED
    BY <1>1, <2>1
<1>4. Len(levels) \in Nat
  BY <1>1, LevelsShape
<1>5. \A i \in 1..k : Cols'[i] = Cols[i] /\ Alts'[i] = Alts[i]
  <2>1. SUFFICES ASSUME NEW i \in 1..k PROVE Cols'[i] = Cols[i] /\ Alts'[i] = Alts[i]
    OBVIOUS
  <2>2. i \in 1..Len(levels) /\ i \in 1..Len(levels')
    BY <1>4
  <2>3. levels'[i] = levels[i]
    OBVIOUS
  <2>4. QED
    BY <1>2, <1>3, <2>2, <2>3
<1>6. Cols' = SubSeq(Cols, 1, k)
  <2>1. k \in 1..Len(Cols) /\ Len(Cols') = k
    BY <1>2, <1>3
  <2>2. QED
    BY <1>2, <1>3, <1>5, <2>1, ShorterIsSubSeq
<1>7. Alts' = SubSeq(Alts, 1, k)
  <2>1. k \in 1..Len(Alts) /\ Len(Alts') = k
    BY <1>2, <1>3
  <2>2. QED
    BY <1>2, <1>3, <1>5, <2>1, ShorterIsSubSeq
<1>8. QED
  BY <1>6, <1>7

\* A stack of one level, and one that is the sentinel, in both measures.
LEMMA SubSeqOfAll ==
  ASSUME NEW s \in Seq(Nat), Len(s) = 1
  PROVE  SubSeq(s, 1, 1) = s
<1>1. 1 \in 1..Len(s) /\ \A i \in 1..1 : s[i] = s[i]
  OBVIOUS
<1>2. QED
  BY <1>1, ShorterIsSubSeq

LEMMA SentinelReads ==
  ASSUME Len(levels') = 1, levels'[1] = Sentinel, levels' \in Seq(IndentLevel)
  PROVE  Cols' = <<0>> /\ Alts' = <<0>>
<1>1. DOMAIN levels' = 1..1
  OBVIOUS
<1>2. Cols' = [i \in 1..1 |-> 0] /\ Alts' = [i \in 1..1 |-> 0]
  BY <1>1 DEF Cols, Alts, Sentinel
<1>3. QED
  BY <1>2

\* What a step of the pass does to what it has read, as long as nothing is reported.
ReadingStep ==
  \/ UNCHANGED <<Cols, Alts, balance, stage>>
  \/ /\ stage = "reading" /\ stage' = stage
     /\ \E c \in 0..MaxCol, d \in 0..MaxCol :
          /\ Cols' = Append(Cols, c) /\ c > Cols[Len(Cols)]
          /\ Alts' = Append(Alts, d) /\ d > Alts[Len(Alts)]
          /\ balance' = balance + 1
  \/ /\ stage = "reading" /\ stage' = stage
     /\ \E k \in DOMAIN levels :
          /\ k < Len(levels)
          /\ Cols' = SubSeq(Cols, 1, k) /\ Alts' = SubSeq(Alts, 1, k)
          /\ balance' = balance - (Len(levels) - k)
  \/ /\ stage = "reading" /\ stage' = "returned"
     /\ Cols' = <<0>> /\ Alts' = <<0>> /\ balance' = 0

LEMMA StepReads ==
  ASSUME IInv, IInv', [Next]_vars, errors' = {}
  PROVE  ReadingStep /\ errors = {}
<1>1. /\ TypeOK
      /\ Len(levels) \in Nat /\ Len(levels) >= 1 /\ DOMAIN levels = 1..Len(levels)
      /\ balance = Len(levels) - 1
  BY LevelsShape DEF IInv, BalanceIsDepth
<1>2. CASE UNCHANGED <<levels, balance, stage, errors>>
  BY <1>2 DEF ReadingStep, Cols, Alts
<1>3. CASE Space \/ Tab \/ Newline \/ Comment \/ UNCHANGED vars
  BY <1>2, <1>3 DEF Space, Tab, Newline, Comment, vars
<1>4. CASE Significant /\ ~measuring
  BY <1>2, <1>4 DEF Significant
<1>5. CASE Significant /\ measuring
  <2>1. stage = "reading" /\ stage' = stage
    BY <1>5 DEF Significant
  <2>2. CASE SameLevel
    BY <1>2, <2>1, <2>2 DEF SameLevel, TabErrorIf
  <2>3. CASE Indent
    BY <2>1, <2>3, IndentReads DEF ReadingStep, Indent, TabErrorIf
  <2>4. CASE Dedent
    <3>1. PICK k \in 1..Len(levels) :
           /\ StaysOpen(k)
           /\ balance' = balance - (Len(levels) - k)
           /\ levels' \in Seq(IndentLevel)
           /\ Len(levels') = k
           /\ \A i \in 1..(k - 1) : levels'[i] = levels[i]
           /\ \/ /\ levels[k].col # pending.col
                 /\ errors' = errors \union {"IndentationError"}
                 /\ levels'[k] = IF k > 1 THEN pending ELSE levels[k]
              \/ /\ levels[k].col = pending.col
                 /\ TabErrorIf(pending.alt_col # levels[k].alt_col)
                 /\ levels'[k] = levels[k]
      BY <1>1, <2>4, DedentShape
    <3>2. errors = {} /\ levels'[k] = levels[k] /\ levels[k].col = pending.col
      BY <3>1 DEF TabErrorIf
    <3>3. \A i \in 1..k : levels'[i] = levels[i]
      BY <1>1, <3>1, <3>2
    <3>4. Cols' = SubSeq(Cols, 1, k) /\ Alts' = SubSeq(Alts, 1, k)
      BY <3>1, <3>3, CutReads
    <3>5. k # Len(levels)
      <4>1. pending.col < levels[Len(levels)].col /\ pending.col \in Nat
        BY <2>4 DEF Dedent, Back, IInv, TypeOK, IndentLevel
      <4>2. QED
        BY <3>2, <4>1
    <3>6. k < Len(levels) /\ k \in DOMAIN levels
      <4>1. k \in DOMAIN levels /\ Len(levels) \in Nat
        BY <1>1
      <4>2. QED
        BY <3>5, <4>1
    <3>7. QED
      BY <2>1, <3>1, <3>2, <3>4, <3>6 DEF ReadingStep
  <2>5. QED
    BY <1>5, <2>2, <2>3, <2>4 DEF Significant
<1>6. ASSUME flush
      PROVE  /\ Len(levels') = 1
             /\ levels'[1] = levels[1]
             /\ Cols' = SubSeq(Cols, 1, 1) /\ Alts' = SubSeq(Alts, 1, 1)
             /\ balance' = balance - (Len(levels) - 1)
  <2>1. Len(levels') = 1 /\ levels'[1] = levels[1]
    BY <1>1, <1>6, FlushShape
  <2>2. 1 \in 1..Len(levels) /\ \A i \in 1..1 : levels'[i] = levels[i]
    BY <1>1, <2>1
  <2>3. QED
    BY <1>6, <2>1, <2>2, CutReads DEF flush
<1>7. CASE Eof
  <2>1. CASE Len(levels) = 1
    <3>1. Cols' = Cols /\ Alts' = Alts
      BY <1>1, <1>6, <1>7, <2>1, MeasureShape, SubSeqOfAll DEF Eof
    <3>2. QED
      BY <1>1, <1>6, <1>7, <2>1, <3>1 DEF Eof, ReadingStep
  <2>2. CASE Len(levels) # 1
    BY <1>1, <1>6, <1>7, <2>2 DEF Eof, ReadingStep
  <2>3. QED
    BY <2>1, <2>2
<1>8. CASE Return
  <2>1. levels'[1] = Sentinel /\ Len(levels') = 1
    BY <1>6, <1>8 DEF Return, IInv, StackOrdered
  <2>2. Cols' = <<0>> /\ Alts' = <<0>>
    BY <2>1, SentinelReads DEF IInv, TypeOK
  <2>3. balance' = 0
    BY <1>1, <1>6, <1>8 DEF Return
  <2>4. QED
    BY <1>8, <2>2, <2>3 DEF Return, ReadingStep
<1>9. QED
  BY <1>3, <1>4, <1>5, <1>7, <1>8 DEF Next, vars

\* A step that reports leaves the text rejected, and it stays so.
LEMMA StepReports ==
  ASSUME IInv, [Next]_vars, errors' # {}
  PROVE  stage = "reading" \/ errors # {}
BY DEF Next, vars, Space, Tab, Newline, Comment, Significant, Eof, Return

LEMMA ErrorsStay ==
  ASSUME [Next]_vars, errors # {}
  PROVE  errors' # {}
BY DEF Next, vars, Space, Tab, Newline, Comment, Significant, SameLevel, Indent, Dedent,
       TabErrorIf, Eof, Return

\* Text without a diagnostic has the blocks a reader finds who makes tabs run to the
\* next multiple of TAB_STOP (close_line, under col).
THEOREM ColReadingHolds == Spec => ColReadingSpec
<1>1. Init => ColReading!Init
  <2>1. SUFFICES ASSUME Init PROVE ColReading!Init
    OBVIOUS
  <2>2. Cols = <<0>>
    BY <2>1 DEF Init, Cols, Sentinel
  <2>3. QED
    BY <2>1, <2>2 DEF Init, ColReading!Init, Accepted
<1>2. IInv /\ IInv' /\ [Next]_vars => [ColReading!Next]_(ColReading!layoutVars)
  <2>1. SUFFICES ASSUME IInv, IInv', [Next]_vars
                 PROVE  [ColReading!Next]_(ColReading!layoutVars)
    OBVIOUS
  <2>2. CASE errors # {}
    BY <2>1, <2>2, ErrorsStay DEF ColReading!layoutVars, Accepted
  <2>3. CASE errors = {} /\ errors' # {}
    BY <2>1, <2>3, StepReports
       DEF ColReading!Next, ColReading!Reject, ColReading!Reading, Accepted, Cols
  <2>4. CASE errors' = {}
    <3>1. ReadingStep /\ errors = {}
      BY <2>1, <2>4, StepReads
    <3>2. /\ DOMAIN Cols = DOMAIN levels /\ Len(Cols) = Len(levels)
          /\ Accepted(Cols, <<0>>) = Cols /\ Accepted(Cols, <<0>>)' = Cols'
          /\ Accepted(balance, 0) = balance /\ Accepted(balance, 0)' = balance'
      BY <2>1, <2>4, <3>1, MeasureShape, LevelsShape DEF Accepted, Cols, IInv
    <3>3. CASE UNCHANGED <<Cols, Alts, balance, stage>>
      BY <2>4, <3>1, <3>2, <3>3 DEF ColReading!layoutVars
    <3>4. ASSUME stage = "reading", stage' = stage,
                 NEW c \in 0..MaxCol, Cols' = Append(Cols, c), c > Cols[Len(Cols)],
                 balance' = balance + 1
          PROVE  ColReading!OpenBlock(c)
      BY <2>4, <3>1, <3>2, <3>4 DEF ColReading!OpenBlock, ColReading!Reading, ColReading!Top
    <3>5. ASSUME stage = "reading", stage' = stage,
                 NEW k \in DOMAIN levels, k < Len(levels), Cols' = SubSeq(Cols, 1, k),
                 balance' = balance - (Len(levels) - k)
          PROVE  ColReading!CloseBlocks(k)
      BY <2>4, <3>1, <3>2, <3>5 DEF ColReading!CloseBlocks, ColReading!Reading
    <3>6. stage = "reading" /\ stage' = "returned" /\ Cols' = <<0>> /\ balance' = 0 => ColReading!End
      BY <2>4, <3>1, <3>2 DEF ColReading!End, ColReading!Reading
    <3>7. QED
      BY <3>1, <3>2, <3>3, <3>4, <3>5, <3>6 DEF ReadingStep, ColReading!Next
  <2>5. QED
    BY <2>2, <2>3, <2>4
<1>3. QED
  BY <1>1, <1>2, Invariance, PTL DEF Spec, ColReadingSpec, ColReading!Spec

\* The same text has the same blocks for a reader who makes a tab one column wide
\* (close_line, under alt_col): what TabError is for.
THEOREM AltReadingHolds == Spec => AltReadingSpec
<1>1. Init => AltReading!Init
  <2>1. SUFFICES ASSUME Init PROVE AltReading!Init
    OBVIOUS
  <2>2. Alts = <<0>>
    BY <2>1 DEF Init, Alts, Sentinel
  <2>3. QED
    BY <2>1, <2>2 DEF Init, AltReading!Init, Accepted
<1>2. IInv /\ IInv' /\ [Next]_vars => [AltReading!Next]_(AltReading!layoutVars)
  <2>1. SUFFICES ASSUME IInv, IInv', [Next]_vars
                 PROVE  [AltReading!Next]_(AltReading!layoutVars)
    OBVIOUS
  <2>2. CASE errors # {}
    BY <2>1, <2>2, ErrorsStay DEF AltReading!layoutVars, Accepted
  <2>3. CASE errors = {} /\ errors' # {}
    BY <2>1, <2>3, StepReports
       DEF AltReading!Next, AltReading!Reject, AltReading!Reading, Accepted, Alts
  <2>4. CASE errors' = {}
    <3>1. ReadingStep /\ errors = {}
      BY <2>1, <2>4, StepReads
    <3>2. /\ DOMAIN Alts = DOMAIN levels /\ Len(Alts) = Len(levels)
          /\ Accepted(Alts, <<0>>) = Alts /\ Accepted(Alts, <<0>>)' = Alts'
          /\ Accepted(balance, 0) = balance /\ Accepted(balance, 0)' = balance'
      BY <2>1, <2>4, <3>1, MeasureShape, LevelsShape DEF Accepted, Alts, IInv
    <3>3. CASE UNCHANGED <<Cols, Alts, balance, stage>>
      BY <2>4, <3>1, <3>2, <3>3 DEF AltReading!layoutVars
    <3>4. ASSUME stage = "reading", stage' = stage,
                 NEW c \in 0..MaxCol, Alts' = Append(Alts, c), c > Alts[Len(Alts)],
                 balance' = balance + 1
          PROVE  AltReading!OpenBlock(c)
      BY <2>4, <3>1, <3>2, <3>4 DEF AltReading!OpenBlock, AltReading!Reading, AltReading!Top
    <3>5. ASSUME stage = "reading", stage' = stage,
                 NEW k \in DOMAIN levels, k < Len(levels), Alts' = SubSeq(Alts, 1, k),
                 balance' = balance - (Len(levels) - k)
          PROVE  AltReading!CloseBlocks(k)
      BY <2>4, <3>1, <3>2, <3>5 DEF AltReading!CloseBlocks, AltReading!Reading
    <3>6. stage = "reading" /\ stage' = "returned" /\ Alts' = <<0>> /\ balance' = 0 => AltReading!End
      BY <2>4, <3>1, <3>2 DEF AltReading!End, AltReading!Reading
    <3>7. QED
      BY <3>1, <3>2, <3>3, <3>4, <3>5, <3>6 DEF ReadingStep, AltReading!Next
  <2>5. QED
    BY <2>2, <2>3, <2>4
<1>3. QED
  BY <1>1, <1>2, Invariance, PTL DEF Spec, AltReadingSpec, AltReading!Spec

\* An accepted line stands at the indentation of the block it is put into.
THEOREM LinesStandAtTheirLevel == Spec => LineStandsAtItsLevel
<1>1. IInv /\ [Next]_vars =>
        [measuring /\ ~measuring' /\ errors' = {} => levels'[Len(levels')] = pending]_vars
  <2>1. SUFFICES ASSUME IInv, [Next]_vars, measuring, ~measuring', errors' = {}
                 PROVE  levels'[Len(levels')] = pending
    OBVIOUS
  <2>2. Significant
    BY <2>1 DEF Next, vars, Space, Tab, Newline, Comment, Eof, Return
  <2>3. pending \in IndentLevel /\ Back \in IndentLevel /\ TypeOK
    BY <2>1, LevelsShape DEF IInv, TypeOK
  <2>4. CASE SameLevel
    <3>1. levels' = levels /\ pending.col = Back.col /\ pending.alt_col = Back.alt_col
      BY <2>1, <2>4 DEF SameLevel, TabErrorIf
    <3>2. pending = Back
      BY <2>3, <3>1 DEF IndentLevel
    <3>3. QED
      BY <3>1, <3>2 DEF Back
  <2>5. CASE Indent
    BY <2>3, <2>5, IndentShape, LevelsShape
  <2>6. CASE Dedent
    <3>1. PICK k \in 1..Len(levels) :
           /\ Len(levels') = k
           /\ \/ errors' = errors \union {"IndentationError"}
              \/ /\ levels[k].col = pending.col
                 /\ TabErrorIf(pending.alt_col # levels[k].alt_col)
                 /\ levels'[k] = levels[k]
      BY <2>3, <2>6, DedentShape
    <3>2. /\ levels[k].col = pending.col /\ levels[k].alt_col = pending.alt_col
          /\ levels'[k] = levels[k]
      BY <2>1, <3>1 DEF TabErrorIf
    <3>3. levels[k] \in IndentLevel
      BY <2>3, LevelsShape
    <3>4. QED
      BY <2>3, <3>1, <3>2, <3>3 DEF IndentLevel
  <2>7. QED
    BY <2>1, <2>2, <2>4, <2>5, <2>6 DEF Significant
<1>2. QED
  BY <1>1, Invariance, PTL DEF Spec, LineStandsAtItsLevel
=============================================================================
