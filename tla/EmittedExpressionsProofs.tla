---------------------- MODULE EmittedExpressionsProofs ----------------------
(***************************************************************************)
(* Theorems about the expressions the emitter writes, for every width of   *)
(* the integers and of the doubles, every bound, set of names, functions   *)
(* and literals.                                                           *)
(*                                                                         *)
(* First the arithmetic of the runtime library, which has no state: what   *)
(* int_.h and compare.h compute (the floored quotient and the remainder of *)
(* Python's // and %, the power by squaring, the order of an int and a     *)
(* float) and what the double operations of float_.h do to the nearest     *)
(* double.  Then the types of the expressions, with the invariant TypedInv *)
(* of the operand stack and the slots.  Then the values, with RightInv.    *)
(***************************************************************************)
EXTENDS EmittedExpressions, WellFoundedInduction, SequenceTheorems, TLAPS

(***************************************************************************)
(* Euclid: what \div and % are of an integer and a positive divisor.       *)
(***************************************************************************)
LEMMA Euclid ==
  ASSUME NEW a \in Int, NEW d \in Nat \ {0}
  PROVE  /\ a \div d \in Int /\ a % d \in 0..(d - 1)
         /\ a = d * (a \div d) + (a % d)
BY SMT

(***************************************************************************)
(* A multiple of d strictly between -d and d is 0.                         *)
(***************************************************************************)
LEMMA SmallMultiple ==
  ASSUME NEW d \in Nat \ {0}, NEW x \in Int, -d < d * x, d * x < d
  PROVE  x = 0
<1>1. CASE x >= 1
  <2>1. d * x >= d
    <3>1. d * (x - 1) >= 0
      BY <1>1, SMT
    <3>2. d * x = d * (x - 1) + d
      BY SMT
    <3> QED
      BY <3>1, <3>2
  <2> QED
    BY <2>1
<1>2. CASE x <= -1
  <2>1. d * (-x - 1) >= 0
    BY <1>2, SMT
  <2>2. d * x = -(d * (-x - 1)) - d
    BY SMT
  <2> QED
    BY <2>1, <2>2
<1> QED
  BY <1>1, <1>2

(***************************************************************************)
(* The quotient is the only one that leaves a remainder below the divisor. *)
(***************************************************************************)
LEMMA QuotientIsUnique ==
  ASSUME NEW a \in Int, NEW d \in Nat \ {0}, NEW q \in Int, NEW r \in 0..(d - 1),
         a = d * q + r
  PROVE  a \div d = q /\ a % d = r
<1> DEFINE p == a \div d
           s == a % d
<1>1. p \in Int /\ s \in 0..(d - 1) /\ a = d * p + s
  BY Euclid
<1> HIDE DEF p, s
<1>2. d * (q - p) = s - r
  <2>1. d * (q - p) = d * q - d * p
    BY <1>1, SMT
  <2> QED
    BY <1>1, <2>1
<1>3. -d < d * (q - p) /\ d * (q - p) < d
  BY <1>1, <1>2
<1>4. q - p \in Int
  BY <1>1
<1>5. q - p = 0
  BY <1>3, <1>4, SmallMultiple
<1>6. q = p
  BY <1>1, <1>5
<1>7. d * q = d * p
  BY <1>6
<1>8. r = s
  BY <1>1, <1>7, SMT
<1> QED
  BY <1>6, <1>8 DEF p, s

(***************************************************************************)
(* The quotient of a negated number, which is where flooring and truncating *)
(* part.                                                                   *)
(***************************************************************************)
LEMMA NegatedQuotient ==
  ASSUME NEW n \in Nat, NEW d \in Nat \ {0}
  PROVE  (-n) \div d = -(n \div d) - (IF n % d # 0 THEN 1 ELSE 0)
<1> DEFINE q == n \div d
           r == n % d
<1>1. q \in Int /\ r \in 0..(d - 1) /\ n = d * q + r
  BY Euclid
<1> HIDE DEF q, r
<1>2. CASE r = 0
  <2>1. -n = d * (-q) + 0
    BY <1>1, <1>2, SMT
  <2>2. (-n) \div d = -q
    BY <1>1, <2>1, QuotientIsUnique
  <2> QED
    BY <1>1, <1>2, <2>2 DEF q, r
<1>3. CASE r # 0
  <2>1. -n = d * (-q - 1) + (d - r)
    <3>1. d * (-q - 1) = -(d * q) - d
      BY <1>1, SMT
    <3> QED
      BY <1>1, <3>1
  <2>2. d - r \in 0..(d - 1) /\ -q - 1 \in Int /\ -n \in Int
    BY <1>1, <1>3
  <2>3. (-n) \div d = -q - 1
    BY <2>1, <2>2, QuotientIsUnique
  <2> QED
    BY <1>1, <1>3, <2>3 DEF q, r
<1> QED
  BY <1>2, <1>3

(***************************************************************************)
(* C++'s quotient and remainder, and when the code corrects them.          *)
(***************************************************************************)
LEMMA Truncation ==
  ASSUME NEW a \in Int, NEW b \in Int, b # 0
  PROVE  LET q == Abs(a) \div Abs(b)
             r == Abs(a) % Abs(b)
             opposite == (a < 0) # (b < 0)
         IN /\ Quotient(a, b) = (IF opposite THEN -q ELSE q)
            /\ Remainder(a, b) = (IF a < 0 THEN -r ELSE r)
            /\ Corrects(a, b) <=> (r # 0 /\ opposite)
<1> DEFINE m == Abs(a)
           d == Abs(b)
           q == m \div d
           r == m % d
<1>1. /\ m \in Nat /\ m = (IF a < 0 THEN -a ELSE a)
      /\ d \in Nat \ {0} /\ d = (IF b < 0 THEN -b ELSE b)
  BY DEF Abs
<1> HIDE DEF m, d
<1>2. q \in Int /\ r \in 0..(d - 1) /\ m = d * q + r
  <2>1. m \in Int /\ d \in Nat \ {0}
    BY <1>1
  <2> QED
    BY <2>1, Euclid
<1>3. Quotient(a, b) = (IF (a < 0) # (b < 0) THEN -q ELSE q)
  BY DEF Quotient, m, d
<1> HIDE DEF q, r
<1>4. Remainder(a, b) = (IF a < 0 THEN -r ELSE r)
  <2>1. CASE (a < 0) # (b < 0)
    <3>1. b * (-q) = -(b * q)
      BY <1>1, <1>2, SMT
    <3>2. b * q = (IF b < 0 THEN -(d * q) ELSE d * q)
      BY <1>1, <1>2, SMT
    <3>3. Remainder(a, b) = a - b * (-q)
      BY <1>3, <2>1 DEF Remainder
    <3> QED
      BY <1>1, <1>2, <2>1, <3>1, <3>2, <3>3
  <2>2. CASE ~((a < 0) # (b < 0))
    <3>1. b * q = (IF b < 0 THEN -(d * q) ELSE d * q)
      BY <1>1, <1>2, SMT
    <3>2. Remainder(a, b) = a - b * q
      BY <1>3, <2>2 DEF Remainder
    <3> QED
      BY <1>1, <1>2, <2>2, <3>1, <3>2
  <2> QED
    BY <2>1, <2>2
<1>5. Corrects(a, b) <=> (r # 0 /\ (a < 0) # (b < 0))
  BY <1>1, <1>2, <1>4 DEF Corrects
<1> QED
  BY <1>3, <1>4, <1>5 DEF q, r, m, d

(***************************************************************************)
(* The corrected quotient is the floor.                                    *)
(***************************************************************************)
LEMMA CorrectedQuotient ==
  ASSUME NEW a \in Int, NEW b \in Int, b # 0
  PROVE  /\ FloorDiv(a, b) \in Int
         /\ Quotient(a, b) - (IF Corrects(a, b) THEN 1 ELSE 0) = FloorDiv(a, b)
<1> DEFINE m == Abs(a)
           d == Abs(b)
<1>1. /\ m \in Nat /\ m = (IF a < 0 THEN -a ELSE a)
      /\ d \in Nat \ {0} /\ d = (IF b < 0 THEN -b ELSE b)
  BY DEF Abs
<1>2. /\ Quotient(a, b) = (IF (a < 0) # (b < 0) THEN -(m \div d) ELSE m \div d)
      /\ Corrects(a, b) <=> (m % d # 0 /\ (a < 0) # (b < 0))
  BY Truncation
<1> HIDE DEF m, d
<1>3. m \div d \in Int
  BY <1>1, Euclid
<1>4. CASE (a < 0) # (b < 0)
  <2>1. FloorDiv(a, b) = (-m) \div d
    BY <1>1, <1>4 DEF FloorDiv
  <2>2. (-m) \div d = -(m \div d) - (IF m % d # 0 THEN 1 ELSE 0)
    BY <1>1, NegatedQuotient
  <2> QED
    BY <1>2, <1>3, <1>4, <2>1, <2>2
<1>5. CASE ~((a < 0) # (b < 0))
  <2>1. FloorDiv(a, b) = m \div d
    BY <1>1, <1>5 DEF FloorDiv
  <2> QED
    BY <1>2, <1>3, <1>5, <2>1
<1> QED
  BY <1>4, <1>5

(***************************************************************************)
(* A quotient leaves the width of the integers in one case only: the most  *)
(* negative one divided by -1.                                             *)
(***************************************************************************)
LEMMA FloorInWidth ==
  ASSUME NEW a \in Int64, NEW b \in Int64, b # 0, ~(a = MinInt /\ b = -1)
  PROVE  FloorDiv(a, b) \in Int64
<1> DEFINE m == IF b < 0 THEN -a ELSE a
           d == IF b < 0 THEN -b ELSE b
           q == m \div d
           r == m % d
<1> USE NumbersAssumption DEF Int64, MinInt
<1>1. FloorDiv(a, b) = q
  BY DEF FloorDiv
<1>2. m \in Int /\ d \in Nat \ {0} /\ m \in MinInt..(MaxInt + 1)
  OBVIOUS
<1>3. m = MaxInt + 1 => d > 1
  OBVIOUS
<1> HIDE DEF m, d
<1>4. q \in Int /\ r \in 0..(d - 1) /\ m = d * q + r
  BY <1>2, Euclid
<1> HIDE DEF q, r
<1>5. q <= MaxInt
  <2>1. SUFFICES ASSUME q >= MaxInt + 1 PROVE FALSE
    BY <1>4
  <2>2. (d - 1) * q >= 0
    BY <1>2, <1>4, <2>1, SMT
  <2>3. d * q = (d - 1) * q + q
    BY <1>2, <1>4, SMT
  <2>4. m = MaxInt + 1
    BY <1>2, <1>4, <2>1, <2>2, <2>3
  <2>5. (d - 1) * q >= q
    <3>1. (d - 2) * q >= 0
      BY <1>2, <1>3, <1>4, <2>1, <2>4, SMT
    <3>2. (d - 1) * q = (d - 2) * q + q
      BY <1>2, <1>4, SMT
    <3> QED
      BY <1>2, <1>4, <3>1, <3>2, SMT
  <2> QED
    BY <1>2, <1>4, <2>1, <2>3, <2>4, <2>5
<1>6. q >= MinInt
  <2>1. SUFFICES ASSUME q <= MinInt - 1 PROVE FALSE
    BY <1>4
  <2>2. (d - 1) * (-q - 1) >= 0
    BY <1>2, <1>4, <2>1, SMT
  <2>3. d * q = -((d - 1) * (-q - 1)) - (d - 1) + q
    BY <1>2, <1>4, SMT
  <2> QED
    BY <1>2, <1>4, <2>1, <2>2, <2>3
<1> QED
  BY <1>1, <1>4, <1>5, <1>6

(***************************************************************************)
(* A remainder is below the divisor and on its side of 0, so it is in the  *)
(* width, the trapping quotient's too, which is 0.                         *)
(***************************************************************************)
LEMMA CorrectedRemainder ==
  ASSUME NEW a \in Int64, NEW b \in Int64, b # 0
  PROVE  /\ Modulo(a, b) \in Int64
         /\ Remainder(a, b) + (IF Corrects(a, b) THEN b ELSE 0) = Modulo(a, b)
<1> DEFINE m == Abs(a)
           d == Abs(b)
           r == m % d
           c == IF Corrects(a, b) THEN 1 ELSE 0
<1>1. a \in Int /\ b \in Int
  BY NumbersAssumption DEF Int64, MinInt
<1>2. /\ m \in Nat /\ d \in Nat \ {0}
      /\ d = (IF b < 0 THEN -b ELSE b)
  BY <1>1 DEF Abs
<1>3. /\ Remainder(a, b) = (IF a < 0 THEN -r ELSE r)
      /\ Corrects(a, b) <=> (r # 0 /\ (a < 0) # (b < 0))
  BY <1>1, Truncation
<1>4. /\ Quotient(a, b) - c = FloorDiv(a, b)
      /\ FloorDiv(a, b) \in Int
  BY <1>1, CorrectedQuotient
<1>5. Remainder(a, b) = a - b * Quotient(a, b)
  BY DEF Remainder
<1>6. Modulo(a, b) = a - b * FloorDiv(a, b)
  BY DEF Modulo
<1>7. r \in 0..(d - 1)
  <2>1. m \in Int /\ d \in Nat \ {0}
    BY <1>2
  <2> QED
    BY <2>1, Euclid
<1>8. c \in {0, 1}
  OBVIOUS
<1>9. Quotient(a, b) \in Int
  <2>1. m \div d \in Int
    BY <1>2, Euclid
  <2> QED
    BY <1>1, <2>1, Truncation
<1> HIDE DEF m, d, r
<1>10. b * FloorDiv(a, b) = b * Quotient(a, b) - b * c
  <2>1. FloorDiv(a, b) = Quotient(a, b) - c
    BY <1>4
  <2>2. b * (Quotient(a, b) - c) = b * Quotient(a, b) - b * c
    BY <1>1, <1>8, <1>9, SMT
  <2> QED
    BY <2>1, <2>2
<1>11. b * c = (IF Corrects(a, b) THEN b ELSE 0)
  BY <1>1
<1> HIDE DEF c
<1>12. b * Quotient(a, b) \in Int /\ b * c \in Int
  BY <1>1, <1>8, <1>9, SMT
<1>13. Modulo(a, b) = Remainder(a, b) + b * c
  BY <1>1, <1>5, <1>6, <1>10, <1>12
<1>14. Modulo(a, b) \in Int64
  BY <1>1, <1>2, <1>3, <1>7, <1>11, <1>13, NumbersAssumption DEF Int64, MinInt
<1> QED
  BY <1>11, <1>13, <1>14

(***************************************************************************)
(* int_.h floordiv is Python's // on two ints, whatever their signs: the   *)
(* floor, a ZeroDivisionError, or the OverflowError where the floor has no *)
(* place in the width.                                                     *)
(***************************************************************************)
THEOREM FloorDivisionIsPythons ==
  ASSUME NEW a \in Int64, NEW b \in Int64
  PROVE  int_floordiv(a, b) = IntFloorDiv(a, b)
<1> DEFINE python == IF b = 0 THEN fail("ZeroDivisionError") ELSE checked(FloorDiv(a, b))
<1>1. a \in Int /\ b \in Int /\ MinInt \in Int64 /\ MinInt < 0
  BY NumbersAssumption DEF Int64, MinInt
<1>2. IntFloorDiv(a, b) = python
  BY DEF IntFloorDiv, Dividing
<1>3. CASE b = 0
  BY <1>2, <1>3 DEF int_floordiv
<1>4. CASE b # 0 /\ a = MinInt /\ b = -1
  <2>1. FloorDiv(a, b) = MaxInt + 1
    <3>1. FloorDiv(a, b) = (-a) \div 1
      BY <1>1, <1>4 DEF FloorDiv
    <3>2. (-a) \div 1 = -a
      BY <1>1, SMT
    <3> QED
      BY <1>4, <3>1, <3>2, NumbersAssumption DEF MinInt
  <2>2. MaxInt + 1 \notin Int64
    BY NumbersAssumption DEF Int64, MinInt
  <2> QED
    BY <1>2, <1>4, <2>1, <2>2 DEF int_floordiv, checked
<1>5. CASE b # 0 /\ ~(a = MinInt /\ b = -1)
  <2>1. FloorDiv(a, b) \in Int64
    BY <1>5, FloorInWidth
  <2>2. Quotient(a, b) - (IF Corrects(a, b) THEN 1 ELSE 0) = FloorDiv(a, b)
    BY <1>1, <1>5, CorrectedQuotient
  <2> QED
    BY <1>2, <1>5, <2>1, <2>2 DEF int_floordiv, checked
<1> QED
  BY <1>3, <1>4, <1>5

(***************************************************************************)
(* int_.h mod is Python's % on two ints: the divisor's sign, 0 where the   *)
(* quotient alone would trap, and never an OverflowError.                  *)
(***************************************************************************)
THEOREM ModuloIsPythons ==
  ASSUME NEW a \in Int64, NEW b \in Int64
  PROVE  /\ int_mod(a, b) = IntModulo(a, b)
         /\ int_mod(a, b) # fail("OverflowError")
<1> DEFINE python == IF b = 0 THEN fail("ZeroDivisionError") ELSE checked(Modulo(a, b))
<1>1. a \in Int /\ b \in Int /\ MinInt < 0
  BY NumbersAssumption DEF Int64, MinInt
<1>2. IntModulo(a, b) = python
  BY DEF IntModulo, Dividing
<1>3. CASE b = 0
  BY <1>2, <1>3 DEF int_mod, fail, value
<1>4. CASE b # 0
  <2>1. /\ Modulo(a, b) \in Int64
        /\ Remainder(a, b) + (IF Corrects(a, b) THEN b ELSE 0) = Modulo(a, b)
    BY <1>4, CorrectedRemainder
  <2>2. python = int_(Modulo(a, b))
    BY <1>4, <2>1 DEF checked
  <2>3. a = MinInt /\ b = -1 => Modulo(a, b) = 0
    <3>1. SUFFICES ASSUME a = MinInt, b = -1 PROVE Modulo(a, b) = 0
      OBVIOUS
    <3>2. FloorDiv(a, b) = (-a) \div 1
      BY <1>1, <3>1 DEF FloorDiv
    <3>3. (-a) \div 1 = -a
      BY <1>1, SMT
    <3> QED
      BY <1>1, <3>1, <3>2, <3>3 DEF Modulo
  <2>4. int_mod(a, b) = int_(Modulo(a, b))
    BY <1>4, <2>1, <2>3 DEF int_mod
  <2> QED
    BY <1>2, <2>2, <2>4 DEF int_, fail, value
<1> QED
  BY <1>3, <1>4

(***************************************************************************)
(* compare.h orders an int and a float by their exact values: no int is    *)
(* rounded to a double on the way, and a float beyond the width of the     *)
(* integers is told apart before it is cast.                               *)
(***************************************************************************)
THEOREM MixedComparisonIsExact ==
  ASSUME NEW i \in Int64, NEW n \in Int, NEW d \in Nat \ {0}
  PROVE  compare_int64_and_double(i, value("Float", n, d)) = Order(i * d, n)
<1> DEFINE x == value("Float", n, d)
           whole == n \div d
           rest == n % d
<1>1. i \in Int /\ MinInt \in Int /\ MinInt <= i /\ i <= MaxInt /\ MaxInt \in Int
  BY NumbersAssumption DEF Int64, MinInt
<1>2. whole \in Int /\ rest \in 0..(d - 1) /\ n = d * whole + rest
  BY Euclid
<1>3. x.n = n /\ x.d = d /\ floor(x).n = whole
  BY DEF value, floor
<1> HIDE DEF x, whole, rest
<1>4. CASE n >= (MaxInt + 1) * d
  <2>1. (MaxInt - i) * d >= 0
    BY <1>1, SMT
  <2>2. (MaxInt - i) * d = (MaxInt + 1) * d - i * d - d
    BY <1>1, SMT
  <2>3. i * d \in Int /\ (MaxInt + 1) * d \in Int
    BY <1>1, SMT
  <2>4. i * d < n
    BY <1>4, <2>1, <2>2, <2>3
  <2>5. compare_int64_and_double(i, x) = -1
    BY <1>3, <1>4 DEF compare_int64_and_double
  <2> QED
    BY <2>4, <2>5 DEF Order, x
<1>5. CASE ~(n >= (MaxInt + 1) * d) /\ n < MinInt * d
  <2>1. (i - MinInt) * d >= 0
    BY <1>1, SMT
  <2>2. (i - MinInt) * d = i * d - MinInt * d
    BY <1>1, SMT
  <2>3. i * d \in Int /\ MinInt * d \in Int
    BY <1>1, SMT
  <2>4. i * d > n /\ ~(i * d < n)
    BY <1>5, <2>1, <2>2, <2>3
  <2>5. compare_int64_and_double(i, x) = 1
    BY <1>3, <1>5 DEF compare_int64_and_double
  <2> QED
    BY <2>4, <2>5 DEF Order, x
<1>6. CASE ~(n >= (MaxInt + 1) * d) /\ ~(n < MinInt * d)
  <2>1. compare_int64_and_double(i, x) =
          IF i # whole THEN Order(i, whole) ELSE Order(whole * d, n)
    BY <1>3, <1>6 DEF compare_int64_and_double
  <2>2. i * d \in Int /\ i * d - d * whole = d * (i - whole)
    BY <1>1, <1>2, SMT
  <2>3. CASE i < whole
    <3>1. d * (whole - i - 1) >= 0
      BY <1>1, <1>2, <2>3, SMT
    <3>2. d * (whole - i - 1) = d * whole - i * d - d
      BY <1>1, <1>2, SMT
    <3>3. i * d < n
      BY <1>2, <2>2, <3>1, <3>2, SMT
    <3> QED
      BY <1>1, <1>2, <2>1, <2>3, <3>3 DEF Order, x
  <2>4. CASE i > whole
    <3>1. d * (i - whole - 1) >= 0
      BY <1>1, <1>2, <2>4, SMT
    <3>2. d * (i - whole - 1) = i * d - d * whole - d
      BY <1>1, <1>2, SMT
    <3>3. i * d > n /\ ~(i * d < n)
      BY <1>2, <2>2, <3>1, <3>2, SMT
    <3> QED
      BY <1>1, <1>2, <2>1, <2>4, <3>3 DEF Order, x
  <2>5. CASE i = whole
    <3>1. d * whole = i * d /\ whole * d = i * d
      BY <1>2, <2>5, SMT
    <3>2. ~(i * d > n)
      BY <1>2, <2>2, <3>1, SMT
    <3> QED
      BY <2>1, <2>5, <3>1, <3>2 DEF Order, x
  <2> QED
    BY <1>1, <1>2, <2>3, <2>4, <2>5
<1> QED
  BY <1>4, <1>5, <1>6

(***************************************************************************)
(* A set of naturals that is not empty has a least one.                    *)
(***************************************************************************)
LEMMA LeastNatural ==
  ASSUME NEW T \in SUBSET Nat, T # {}
  PROVE  \E x \in T : \A y \in T : x <= y
<1>1. IsWellFoundedOn(OpToRel(<, Nat), Nat)
  BY NatLessThanWellFounded
<1>2. PICK x \in T : \A y \in T : ~(<<y, x>> \in OpToRel(<, Nat))
  BY <1>1, WFMin
<1>3. ASSUME NEW y \in T PROVE x <= y
  <2>1. ~(<<y, x>> \in OpToRel(<, Nat))
    BY <1>2
  <2>2. ~(y < x)
    BY <2>1 DEF OpToRel
  <2> QED
    BY <2>2
<1> QED
  BY <1>3

(***************************************************************************)
(* Induction, over the set of the numbers a fact holds of.                 *)
(***************************************************************************)
LEMMA Induction ==
  ASSUME NEW T, 0 \in T, \A k \in Nat : k \in T => k + 1 \in T
  PROVE  \A k \in Nat : k \in T
<1>1. SUFFICES ASSUME NEW k \in Nat, k \notin T PROVE FALSE
  OBVIOUS
<1> DEFINE Rest == {i \in Nat : i \notin T}
<1>2. PICK least \in Rest : \A y \in Rest : least <= y
  BY <1>1, LeastNatural
<1>3. least # 0 /\ least \in Nat
  BY <1>2
<1>4. least - 1 \in Nat /\ least - 1 \in T
  BY <1>2, <1>3
<1> QED
  BY <1>2, <1>3, <1>4

(***************************************************************************)
(* A step taken over and over from a first value is a function.            *)
(***************************************************************************)
LEMMA Iteration ==
  ASSUME NEW S, NEW b \in S, NEW G \in [S -> S]
  PROVE  \E f \in [Nat -> S] : f[0] = b /\ \A i \in Nat : f[i + 1] = G[f[i]]
<1> DEFINE Upto(m) == {g \in [0..m -> S] : g[0] = b /\ \A i \in 0..(m - 1) : g[i + 1] = G[g[i]]}
           Begun == {m \in Nat : Upto(m) # {}}
<1>1. \A m \in Nat : Upto(m) # {}
  <2>1. 0 \in Begun
    <3>1. [i \in 0..0 |-> b] \in Upto(0)
      OBVIOUS
    <3> QED
      BY <3>1
  <2>2. ASSUME NEW m \in Nat, m \in Begun PROVE m + 1 \in Begun
    <3>1. PICK g : g \in Upto(m)
      BY <2>2
    <3> DEFINE h == [i \in 0..(m + 1) |-> IF i = m + 1 THEN G[g[m]] ELSE g[i]]
    <3>2. g \in [0..m -> S] /\ g[0] = b /\ \A i \in 0..(m - 1) : g[i + 1] = G[g[i]]
      BY <3>1
    <3>3. h \in [0..(m + 1) -> S] /\ h[0] = b
      BY <3>2
    <3>4. ASSUME NEW i \in 0..((m + 1) - 1) PROVE h[i + 1] = G[h[i]]
      <4>1. CASE i = m
        BY <3>2, <4>1
      <4>2. CASE i # m
        <5>1. i \in 0..(m - 1) /\ i + 1 \in 0..(m + 1) /\ i \in 0..(m + 1) /\ i + 1 # m + 1
          BY <4>2
        <5> QED
          BY <3>2, <5>1
      <4> QED
        BY <4>1, <4>2
    <3>5. h \in Upto(m + 1)
      BY <3>3, <3>4
    <3> QED
      BY <3>5
  <2> HIDE DEF Begun, Upto
  <2>3. \A m \in Nat : m \in Begun
    BY <2>1, <2>2, Induction
  <2> QED
    BY <2>3 DEF Begun
<1>2. ASSUME NEW m \in Nat, NEW n \in Nat, NEW g \in Upto(m), NEW h \in Upto(n)
      PROVE  \A i \in Nat : i <= m /\ i <= n => g[i] = h[i]
  <2> DEFINE Same == {i \in Nat : i <= m /\ i <= n => g[i] = h[i]}
  <2>1. 0 \in Same
    OBVIOUS
  <2>2. ASSUME NEW i \in Nat, i \in Same PROVE i + 1 \in Same
    <3>1. SUFFICES ASSUME i + 1 <= m, i + 1 <= n PROVE g[i + 1] = h[i + 1]
      OBVIOUS
    <3>2. i \in 0..(m - 1) /\ i \in 0..(n - 1) /\ g[i] = h[i]
      BY <2>2, <3>1
    <3> QED
      BY <3>2
  <2> HIDE DEF Same
  <2>3. \A i \in Nat : i \in Same
    BY <2>1, <2>2, Induction
  <2> QED
    BY <2>3 DEF Same
<1> DEFINE pick(m) == CHOOSE g : g \in Upto(m)
           f == [i \in Nat |-> pick(i)[i]]
<1>3. \A m \in Nat : pick(m) \in Upto(m)
  BY <1>1
<1> HIDE DEF pick
<1>4. f \in [Nat -> S]
  <2>1. ASSUME NEW i \in Nat PROVE pick(i)[i] \in S
    <3>1. pick(i) \in [0..i -> S] /\ i \in 0..i
      BY <1>3
    <3> QED
      BY <3>1
  <2> QED
    BY <2>1
<1>5. f[0] = b
  BY <1>3
<1>6. ASSUME NEW i \in Nat PROVE f[i + 1] = G[f[i]]
  <2>1. i + 1 \in Nat /\ i \in 0..((i + 1) - 1) /\ pick(i + 1) \in Upto(i + 1) /\ pick(i) \in Upto(i)
    BY <1>3
  <2>2. pick(i + 1)[i + 1] = G[pick(i + 1)[i]]
    BY <2>1
  <2> HIDE DEF Upto
  <2>3. pick(i + 1)[i] = pick(i)[i]
    BY <1>2, <2>1
  <2> QED
    BY <2>1, <2>2, <2>3
<1> QED
  BY <1>4, <1>5, <1>6

(***************************************************************************)
(* What Power is: a product that grows by one factor at a time.            *)
(***************************************************************************)
LEMMA PowerIs ==
  ASSUME NEW n \in Int
  PROVE  /\ Power(n, 0) = 1
         /\ \A k \in Nat : Power(n, k) \in Int /\ Power(n, k + 1) = n * Power(n, k)
<1> DEFINE Body(f) == [i \in Nat |-> IF i = 0 THEN 1 ELSE n * f[i - 1]]
           power == CHOOSE f : f = Body(f)
<1>1. \E f : f = Body(f)
  <2> DEFINE G == [x \in Int |-> n * x]
  <2>1. G \in [Int -> Int] /\ \A x \in Int : G[x] = n * x
    BY SMT
  <2> HIDE DEF G
  <2>2. PICK f \in [Nat -> Int] : f[0] = 1 /\ \A i \in Nat : f[i + 1] = G[f[i]]
    <3> DEFINE S == Int
               b == 1
    <3>1. b \in S /\ G \in [S -> S]
      BY <2>1
    <3>2. S = Int /\ b = 1
      OBVIOUS
    <3> HIDE DEF S, b
    <3>3. PICK f \in [Nat -> S] : f[0] = b /\ \A i \in Nat : f[i + 1] = G[f[i]]
      BY <3>1, Iteration
    <3> QED
      BY <3>2, <3>3
  <2>3. ASSUME NEW i \in Nat PROVE f[i] = IF i = 0 THEN 1 ELSE n * f[i - 1]
    <3>1. CASE i # 0
      <4>1. i - 1 \in Nat /\ (i - 1) + 1 = i /\ f[i - 1] \in Int
        BY <3>1
      <4>2. f[(i - 1) + 1] = G[f[i - 1]]
        BY <2>2, <4>1
      <4> QED
        BY <2>1, <3>1, <4>1, <4>2
    <3> QED
      BY <2>2, <3>1
  <2>4. f = Body(f)
    BY <2>3
  <2> QED
    BY <2>4
<1>2. power = Body(power)
  BY <1>1
<1>3. \A k \in Nat : Power(n, k) = power[k]
  BY DEF Power
<1> HIDE DEF power
<1>4. power[0] = 1
  BY <1>2
<1>5. ASSUME NEW k \in Nat PROVE power[k + 1] = n * power[k]
  <2>1. k + 1 \in Nat /\ k + 1 # 0 /\ (k + 1) - 1 = k
    OBVIOUS
  <2>2. Body(power)[k + 1] = n * power[(k + 1) - 1]
    BY <2>1
  <2> QED
    BY <1>2, <2>1, <2>2
<1> DEFINE Integral == {k \in Nat : power[k] \in Int}
<1>6. \A k \in Nat : k \in Integral
  <2>1. 0 \in Integral
    BY <1>4
  <2>2. ASSUME NEW k \in Nat, k \in Integral PROVE k + 1 \in Integral
    <3>1. power[k] \in Int /\ power[k + 1] = n * power[k]
      BY <1>5, <2>2
    <3>2. n * power[k] \in Int
      BY <3>1, SMT
    <3> QED
      BY <3>1, <3>2
  <2> HIDE DEF Integral
  <2> QED
    BY <2>1, <2>2, Induction
<1> QED
  BY <1>3, <1>4, <1>5, <1>6

(***************************************************************************)
(* Exponents add up, and a power of a square is a power with twice the     *)
(* exponent.                                                               *)
(***************************************************************************)
LEMMA PowerOfSum ==
  ASSUME NEW n \in Int, NEW i \in Nat
  PROVE  \A j \in Nat : Power(n, i + j) = Power(n, i) * Power(n, j)
<1> DEFINE Holds == {j \in Nat : Power(n, i + j) = Power(n, i) * Power(n, j)}
<1>1. \A k \in Nat : Power(n, k) \in Int /\ Power(n, k + 1) = n * Power(n, k)
  BY PowerIs
<1>2. 0 \in Holds
  BY <1>1, PowerIs
<1>3. ASSUME NEW j \in Nat, j \in Holds PROVE j + 1 \in Holds
  <2> DEFINE p == Power(n, i)
             q == Power(n, j)
             r == Power(n, i + j)
  <2>1. p \in Int /\ q \in Int /\ r = p * q
    BY <1>1, <1>3
  <2>2. Power(n, i + (j + 1)) = n * r
    <3>1. i + (j + 1) = (i + j) + 1 /\ i + j \in Nat
      OBVIOUS
    <3> QED
      BY <1>1, <3>1
  <2>3. Power(n, j + 1) = n * q
    BY <1>1
  <2> HIDE DEF p, q, r
  <2>4. n * r = p * (n * q)
    BY <2>1, SMT
  <2>5. Power(n, i + (j + 1)) = p * Power(n, j + 1)
    BY <2>2, <2>3, <2>4
  <2> QED
    BY <2>5 DEF p
<1> HIDE DEF Holds
<1>4. \A j \in Nat : j \in Holds
  BY <1>2, <1>3, Induction
<1> QED
  BY <1>4 DEF Holds

\* A power of a square.
LEMMA PowerOfSquare ==
  ASSUME NEW n \in Int
  PROVE  \A k \in Nat : Power(n * n, k) = Power(n, 2 * k)
<1> DEFINE Holds == {k \in Nat : Power(n * n, k) = Power(n, 2 * k)}
<1>1. \A k \in Nat : Power(n, k) \in Int /\ Power(n, k + 1) = n * Power(n, k)
  BY PowerIs
<1>2. n * n \in Int
  BY SMT
<1>3. \A k \in Nat : Power(n * n, k + 1) = (n * n) * Power(n * n, k)
  BY <1>2, PowerIs
<1>4. 0 \in Holds
  BY <1>2, PowerIs
<1>5. ASSUME NEW k \in Nat, k \in Holds PROVE k + 1 \in Holds
  <2> DEFINE p == Power(n, 2 * k)
  <2>1. 2 * k \in Nat /\ 2 * k + 1 \in Nat /\ 2 * (k + 1) = (2 * k + 1) + 1
    OBVIOUS
  <2>2. p \in Int /\ Power(n, 2 * (k + 1)) = n * (n * p)
    BY <1>1, <2>1
  <2>3. Power(n * n, k + 1) = (n * n) * p
    BY <1>3, <1>5
  <2> HIDE DEF p
  <2>4. n * (n * p) = (n * n) * p
    BY <2>2, SMT
  <2> QED
    BY <2>2, <2>3, <2>4
<1> HIDE DEF Holds
<1>6. \A k \in Nat : k \in Holds
  BY <1>4, <1>5, Induction
<1> QED
  BY <1>6 DEF Holds

(***************************************************************************)
(* The size of a product.                                                  *)
(***************************************************************************)
LEMMA AbsOf ==
  ASSUME NEW x \in Int, NEW y \in Int
  PROVE  /\ Abs(x) \in Nat /\ Abs(x) = (IF x < 0 THEN -x ELSE x)
         /\ x * y \in Int /\ Abs(x * y) = Abs(x) * Abs(y)
<1>1. Abs(x) = (IF x < 0 THEN -x ELSE x) /\ Abs(y) = (IF y < 0 THEN -y ELSE y)
  BY DEF Abs
<1>2. x * y \in Int
  BY SMT
<1>3. Abs(x * y) = IF x * y < 0 THEN -(x * y) ELSE x * y
  BY DEF Abs
<1>4. CASE x >= 0 /\ y >= 0
  <2>1. x * y >= 0
    BY <1>4, SMT
  <2> QED
    BY <1>1, <1>2, <1>3, <1>4, <2>1
<1>5. CASE x < 0 /\ y < 0
  <2>1. (-x) * (-y) = x * y
    BY SMT
  <2>2. (-x) * (-y) >= 0
    BY <1>5, SMT
  <2> QED
    BY <1>1, <1>2, <1>3, <1>5, <2>1, <2>2
<1>6. CASE x < 0 /\ y >= 0
  <2>1. (-x) * y = -(x * y)
    BY SMT
  <2>2. (-x) * y >= 0
    BY <1>6, SMT
  <2> QED
    BY <1>1, <1>2, <1>3, <1>6, <2>1, <2>2
<1>7. CASE x >= 0 /\ y < 0
  <2>1. x * (-y) = -(x * y)
    BY SMT
  <2>2. x * (-y) >= 0
    BY <1>7, SMT
  <2> QED
    BY <1>1, <1>2, <1>3, <1>7, <2>1, <2>2
<1> QED
  BY <1>4, <1>5, <1>6, <1>7

\* A product of naturals grows with its factors.
LEMMA ProductGrows ==
  ASSUME NEW a \in Nat, NEW b \in Nat, NEW c \in Nat, NEW d \in Nat, c <= a, d <= b
  PROVE  c * d <= a * b /\ a * b \in Nat /\ c * d \in Nat
<1>1. (a - c) * b >= 0
  BY SMT
<1>2. c * (b - d) >= 0
  BY SMT
<1>3. a * b - c * d = (a - c) * b + c * (b - d)
  BY SMT
<1>4. a * b \in Nat /\ c * d \in Nat
  BY SMT
<1> QED
  BY <1>1, <1>2, <1>3, <1>4, SMT

(***************************************************************************)
(* Powers of two.                                                          *)
(***************************************************************************)
LEMMA PowersOfTwo ==
  /\ Power(2, 0) = 1
  /\ \A k \in Nat : Power(2, k) \in Nat \ {0} /\ Power(2, k + 1) = 2 * Power(2, k)
  /\ \A i, j \in Nat : Power(2, i + j) = Power(2, i) * Power(2, j)
<1> DEFINE Holds == {k \in Nat : Power(2, k) \in Nat \ {0}}
<1>1. Power(2, 0) = 1 /\ \A k \in Nat : Power(2, k + 1) = 2 * Power(2, k)
  BY PowerIs
<1>2. 0 \in Holds
  BY <1>1
<1>3. ASSUME NEW k \in Nat, k \in Holds PROVE k + 1 \in Holds
  <2>1. Power(2, k) \in Nat \ {0} /\ Power(2, k + 1) = 2 * Power(2, k)
    BY <1>1, <1>3
  <2> QED
    BY <2>1
<1> HIDE DEF Holds
<1>4. \A k \in Nat : k \in Holds
  BY <1>2, <1>3, Induction
<1>5. \A i, j \in Nat : Power(2, i + j) = Power(2, i) * Power(2, j)
  BY PowerOfSum
<1> QED
  BY <1>1, <1>4, <1>5 DEF Holds

\* The powers of two grow, each at least to the double of the one before.
LEMMA PowersOfTwoGrow ==
  ASSUME NEW i \in Nat, NEW j \in Nat, i <= j
  PROVE  /\ Power(2, j) = Power(2, i) * Power(2, j - i)
         /\ Power(2, i) <= Power(2, j)
         /\ i # j => 2 * Power(2, i) <= Power(2, j)
<1>1. j - i \in Nat /\ i + (j - i) = j
  OBVIOUS
<1>2. Power(2, j) = Power(2, i) * Power(2, j - i)
  BY <1>1, PowersOfTwo
<1> DEFINE p == Power(2, i)
           q == Power(2, j - i)
<1>3. p \in Nat \ {0} /\ q \in Nat \ {0}
  BY <1>1, PowersOfTwo
<1>4. p <= p * q
  <2>1. p * 1 <= p * q
    BY <1>3, ProductGrows
  <2> QED
    BY <1>3, <2>1
<1>5. ASSUME i # j PROVE 2 * p <= p * q
  <2>1. j - i - 1 \in Nat /\ (j - i - 1) + 1 = j - i
    BY <1>5
  <2>2. q = 2 * Power(2, j - i - 1) /\ Power(2, j - i - 1) \in Nat \ {0}
    BY <2>1, PowersOfTwo
  <2>3. q >= 2
    BY <2>2
  <2> HIDE DEF p, q
  <2>4. p * 2 <= p * q
    BY <1>3, <2>3, ProductGrows
  <2> QED
    BY <1>3, <2>4
<1> QED
  BY <1>2, <1>4, <1>5

-----------------------------------------------------------------------------
(* int_.h pow.                                                             *)

\* What int_mul takes and yields.
IntResults == {int_(n) : n \in Int64} \union {fail("OverflowError")}

\* An int_ that int_pow carries is in range, or it has overflowed.
LEMMA IntResultIs ==
  ASSUME NEW v \in IntResults
  PROVE  /\ ~Failed(v) => v.n \in Int64 /\ v.n \in Int /\ v = int_(v.n)
         /\ Failed(v) => v = fail("OverflowError")
<1>1. CASE v = fail("OverflowError")
  BY <1>1 DEF fail, Failed, value
<1>2. ASSUME NEW n \in Int64, v = int_(n) PROVE v.n = n /\ ~Failed(v) /\ n \in Int
  BY <1>2 DEF int_, Failed, value, Int64
<1> QED
  BY <1>1, <1>2 DEF IntResults

\* checked(n) keeps n in int64_t, and else fails.
LEMMA CheckedIs ==
  ASSUME NEW n \in Int
  PROVE  /\ checked(n) \in IntResults
         /\ Failed(checked(n)) <=> n \notin Int64
         /\ n \in Int64 => checked(n) = int_(n) /\ checked(n).n = n
         /\ n \notin Int64 => checked(n) = fail("OverflowError")
BY DEF checked, IntResults, int_, fail, Failed, value

\* What is out of int64_t is large, but for one number.
LEMMA OutsideTheWidth ==
  ASSUME NEW n \in Int
  PROVE  /\ n \notin Int64 => Abs(n) >= MaxInt + 1 /\ (Abs(n) = MaxInt + 1 => n = MaxInt + 1)
         /\ Abs(n) > MaxInt + 1 => n \notin Int64
         /\ n > MaxInt => n \notin Int64
BY NumbersAssumption DEF Abs, Int64, MinInt

(***************************************************************************)
(* What holds between the squarings, of the power B that is computed: a    *)
(* failure met on the way says that B has no place in the width.           *)
(***************************************************************************)
Small(n) == n \in {-1, 0, 1}
\* What holds of result, factor and remaining through the loop of int_pow, B being the power
\* wanted: nothing is lost while both fit, and what no longer fits never comes back into range.
Squaring(s, base, B) ==
  /\ s.result \in IntResults /\ s.factor \in IntResults /\ s.remaining \in Nat
  /\ Failed(s.result) => B \notin Int64
  /\ ~Failed(s.result) /\ Failed(s.factor) => B \notin Int64 /\ s.remaining > 0
  /\ ~Failed(s.result) /\ ~Failed(s.factor) =>
       /\ s.result.n * Power(s.factor.n, s.remaining) = B
       /\ Small(base) => Small(s.result.n) /\ Small(s.factor.n)
       /\ ~Small(base) => Abs(s.factor.n) >= 2 /\ (s.result.n = 1 \/ Abs(s.result.n) >= 2)

\* 0, 1 and -1 stay so.
LEMMA SmallSquares ==
  ASSUME NEW r, NEW f, Small(r), Small(f)
  PROVE  Small(r * f) /\ Small(f * f) /\ Small(r) /\ r * f \in Int64 /\ f * f \in Int64
<1>1. -1 \in Int64 /\ 0 \in Int64 /\ 1 \in Int64
  BY NumbersAssumption DEF Int64, MinInt
<1>2. r * f \in {-1, 0, 1} /\ f * f \in {-1, 0, 1}
  <2>1. r \in {-1, 0, 1} /\ f \in {-1, 0, 1}
    BY DEF Small
  <2>2. CASE f = 0
    BY <2>1, <2>2, SMT
  <2>3. CASE f = 1
    BY <2>1, <2>3, SMT
  <2>4. CASE f = -1
    BY <2>1, <2>4, SMT
  <2> QED
    BY <2>1, <2>2, <2>3, <2>4
<1> QED
  BY <1>1, <1>2 DEF Small

(***************************************************************************)
(* A power of a number of at least 2 is at least as far from 0.            *)
(***************************************************************************)
LEMMA PowerIsFar ==
  ASSUME NEW f \in Int, Abs(f) >= 2
  PROVE  \A k \in Nat : Abs(Power(f, k)) >= 1 /\ (k >= 1 => Abs(Power(f, k)) >= 2)
<1> DEFINE Holds == {k \in Nat : Abs(Power(f, k)) >= 1 /\ (k >= 1 => Abs(Power(f, k)) >= 2)}
<1>1. 0 \in Holds
  <2>1. Power(f, 0) = 1 /\ Abs(1) = 1
    BY PowerIs DEF Abs
  <2> QED
    BY <2>1
<1>2. ASSUME NEW k \in Nat, k \in Holds PROVE k + 1 \in Holds
  <2>1. Power(f, k) \in Int /\ Power(f, k + 1) = f * Power(f, k)
    BY PowerIs
  <2>2. Abs(f * Power(f, k)) = Abs(f) * Abs(Power(f, k)) /\ Abs(f) \in Nat /\ Abs(Power(f, k)) \in Nat
    BY <2>1, AbsOf
  <2>3. Abs(Power(f, k)) >= 1
    BY <1>2
  <2> DEFINE a == Abs(f)
             b == Abs(Power(f, k))
  <2>4. a \in Nat /\ b \in Nat /\ a >= 2 /\ b >= 1
    BY <2>2, <2>3
  <2>5. Abs(Power(f, k + 1)) = a * b
    BY <2>1, <2>2
  <2> HIDE DEF a, b
  <2>6. 2 * 1 <= a * b /\ a * b \in Nat
    BY <2>4, ProductGrows
  <2> QED
    BY <2>5, <2>6
<1> HIDE DEF Holds
<1>3. \A k \in Nat : k \in Holds
  BY <1>1, <1>2, Induction
<1> QED
  BY <1>3 DEF Holds

(***************************************************************************)
(* A factor out of the width that is yet to be used puts the power out of  *)
(* it: r * f * f^k with k >= 1, or with r = 1 where f is a square.         *)
(***************************************************************************)
LEMMA FarProduct ==
  ASSUME NEW x \in Int, NEW y \in Int, x \notin Int64, Abs(y) >= 2
  PROVE  x * y \notin Int64 /\ x * y \in Int
<1>1. Abs(x * y) = Abs(x) * Abs(y) /\ x * y \in Int /\ Abs(x) \in Nat /\ Abs(y) \in Nat
  BY AbsOf
<1>2. Abs(x) >= MaxInt + 1 /\ MaxInt + 1 \in Nat
  BY OutsideTheWidth, NumbersAssumption
<1> DEFINE a == Abs(x)
           b == Abs(y)
<1>3. a \in Nat /\ b \in Nat /\ a >= MaxInt + 1 /\ b >= 2
  BY <1>1, <1>2
<1> HIDE DEF a, b
<1>4. (MaxInt + 1) * 2 <= a * b
  BY <1>2, <1>3, ProductGrows
<1>5. Abs(x * y) > MaxInt + 1
  BY <1>1, <1>2, <1>4, NumbersAssumption DEF a, b
<1> QED
  BY <1>1, <1>5, OutsideTheWidth

(***************************************************************************)
(* One step of the loop of int_.h pow.                                     *)
(***************************************************************************)
LEMMA SquaredKeeps ==
  ASSUME NEW base \in Int, NEW B \in Int, NEW s, Squaring(s, base, B)
  PROVE  /\ Squaring(Squared(s), base, B)
         /\ Squared(s).remaining = s.remaining \div 2
<1> DEFINE r == s.result
           f == s.factor
           m == s.remaining
           rest == m \div 2
           t == Squared(s)
<1>1. r \in IntResults /\ f \in IntResults /\ m \in Nat
  BY DEF Squaring
<1>2. rest \in Nat /\ m % 2 \in {0, 1} /\ m = 2 * rest + (m % 2)
  <2> HIDE DEF m
  <2>1. m \div 2 \in Nat /\ m % 2 \in {0, 1} /\ m = 2 * (m \div 2) + (m % 2)
    BY <1>1, SMT
  <2> QED
    BY <2>1
<1>3. /\ t.result = IF m % 2 = 1 THEN int_mul(r, f) ELSE r
      /\ t.factor = IF rest > 0 THEN int_mul(f, f) ELSE f
      /\ t.remaining = rest
  BY DEF Squared
<1> HIDE DEF rest, t
<1>4. \A v, w \in IntResults : int_mul(v, w) \in IntResults
  <2>1. SUFFICES ASSUME NEW v \in IntResults, NEW w \in IntResults, ~Failed(v), ~Failed(w)
                 PROVE  checked(v.n * w.n) \in IntResults
    BY DEF int_mul
  <2>2. v.n \in Int /\ w.n \in Int
    BY <2>1, IntResultIs
  <2>3. v.n * w.n \in Int
    BY <2>2, SMT
  <2> QED
    BY <2>3, CheckedIs
<1>5. t.result \in IntResults /\ t.factor \in IntResults /\ t.remaining \in Nat
  BY <1>1, <1>2, <1>3, <1>4
<1>6. CASE Failed(r)
  <2>1. t.result = r
    BY <1>3, <1>6 DEF int_mul
  <2>2. B \notin Int64
    BY <1>6 DEF Squaring
  <2> QED
    BY <1>3, <1>5, <1>6, <2>1, <2>2 DEF Squaring, t, rest
<1>7. CASE ~Failed(r) /\ Failed(f)
  <2>1. B \notin Int64 /\ m > 0
    BY <1>7 DEF Squaring
  <2>2. int_mul(r, f) = f /\ int_mul(f, f) = f
    BY <1>7 DEF int_mul
  <2>3. m % 2 = 1 \/ rest > 0
    BY <1>2, <2>1
  <2>4. Failed(t.result) \/ (Failed(t.factor) /\ t.remaining > 0)
    BY <1>3, <1>7, <2>2, <2>3
  <2> QED
    BY <1>3, <1>5, <2>1, <2>4 DEF Squaring, t, rest
<1>8. CASE ~Failed(r) /\ ~Failed(f)
  <2> DEFINE a == r.n
             b == f.n
             c == IF m % 2 = 1 THEN a * b ELSE a
  <2>1. a \in Int64 /\ a \in Int /\ b \in Int64 /\ b \in Int
    BY <1>1, <1>8, IntResultIs
  <2>2. /\ a * Power(b, m) = B
        /\ Small(base) => Small(a) /\ Small(b)
        /\ ~Small(base) => Abs(b) >= 2 /\ (a = 1 \/ Abs(a) >= 2)
    BY <1>8 DEF Squaring
  <2>3. a * b \in Int /\ b * b \in Int
    BY <2>1, SMT
  <2>4. t.result = IF m % 2 = 1 THEN checked(a * b) ELSE r
    BY <1>3, <1>8 DEF int_mul
  <2>5. t.factor = IF rest > 0 THEN checked(b * b) ELSE f
    BY <1>3, <1>8 DEF int_mul
  <2> HIDE DEF r, f, m, a, b
  <2>6. c \in Int /\ c * Power(b * b, rest) = B /\ Power(b * b, rest) \in Int
    <3>1. Power(b * b, rest) = Power(b, 2 * rest) /\ 2 * rest \in Nat
      BY <1>2, <2>1, PowerOfSquare
    <3>2. Power(b, 2 * rest) \in Int /\ Power(b, 2 * rest + 1) = b * Power(b, 2 * rest)
      BY <2>1, <3>1, PowerIs
    <3> DEFINE p == Power(b, 2 * rest)
    <3> HIDE DEF p
    <3>3. CASE m % 2 = 1
      <4>1. m = 2 * rest + 1
        BY <1>2, <3>3
      <4>2. a * (b * p) = B
        BY <2>2, <3>2, <4>1 DEF p
      <4>3. (a * b) * p = a * (b * p)
        BY <2>1, <3>2, SMT DEF p
      <4> QED
        BY <2>3, <3>1, <3>2, <3>3, <4>2, <4>3 DEF p
    <3>4. CASE m % 2 = 0
      <4>1. m = 2 * rest
        BY <1>2, <3>4
      <4> QED
        BY <2>1, <2>2, <3>1, <3>2, <3>4, <4>1
    <3> QED
      BY <1>2, <3>3, <3>4
  <2>7. /\ Small(base) => Small(c) /\ Small(b * b) /\ a * b \in Int64 /\ b * b \in Int64
        /\ ~Small(base) => Abs(b * b) >= 2 /\ (c = 1 \/ Abs(c) >= 2)
    <3>1. CASE Small(base)
      <4>1. Small(a) /\ Small(b)
        BY <2>2, <3>1
      <4>2. /\ Small(a * b) /\ a * b \in Int64
            /\ Small(b * b) /\ b * b \in Int64
        BY <4>1, SmallSquares
      <4> QED
        BY <3>1, <4>1, <4>2
    <3>2. CASE ~Small(base)
      <4>1. Abs(b) >= 2 /\ (a = 1 \/ Abs(a) >= 2) /\ Abs(a) \in Nat /\ Abs(b) \in Nat
        BY <2>1, <2>2, <3>2, AbsOf
      <4>2. Abs(a * b) = Abs(a) * Abs(b) /\ Abs(b * b) = Abs(b) * Abs(b)
        BY <2>1, AbsOf
      <4>3. Abs(a) >= 1
        BY <4>1 DEF Abs
      <4> DEFINE x == Abs(a)
                 y == Abs(b)
      <4>4. x \in Nat /\ y \in Nat /\ x >= 1 /\ y >= 2
        BY <4>1, <4>3
      <4>5. Abs(a * b) = x * y /\ Abs(b * b) = y * y
        BY <4>2
      <4> HIDE DEF x, y
      <4>6. 1 * 2 <= x * y /\ 2 * 1 <= y * y /\ x * y \in Nat /\ y * y \in Nat
        BY <4>4, ProductGrows
      <4>7. Abs(a * b) >= 2 /\ Abs(b * b) >= 2
        BY <4>5, <4>6
      <4> QED
        BY <3>2, <4>1, <4>7
    <3> QED
      BY <3>1, <3>2
  <2>8. CASE m % 2 = 1 /\ a * b \notin Int64
    <3>1. ~Small(base) /\ c = a * b
      BY <2>7, <2>8
    <3>2. B \notin Int64
      <4>1. CASE rest = 0
        <5>1. Power(b * b, rest) = 1
          BY <2>3, <4>1, PowerIs
        <5> QED
          BY <2>3, <2>6, <2>8, <3>1, <5>1
      <4>2. CASE rest # 0
        <5>1. rest >= 1
          BY <1>2, <4>2
        <5>2. Abs(Power(b * b, rest)) >= 2
          BY <1>2, <2>3, <2>7, <3>1, <5>1, PowerIsFar
        <5> QED
          BY <2>3, <2>6, <2>8, <3>1, <5>2, FarProduct
      <4> QED
        BY <4>1, <4>2
    <3>3. Failed(t.result)
      BY <2>3, <2>4, <2>8, CheckedIs
    <3> QED
      BY <1>3, <1>5, <3>2, <3>3 DEF Squaring, t, rest, m
  <2>9. CASE ~(m % 2 = 1 /\ a * b \notin Int64)
    <3>1. ~Failed(t.result) /\ t.result.n = c
      <4>1. CASE m % 2 = 1
        <5>1. a * b \in Int64
          BY <2>9, <4>1
        <5>2. ~Failed(checked(a * b)) /\ checked(a * b).n = a * b
          BY <2>3, <5>1, CheckedIs
        <5> QED
          BY <2>4, <4>1, <5>2
      <4>2. CASE m % 2 # 1
        BY <1>8, <2>4, <4>2 DEF a, r
      <4> QED
        BY <4>1, <4>2
    <3>2. CASE rest > 0 /\ b * b \notin Int64
      <4>1. ~Small(base)
        BY <2>7, <3>2
      <4>2. rest - 1 \in Nat /\ (rest - 1) + 1 = rest
        BY <1>2, <3>2
      <4> DEFINE x == b * b
                 p == Power(b * b, rest - 1)
      <4>3. p \in Int /\ Power(b * b, rest) = x * p /\ x \in Int /\ x \notin Int64
        <5>1. p \in Int /\ Power(b * b, (rest - 1) + 1) = (b * b) * p
          BY <2>3, <4>2, PowerIs
        <5> QED
          BY <2>3, <3>2, <4>2, <5>1
      <4>4. Abs(p) >= 1 /\ (rest - 1 >= 1 => Abs(p) >= 2)
        BY <2>3, <2>7, <4>1, <4>2, PowerIsFar
      <4>5. rest - 1 = 0 => p = 1
        BY <2>3, PowerIs
      <4>6. c = 1 \/ Abs(c) >= 2
        BY <2>7, <4>1
      <4> HIDE DEF x, p, c
      <4>7. B = x * (c * p) /\ c * p \in Int
        <5>1. B = c * (x * p)
          BY <2>6, <4>3
        <5>2. c * (x * p) = x * (c * p) /\ c * p \in Int
          BY <2>6, <4>3, SMT
        <5> QED
          BY <5>1, <5>2
      <4>8. c * p = 1 \/ Abs(c * p) >= 2
        <5>1. Abs(c * p) = Abs(c) * Abs(p) /\ Abs(c) \in Nat /\ Abs(p) \in Nat
          BY <2>6, <4>3, AbsOf
        <5>2. CASE c = 1
          <6>1. c * p = p
            BY <4>3, <5>2, SMT
          <6>2. p = 1 \/ Abs(p) >= 2
            BY <4>2, <4>4, <4>5
          <6> QED
            BY <6>1, <6>2
        <5>3. CASE Abs(c) >= 2
          <6>1. 2 * 1 <= Abs(c) * Abs(p) /\ Abs(c) * Abs(p) \in Nat
            BY <4>4, <5>1, <5>3, ProductGrows
          <6> QED
            BY <5>1, <6>1
        <5> QED
          BY <4>6, <5>2, <5>3
      <4>9. B \notin Int64
        <5>1. CASE c * p = 1
          <6>1. x * (c * p) = x
            BY <4>3, <5>1, SMT
          <6> QED
            BY <4>3, <4>7, <6>1
        <5>2. CASE Abs(c * p) >= 2
          BY <4>3, <4>7, <5>2, FarProduct
        <5> QED
          BY <4>8, <5>1, <5>2
      <4>10. Failed(t.factor) /\ t.remaining > 0
        BY <1>3, <2>3, <2>5, <3>2, CheckedIs
      <4> QED
        BY <1>3, <1>5, <3>1, <4>9, <4>10 DEF Squaring, t, rest, m
    <3>3. CASE rest > 0 /\ b * b \in Int64
      <4>1. ~Failed(t.factor) /\ t.factor.n = b * b
        BY <2>3, <2>5, <3>3, CheckedIs
      <4> QED
        BY <1>3, <1>5, <2>6, <2>7, <3>1, <4>1 DEF Squaring, t, rest, m
    <3>4. CASE rest = 0
      <4>1. ~Failed(t.factor) /\ t.factor.n = b
        BY <1>8, <2>5, <3>4 DEF b, f
      <4>2. Power(b * b, rest) = 1 /\ Power(b, rest) = 1
        BY <2>1, <2>3, <3>4, PowerIs
      <4> QED
        BY <1>3, <1>5, <2>2, <2>6, <2>7, <3>1, <4>1, <4>2 DEF Squaring, t, rest, m
    <3> QED
      BY <1>2, <3>2, <3>3, <3>4
  <2> QED
    BY <2>8, <2>9
<1> QED
  BY <1>6, <1>7, <1>8

(***************************************************************************)
(* Squaring over and over is a function of how often.                      *)
(***************************************************************************)
PowStates == [result : IntResults, factor : IntResults, remaining : Nat]
\* Where the loop of int_pow starts.
PowStart(base, exponent) ==
  [result |-> int_(1), factor |-> int_(base), remaining |-> exponent]

\* A turn of the loop halves what remains.
LEMMA SquaredIsAState ==
  ASSUME NEW s \in PowStates
  PROVE  Squared(s) \in PowStates /\ Squared(s).remaining = s.remaining \div 2
<1>1. s.result \in IntResults /\ s.factor \in IntResults /\ s.remaining \in Nat
  BY DEF PowStates
<1>2. \A v, w \in IntResults : int_mul(v, w) \in IntResults
  <2>1. SUFFICES ASSUME NEW v \in IntResults, NEW w \in IntResults, ~Failed(v), ~Failed(w)
                 PROVE  checked(v.n * w.n) \in IntResults
    BY DEF int_mul
  <2>2. v.n \in Int /\ w.n \in Int
    BY <2>1, IntResultIs
  <2>3. v.n * w.n \in Int
    BY <2>2, SMT
  <2> QED
    BY <2>3, CheckedIs
<1> DEFINE m == s.remaining
           rest == m \div 2
           x == IF m % 2 = 1 THEN int_mul(s.result, s.factor) ELSE s.result
           y == IF rest > 0 THEN int_mul(s.factor, s.factor) ELSE s.factor
<1>3. rest \in Nat
  <2>1. m \in Nat
    BY <1>1
  <2> HIDE DEF m
  <2> QED
    BY <2>1, SMT
<1>4. Squared(s) = [result |-> x, factor |-> y, remaining |-> rest]
  BY DEF Squared
<1>5. x \in IntResults /\ y \in IntResults
  BY <1>1, <1>2
<1> HIDE DEF x, y, rest
<1>6. Squared(s) \in PowStates /\ Squared(s).remaining = rest
  BY <1>3, <1>4, <1>5 DEF PowStates
<1> QED
  BY <1>6 DEF rest

\* int_pow is that many turns of its loop.
LEMMA PowIsIterated ==
  ASSUME NEW base \in Int64, NEW exponent \in Nat
  PROVE  \E after \in [Nat -> PowStates] :
           /\ after[0] = PowStart(base, exponent)
           /\ \A k \in Nat : after[k + 1] = Squared(after[k])
           /\ int_pow(base, exponent) = after[exponent].result
<1> DEFINE Body(f) == [k \in Nat |-> IF k = 0 THEN PowStart(base, exponent) ELSE Squared(f[k - 1])]
           after == CHOOSE f : f = Body(f)
<1>1. \E f : f \in [Nat -> PowStates] /\ f = Body(f)
  <2> DEFINE S == PowStates
             b == PowStart(base, exponent)
             G == [s \in S |-> Squared(s)]
  <2>1. b \in S
    <3>1. 1 \in Int64
      BY NumbersAssumption DEF Int64, MinInt
    <3> QED
      BY <3>1 DEF PowStart, PowStates, IntResults
  <2>2. G \in [S -> S]
    BY SquaredIsAState
  <2>6. \A s \in S : G[s] = Squared(s)
    OBVIOUS
  <2> HIDE DEF S, b, G
  <2>3. PICK f \in [Nat -> S] : f[0] = b /\ \A i \in Nat : f[i + 1] = G[f[i]]
    BY <2>1, <2>2, Iteration
  <2>4. ASSUME NEW i \in Nat PROVE f[i] = IF i = 0 THEN b ELSE Squared(f[i - 1])
    <3>1. CASE i # 0
      <4>1. i - 1 \in Nat /\ (i - 1) + 1 = i /\ f[i - 1] \in S
        BY <3>1
      <4>2. f[(i - 1) + 1] = G[f[i - 1]]
        BY <2>3, <4>1
      <4> QED
        BY <2>6, <3>1, <4>1, <4>2
    <3> QED
      BY <2>3, <3>1
  <2>5. f = Body(f)
    BY <2>4 DEF b
  <2> QED
    BY <2>5 DEF S
<1>2. after = Body(after)
  BY <1>1
<1>3. int_pow(base, exponent) = after[exponent].result
  BY DEF int_pow, PowStart
<1> HIDE DEF after
<1>4. after[0] = PowStart(base, exponent)
  BY <1>2
<1>5. ASSUME NEW k \in Nat PROVE after[k + 1] = Squared(after[k])
  <2>1. k + 1 \in Nat /\ k + 1 # 0 /\ (k + 1) - 1 = k
    OBVIOUS
  <2>2. Body(after)[k + 1] = Squared(after[(k + 1) - 1])
    BY <2>1
  <2> QED
    BY <1>2, <2>1, <2>2
<1>6. \A k \in Nat : after[k] \in PowStates
  <2> DEFINE Stated == {k \in Nat : after[k] \in PowStates}
  <2>1. 0 \in Stated
    <3>1. 1 \in Int64
      BY NumbersAssumption DEF Int64, MinInt
    <3> QED
      BY <1>4, <3>1 DEF PowStart, PowStates, IntResults
  <2>2. ASSUME NEW k \in Nat, k \in Stated PROVE k + 1 \in Stated
    BY <1>5, <2>2, SquaredIsAState
  <2> HIDE DEF Stated
  <2>3. \A k \in Nat : k \in Stated
    BY <2>1, <2>2, Induction
  <2> QED
    BY <2>3 DEF Stated
<1>7. after \in [Nat -> PowStates]
  <2>1. after = [k \in Nat |-> IF k = 0 THEN PowStart(base, exponent) ELSE Squared(after[k - 1])]
    BY <1>2
  <2>2. after = [k \in Nat |-> after[k]]
    BY <2>1
  <2> QED
    BY <1>6, <2>2
<1> QED
  BY <1>3, <1>4, <1>5, <1>7

\* ** of two ints, over every width: the power itself, or the trap where it leaves the
\* width.  No square that is computed on the way traps for a power that fits.
THEOREM IntPowIsPower ==
  ASSUME NEW base \in Int64, NEW exponent \in Nat
  PROVE  int_pow(base, exponent) = checked(Power(base, exponent))
<1> DEFINE B == Power(base, exponent)
<1>1. base \in Int /\ B \in Int
  <2>1. base \in Int
    BY DEF Int64
  <2> QED
    BY <2>1, PowerIs
<1>2. PICK after \in [Nat -> PowStates] :
             /\ after[0] = PowStart(base, exponent)
             /\ \A k \in Nat : after[k + 1] = Squared(after[k])
             /\ int_pow(base, exponent) = after[exponent].result
  BY PowIsIterated
<1> DEFINE Holds == {k \in Nat : /\ Squaring(after[k], base, B)
                                 /\ after[k].remaining = 0 \/ after[k].remaining + k <= exponent}
<1>3. 0 \in Holds
  <2>1. /\ after[0].result = int_(1) /\ after[0].factor = int_(base)
        /\ after[0].remaining = exponent
    BY <1>2 DEF PowStart
  <2>2. 1 \in Int64 /\ int_(1) \in IntResults /\ int_(base) \in IntResults
    BY NumbersAssumption DEF Int64, MinInt, IntResults
  <2>3. int_(1).n = 1 /\ int_(base).n = base /\ ~Failed(int_(1)) /\ ~Failed(int_(base))
    BY DEF int_, value, Failed
  <2>4. 1 * B = B
    BY <1>1, SMT
  <2>5. ~Small(base) => Abs(base) >= 2
    BY <1>1 DEF Small, Abs
  <2>6. Small(1)
    BY DEF Small
  <2> HIDE DEF B
  <2>7. Squaring(after[0], base, B)
    BY <2>1, <2>2, <2>3, <2>4, <2>5, <2>6 DEF Squaring, B
  <2> QED
    BY <2>1, <2>7
<1>4. ASSUME NEW k \in Nat, k \in Holds PROVE k + 1 \in Holds
  <2>1. Squaring(after[k], base, B) /\ after[k + 1] = Squared(after[k])
    BY <1>2, <1>4
  <2> HIDE DEF B
  <2>2. /\ Squaring(after[k + 1], base, B)
        /\ after[k + 1].remaining = after[k].remaining \div 2
    BY <1>1, <2>1, SquaredKeeps
  <2> DEFINE m == after[k].remaining
  <2>3. m \in Nat /\ (m = 0 \/ m + k <= exponent)
    BY <1>4, <2>1 DEF Squaring
  <2>4. after[k + 1].remaining = m \div 2
    BY <2>2
  <2> HIDE DEF m
  <2>5. m \div 2 = 0 \/ (m \div 2) + (k + 1) <= exponent
    BY <2>3, SMT
  <2> QED
    BY <2>2, <2>4, <2>5
<1>5. \A k \in Nat : k \in Holds
  <2> HIDE DEF Holds
  <2> QED
    BY <1>3, <1>4, Induction
<1> DEFINE s == after[exponent]
<1>6. Squaring(s, base, B) /\ (s.remaining = 0 \/ s.remaining + exponent <= exponent)
  BY <1>5
<1> HIDE DEF s, B
<1>7. s.remaining = 0 /\ s.result \in IntResults /\ s.factor \in IntResults
  BY <1>6 DEF Squaring
<1>8. CASE Failed(s.result)
  <2>1. B \notin Int64 /\ s.result = fail("OverflowError")
    BY <1>6, <1>7, <1>8, IntResultIs DEF Squaring
  <2> QED
    BY <1>1, <1>2, <2>1, CheckedIs DEF s, B
<1>9. CASE ~Failed(s.result)
  <2>1. ~Failed(s.factor)
    BY <1>6, <1>7, <1>9 DEF Squaring
  <2>2. s.result.n * Power(s.factor.n, 0) = B
    BY <1>6, <1>7, <1>9, <2>1 DEF Squaring
  <2>3. s.factor.n \in Int /\ s.result.n \in Int64 /\ s.result.n \in Int
        /\ s.result = int_(s.result.n)
    BY <1>7, <1>9, <2>1, IntResultIs
  <2>4. Power(s.factor.n, 0) = 1
    BY <2>3, PowerIs
  <2>5. s.result.n = B
    BY <2>2, <2>3, <2>4
  <2> QED
    BY <1>1, <1>2, <2>3, <2>5, CheckedIs DEF s, B
<1> QED
  BY <1>8, <1>9

-----------------------------------------------------------------------------
(* Rounding.                                                               *)

(***************************************************************************)
(* A positive factor keeps an order and can be cancelled.                  *)
(***************************************************************************)
LEMMA Scaling ==
  ASSUME NEW k \in Nat \ {0}, NEW a \in Int, NEW b \in Int
  PROVE  /\ k * a \in Int /\ k * b \in Int
         /\ k * a = k * b <=> a = b
         /\ k * a < k * b <=> a < b
         /\ k * a <= k * b <=> a <= b
<1>1. k * a \in Int /\ k * b \in Int
  BY SMT
<1>2. ASSUME a < b PROVE k * a < k * b
  <2>1. k * (b - a - 1) >= 0
    BY <1>2, SMT
  <2>2. k * (b - a - 1) = k * b - k * a - k
    BY SMT
  <2> QED
    BY <1>1, <2>1, <2>2
<1>3. ASSUME b < a PROVE k * b < k * a
  <2>1. k * (a - b - 1) >= 0
    BY <1>3, SMT
  <2>2. k * (a - b - 1) = k * a - k * b - k
    BY SMT
  <2> QED
    BY <1>1, <2>1, <2>2
<1>4. a = b => k * a = k * b
  OBVIOUS
<1> DEFINE x == k * a
           y == k * b
<1>5. x \in Int /\ y \in Int /\ (a < b => x < y) /\ (b < a => y < x) /\ (a = b => x = y)
  BY <1>1, <1>2, <1>3, <1>4
<1> HIDE DEF x, y
<1>6. (x = y <=> a = b) /\ (x < y <=> a < b) /\ (x <= y <=> a <= b)
  BY <1>5
<1> QED
  BY <1>1, <1>6 DEF x, y

(***************************************************************************)
(* The powers of two the model looks at.                                   *)
(***************************************************************************)
LEMMA TwoToIs ==
  /\ \A k \in 0..(ExponentRange + Significand) : TwoTo[k] = Power(2, k)
  /\ TwoTo[Significand] = Power(2, Significand)
  /\ TwoTo[Significand - 1] = Power(2, Significand - 1)
  /\ TwoTo[Significand] = 2 * TwoTo[Significand - 1]
  /\ TwoTo[Significand - 1] \in Nat \ {0} /\ TwoTo[Significand] \in Nat \ {0}
<1>1. \A k \in 0..(ExponentRange + Significand) : TwoTo[k] = Power(2, k)
  BY DEF TwoTo
<1>2. Significand \in 0..(ExponentRange + Significand)
      /\ Significand - 1 \in 0..(ExponentRange + Significand)
      /\ Significand - 1 \in Nat /\ (Significand - 1) + 1 = Significand
  BY NumbersAssumption
<1>3. Power(2, (Significand - 1) + 1) = 2 * Power(2, Significand - 1)
      /\ Power(2, Significand - 1) \in Nat \ {0} /\ Power(2, Significand) \in Nat \ {0}
  BY <1>2, NumbersAssumption, PowersOfTwo
<1> QED
  BY <1>1, <1>2, <1>3

\* The bits shifted left by a scale.
Shift(e) == IF e > 0 THEN e ELSE 0

\* A scale up and a scale down, as powers of two.
LEMMA ScaleIs ==
  ASSUME NEW e \in (-ExponentRange)..ExponentRange
  PROVE  /\ Shift(e) \in Nat /\ Shift(-e) \in Nat
         /\ Up(e) = Power(2, Shift(e)) /\ Down(e) = Power(2, Shift(-e))
         /\ Up(e) \in Nat \ {0} /\ Down(e) \in Nat \ {0}
         /\ Up(e) <= Power(2, ExponentRange)
<1>1. e \in Int /\ -e \in Int /\ e <= ExponentRange /\ -e <= ExponentRange /\ ExponentRange \in Nat
      /\ Significand \in Nat
  BY NumbersAssumption
<1>2. Shift(e) \in Nat /\ Shift(-e) \in Nat /\ Shift(e) <= ExponentRange
  BY <1>1 DEF Shift
<1>3. Up(e) = Power(2, Shift(e))
  <2>1. CASE e > 0
    <3>1. e \in 0..(ExponentRange + Significand)
      BY <1>1, <2>1
    <3> QED
      BY <2>1, <3>1, TwoToIs DEF Up, Shift
  <2>2. CASE ~(e > 0)
    BY <2>2, PowersOfTwo DEF Up, Shift
  <2> QED
    BY <2>1, <2>2
<1>4. Down(e) = Power(2, Shift(-e))
  <2>1. CASE e < 0
    <3>1. -e \in 0..(ExponentRange + Significand) /\ -e > 0
      BY <1>1, <2>1
    <3> QED
      BY <2>1, <3>1, TwoToIs DEF Down, Shift
  <2>2. CASE ~(e < 0)
    <3>1. ~(-e > 0)
      BY <1>1, <2>2
    <3> QED
      BY <2>2, <3>1, PowersOfTwo DEF Down, Shift
  <2> QED
    BY <2>1, <2>2
<1>5. Power(2, Shift(e)) <= Power(2, ExponentRange)
  BY <1>1, <1>2, PowersOfTwoGrow
<1> QED
  BY <1>2, <1>3, <1>4, <1>5, PowersOfTwo

(***************************************************************************)
(* A fraction whose size the binary exponents that are looked at reach.    *)
(***************************************************************************)
Range2 == (-ExponentRange)..ExponentRange
\* A positive quotient that is in the range of the doubles.
InRange(n, d) ==
  /\ n < TwoTo[Significand] * Power(2, ExponentRange) * d
  /\ TwoTo[Significand - 1] * d <= n * Power(2, ExponentRange)

\* Such a quotient has an exponent.
LEMMA FitsExists ==
  ASSUME NEW n \in Nat, NEW d \in Nat \ {0}, InRange(n, d)
  PROVE  \E e \in Range2 : Fits(n, d, e)
<1> DEFINE R == ExponentRange
           h == TwoTo[Significand - 1]
           T == TwoTo[Significand]
           High(e) == n * Up(e) >= h * d * Down(e)
           Late == {k \in Nat : k <= R + R /\ High(k - R)}
<1>1. R \in Nat \ {0} /\ h \in Nat \ {0} /\ T = 2 * h
  BY NumbersAssumption, TwoToIs
<1>2. \A e \in Range2 : e \in Int /\ Up(e) \in Nat \ {0} /\ Down(e) \in Nat \ {0}
  BY <1>1, ScaleIs DEF Range2
<1>3. R + R \in Late
  <2>1. R \in Range2 /\ -R \in Int
    BY <1>1 DEF Range2
  <2>2. Up(R) = Power(2, R) /\ Down(R) = 1
    <3>1. Shift(R) = R /\ Shift(-R) = 0
      BY <1>1 DEF Shift
    <3> QED
      BY <2>1, <3>1, ScaleIs, PowersOfTwo DEF Range2
  <2>3. h * d * 1 = h * d /\ (R + R) - R = R /\ R + R \in Nat
    BY <1>1, SMT
  <2> QED
    BY <2>2, <2>3 DEF InRange
<1>4. PICK k \in Late : \A y \in Late : k <= y
  <2>1. Late \in SUBSET Nat /\ Late # {}
    BY <1>3
  <2> HIDE DEF Late
  <2> QED
    BY <2>1, LeastNatural
<1> DEFINE e == k - R
<1>5. k \in Nat /\ k <= R + R /\ High(e) /\ e \in Range2 /\ e \in Int
  BY <1>1, <1>4 DEF Range2
<1>6. n * Up(e) < T * d * Down(e)
  <2>1. CASE k = 0
    <3>1. e = -R /\ -R \in Range2
      BY <1>1, <2>1 DEF Range2
    <3>2. Up(e) = 1 /\ Down(e) = Power(2, R)
      <4>1. Shift(-R) = 0 /\ Shift(-(-R)) = R
        BY <1>1 DEF Shift
      <4> QED
        BY <3>1, <4>1, ScaleIs, PowersOfTwo DEF Range2
    <3> DEFINE p == Power(2, R)
    <3>3. n < T * p * d
      BY DEF InRange
    <3>4. p \in Nat \ {0}
      BY <1>1, PowersOfTwo
    <3> HIDE DEF p, T
    <3>5. T \in Int
      BY <1>1
    <3>6. T * p * d = T * d * p /\ n * 1 = n
      BY <3>4, <3>5, SMT
    <3> QED
      BY <3>2, <3>3, <3>6 DEF p
  <2>2. CASE k # 0
    <3> DEFINE b == e - 1
    <3>1. k - 1 \in Nat /\ ~(k <= k - 1) /\ (k - 1) - R = b /\ b \in Range2 /\ b \in Int
      BY <1>1, <1>5, <2>2 DEF Range2
    <3>2. ~High(b)
      <4>1. k - 1 \notin Late
        BY <1>4, <3>1
      <4>2. k - 1 \in Nat /\ k - 1 <= R + R
        BY <1>1, <1>5, <3>1
      <4> DEFINE g == k - 1
      <4>3. g \notin Late /\ g \in Nat /\ g <= R + R /\ g - R = b
        BY <3>1, <4>1, <4>2
      <4> HIDE DEF g, b
      <4>4. ~High(g - R)
        BY <4>3
      <4> QED
        BY <4>3, <4>4
    <3> DEFINE u == Up(b)
               w == Down(b)
               u2 == Up(e)
               w2 == Down(e)
    <3>3. u \in Nat \ {0} /\ w \in Nat \ {0} /\ u2 \in Nat \ {0} /\ w2 \in Nat \ {0}
      BY <1>2, <1>5, <3>1
    <3>4. (u2 = 2 * u /\ w2 = w) \/ (u2 = u /\ w = 2 * w2)
      <4>1. /\ u = Power(2, Shift(b)) /\ w = Power(2, Shift(-b))
            /\ u2 = Power(2, Shift(e)) /\ w2 = Power(2, Shift(-e))
        BY <1>5, <3>1, ScaleIs DEF Range2
      <4>2. CASE e > 0
        <5>1. Shift(e) = Shift(b) + 1 /\ Shift(-b) = Shift(-e) /\ Shift(b) \in Nat
          BY <1>5, <4>2 DEF Shift
        <5>2. Power(2, Shift(b) + 1) = 2 * Power(2, Shift(b))
          BY <5>1, PowersOfTwo
        <5> QED
          BY <4>1, <5>1, <5>2
      <4>3. CASE ~(e > 0)
        <5>1. Shift(-b) = Shift(-e) + 1 /\ Shift(b) = Shift(e) /\ Shift(-e) \in Nat
          BY <1>5, <4>3 DEF Shift
        <5>2. Power(2, Shift(-e) + 1) = 2 * Power(2, Shift(-e))
          BY <5>1, PowersOfTwo
        <5> QED
          BY <4>1, <5>1, <5>2
      <4> QED
        BY <4>2, <4>3
    <3>5. n * u < h * d * w
      <4>1. n * u \in Int /\ h * d * w \in Int
        BY <1>1, <3>3, SMT
      <4> QED
        BY <3>2, <4>1
    <3>6. h \in Nat /\ d \in Nat /\ T = 2 * h
      BY <1>1
    <3> HIDE DEF u, w, u2, w2, h, T, e
    <3>7. n * u2 < T * d * w2
      <4>1. CASE u2 = 2 * u /\ w2 = w
        <5>1. n * u2 = 2 * (n * u) /\ T * d * w2 = 2 * (h * d * w)
          BY <3>3, <3>6, <4>1, SMT
        <5>2. n * u \in Int /\ h * d * w \in Int
          BY <3>3, <3>6, SMT
        <5> QED
          BY <3>5, <5>1, <5>2
      <4>2. CASE u2 = u /\ w = 2 * w2
        <5>1. T * d * w2 = h * d * w
          BY <3>3, <3>6, <4>2, SMT
        <5> QED
          BY <3>5, <4>2, <5>1
      <4> QED
        BY <3>4, <4>1, <4>2
    <3> QED
      BY <3>7 DEF u2, w2
  <2> QED
    BY <2>1, <2>2
<1> QED
  BY <1>5, <1>6 DEF Fits

(***************************************************************************)
(* The nearest integer to a quotient.                                      *)
(***************************************************************************)
LEMMA NearestIs ==
  ASSUME NEW a \in Nat, NEW b \in Nat \ {0}
  PROVE  /\ Nearest(a, b) \in Nat
         /\ Nearest(a, b) = a \div b \/ Nearest(a, b) = (a \div b) + 1
         /\ \A m \in Nat : a = m * b => Nearest(a, b) = m
         /\ \A m \in Nat : m * b <= a => m <= Nearest(a, b)
         /\ \A m \in Nat : a < m * b => Nearest(a, b) <= m
<1> DEFINE q == a \div b
           r == a % b
           N == Nearest(a, b)
<1>1. q \in Int /\ r \in 0..(b - 1) /\ a = b * q + r
  BY Euclid
<1>2. N = q + (IF 2 * r > b \/ (2 * r = b /\ q % 2 = 1) THEN 1 ELSE 0)
  BY DEF Nearest
<1> HIDE DEF q, r, N
<1>3. N = q \/ N = q + 1
  BY <1>1, <1>2
<1>4. r = 0 => N = q
  BY <1>1, <1>2
<1>5. ASSUME NEW m \in Nat, a = m * b PROVE N = m
  <2>1. a = b * m + 0 /\ 0 \in 0..(b - 1)
    BY <1>5, SMT
  <2>2. a \div b = m /\ a % b = 0
    BY <2>1, QuotientIsUnique
  <2> QED
    BY <1>4, <2>2 DEF q, r
<1>6. ASSUME NEW m \in Nat, m * b <= a PROVE m <= q
  <2>1. CASE m >= q + 1
    <3>1. (m - q - 1) * b >= 0
      BY <1>1, <2>1, SMT
    <3>2. (m - q - 1) * b = m * b - b * q - b
      BY <1>1, SMT
    <3>3. m * b \in Int /\ b * q \in Int
      BY <1>1, SMT
    <3> QED
      BY <1>1, <1>6, <3>1, <3>2, <3>3
  <2> QED
    BY <1>1, <2>1
<1>7. ASSUME NEW m \in Nat, a < m * b PROVE q + 1 <= m
  <2>1. CASE m <= q
    <3>1. (q - m) * b >= 0
      BY <1>1, <2>1, SMT
    <3>2. (q - m) * b = b * q - m * b
      BY <1>1, SMT
    <3>3. m * b \in Int /\ b * q \in Int
      BY <1>1, SMT
    <3> QED
      BY <1>1, <1>7, <3>1, <3>2, <3>3
  <2> QED
    BY <1>1, <2>1
<1>8. q >= 0
  <2>1. 0 * b <= a
    BY SMT
  <2> QED
    BY <1>6, <2>1
<1>9. N \in Nat
  BY <1>1, <1>3, <1>8
<1>10. \A m \in Nat : m * b <= a => m <= N
  BY <1>1, <1>3, <1>6
<1>11. \A m \in Nat : a < m * b => N <= m
  BY <1>1, <1>3, <1>7
<1> QED
  BY <1>3, <1>5, <1>9, <1>10, <1>11 DEF N, q

\* The nearest digits do not depend on how a quotient is written.
LEMMA NearestScales ==
  ASSUME NEW a \in Nat, NEW b \in Nat \ {0}, NEW k \in Nat \ {0}
  PROVE  Nearest(k * a, k * b) = Nearest(a, b)
<1> DEFINE q == a \div b
           r == a % b
<1>1. q \in Int /\ r \in 0..(b - 1) /\ a = b * q + r
  BY Euclid
<1>2. k * a \in Int /\ k * b \in Nat \ {0}
  BY SMT
<1> HIDE DEF q, r
<1>3. k * a = (k * b) * q + k * r
  BY <1>1, SMT
<1>4. k * r \in 0..(k * b - 1)
  <2>1. r \in Int /\ 0 <= r /\ r < b
    BY <1>1
  <2>2. k * 0 <= k * r /\ k * r < k * b /\ k * r \in Int
    BY <2>1, Scaling
  <2> QED
    BY <1>2, <2>2
<1>5. (k * a) \div (k * b) = q /\ (k * a) % (k * b) = k * r
  <2> DEFINE x == k * a
             y == k * b
             z == k * r
  <2>1. x \in Int /\ y \in Nat \ {0} /\ z \in 0..(y - 1) /\ x = y * q + z /\ q \in Int
    BY <1>1, <1>2, <1>3, <1>4
  <2> HIDE DEF x, y, z
  <2>2. x \div y = q /\ x % y = z
    BY <2>1, QuotientIsUnique
  <2> QED
    BY <2>2 DEF x, y, z
<1>6. 2 * (k * r) > k * b <=> 2 * r > b
  <2>1. 2 * r \in Int /\ b \in Int /\ r \in Int
    BY <1>1
  <2>2. k * b < k * (2 * r) <=> b < 2 * r
    BY <2>1, Scaling
  <2>3. k * (2 * r) = 2 * (k * r)
    BY <2>1, SMT
  <2> DEFINE x == k * b
             y == 2 * (k * r)
  <2>4. x \in Int /\ y \in Int /\ (x < y <=> b < 2 * r)
    BY <1>2, <1>4, <2>2, <2>3
  <2> HIDE DEF x, y
  <2>5. y > x <=> 2 * r > b
    BY <2>1, <2>4
  <2> QED
    BY <2>5 DEF x, y
<1>7. 2 * (k * r) = k * b <=> 2 * r = b
  <2>1. 2 * r \in Int /\ b \in Int /\ r \in Int
    BY <1>1
  <2>2. k * (2 * r) = k * b <=> 2 * r = b
    BY <2>1, Scaling
  <2>3. k * (2 * r) = 2 * (k * r)
    BY <2>1, SMT
  <2> QED
    BY <2>2, <2>3
<1>8. Nearest(a, b) = q + (IF 2 * r > b \/ (2 * r = b /\ q % 2 = 1) THEN 1 ELSE 0)
  BY DEF Nearest, q, r
<1>9. Nearest(k * a, k * b)
        = q + (IF 2 * (k * r) > k * b \/ (2 * (k * r) = k * b /\ q % 2 = 1) THEN 1 ELSE 0)
  BY <1>5 DEF Nearest
<1> QED
  BY <1>6, <1>7, <1>8, <1>9

(***************************************************************************)
(* Reducing a fraction cancels a common factor; an integer is left over 1. *)
(***************************************************************************)
LEMMA ReducedIs ==
  ASSUME NEW n \in Int, NEW d \in Nat \ {0}, d <= Power(2, ExponentRange)
  PROVE  \E k \in Nat, p \in Nat \ {0} :
           /\ k <= ExponentRange /\ p = Power(2, k)
           /\ Reduced(n, d) = value("Float", n \div p, d \div p)
           /\ n = p * (n \div p) /\ d = p * (d \div p)
           /\ n \div p \in Int /\ d \div p \in Nat \ {0}
           /\ d > p => ~(n % (2 * p) = 0 /\ d % (2 * p) = 0)
<1> DEFINE R == ExponentRange
           Divides(p) == n % p = 0 /\ d % p = 0
           Lowest(k) == Divides(TwoTo[k]) /\ (d > TwoTo[k] => ~Divides(2 * TwoTo[k]))
           k == CHOOSE k \in 0..R : Lowest(k)
           Left == {i \in Nat : i <= R /\ Divides(TwoTo[R - i])}
<1>1. /\ R \in Nat \ {0}
      /\ \A i \in 0..R : TwoTo[i] = Power(2, i) /\ TwoTo[i] \in Nat \ {0} /\ i \in Nat
  <2>1. \A i \in 0..R : i \in 0..(R + Significand) /\ i \in Nat
    BY NumbersAssumption
  <2> QED
    BY <2>1, TwoToIs, PowersOfTwo, NumbersAssumption
<1>2. \A a \in Int : a % 1 = 0
  BY SMT
<1>3. R \in Left
  <2>1. R - R = 0 /\ 0 \in 0..R
    BY <1>1
  <2>2. TwoTo[0] = 1
    BY <1>1, <2>1, PowersOfTwo
  <2>3. Divides(TwoTo[R - R])
    BY <1>1, <1>2, <2>1, <2>2
  <2> QED
    BY <1>1, <2>3
<1>4. PICK i \in Left : \A y \in Left : i <= y
  <2>1. Left \in SUBSET Nat /\ Left # {}
    BY <1>3
  <2> HIDE DEF Left
  <2> QED
    BY <2>1, LeastNatural
<1>5. Lowest(R - i) /\ R - i \in 0..R
  <2> DEFINE g == R - i
  <2>1. g \in 0..R /\ Divides(TwoTo[g]) /\ i \in Nat /\ i <= R
    BY <1>1, <1>4
  <2>2. ASSUME d > TwoTo[g], Divides(2 * TwoTo[g]) PROVE FALSE
    <3>1. CASE g = R
      <4>1. d <= TwoTo[g]
        BY <1>1, <3>1
      <4>2. TwoTo[g] \in Nat
        BY <1>1, <2>1
      <4> QED
        BY <1>1, <2>2, <4>1, <4>2
    <3>2. CASE g # R
      <4>1. g + 1 \in 0..R /\ g \in Nat
        BY <1>1, <2>1, <3>2
      <4>2. TwoTo[g + 1] = 2 * TwoTo[g]
        BY <1>1, <2>1, <4>1, PowersOfTwo
      <4>3. i - 1 \in Nat /\ i - 1 <= R /\ R - (i - 1) = g + 1 /\ ~(i <= i - 1)
        BY <1>1, <2>1, <3>2
      <4>4. Divides(TwoTo[R - (i - 1)])
        BY <2>2, <4>2, <4>3
      <4>5. i - 1 \in Left
        BY <4>3, <4>4
      <4> QED
        BY <1>4, <4>3, <4>5
    <3> QED
      BY <3>1, <3>2
  <2> QED
    BY <2>1, <2>2
<1>6. k \in 0..R /\ Lowest(k)
  <2> HIDE DEF Lowest
  <2> QED
    BY <1>5
<1>7. Reduced(n, d) = value("Float", n \div TwoTo[k], d \div TwoTo[k])
  BY DEF Reduced
<1> HIDE DEF k, Left
<1> DEFINE p == TwoTo[k]
<1>8. p \in Nat \ {0} /\ n % p = 0 /\ d % p = 0 /\ p = Power(2, k) /\ k \in Nat /\ k <= R
  BY <1>1, <1>6
<1>9. /\ n = p * (n \div p) /\ d = p * (d \div p)
      /\ n \div p \in Int /\ d \div p \in Nat \ {0}
  <2> HIDE DEF p
  <2>5. n \div p \in Int /\ n = p * (n \div p) + (n % p)
    BY <1>8, Euclid
  <2>6. d \in Int
    BY <1>1
  <2>7. d \div p \in Int /\ d = p * (d \div p) + (d % p)
    BY <1>8, <2>6, Euclid
  <2>1. n = p * (n \div p) + 0 /\ d = p * (d \div p) + 0 /\ n \div p \in Int /\ d \div p \in Int
    BY <1>8, <2>5, <2>7
  <2> DEFINE x == d \div p
  <2>2. x \in Int /\ d = p * x /\ d \in Nat \ {0} /\ p \in Nat \ {0}
    <3>1. p * (d \div p) \in Int
      BY <1>8, <2>1, SMT
    <3> QED
      BY <1>1, <1>8, <2>1, <3>1
  <2> HIDE DEF x
  <2>3. x \in Nat \ {0}
    <3>1. CASE x <= 0
      <4>1. p * (-x) >= 0 /\ p * (-x) = -(p * x)
        BY <2>2, <3>1, SMT
      <4>2. p * x \in Int
        BY <2>2, SMT
      <4> QED
        BY <2>2, <4>1, <4>2
    <3> QED
      BY <2>2, <3>1
  <2>4. p * (n \div p) \in Int
    BY <1>8, <2>1, SMT
  <2> QED
    BY <2>1, <2>2, <2>3, <2>4 DEF x
<1> HIDE DEF p
<1>10. p = TwoTo[k]
  BY DEF p
<1> QED
  BY <1>6, <1>7, <1>8, <1>9, <1>10

\* A whole number of whole parts is itself.
LEMMA ReducedWhole ==
  ASSUME NEW w \in Int, NEW j \in Nat, j <= ExponentRange
  PROVE  Reduced(w * Power(2, j), Power(2, j)) = value("Float", w, 1)
<1> DEFINE d == Power(2, j)
           n == w * d
<1>1. d \in Nat \ {0} /\ n \in Int /\ d <= Power(2, ExponentRange)
  <2>1. d \in Nat \ {0} /\ d <= Power(2, ExponentRange)
    BY NumbersAssumption, PowersOfTwo, PowersOfTwoGrow
  <2> HIDE DEF d
  <2>2. w * d \in Int
    BY <2>1, SMT
  <2> QED
    BY <2>1, <2>2
<1>2. n = w * d
  OBVIOUS
<1> HIDE DEF n
<1>3. PICK k \in Nat, p \in Nat \ {0} :
        /\ k <= ExponentRange /\ p = Power(2, k)
        /\ Reduced(n, d) = value("Float", n \div p, d \div p)
        /\ n = p * (n \div p) /\ d = p * (d \div p)
        /\ n \div p \in Int /\ d \div p \in Nat \ {0}
        /\ d > p => ~(n % (2 * p) = 0 /\ d % (2 * p) = 0)
  <2> HIDE DEF d
  <2> QED
    BY <1>1, ReducedIs
<1>4. k = j
  <2>1. CASE k > j
    <3>1. 2 * d <= p
      BY <1>3, <2>1, PowersOfTwoGrow
    <3> DEFINE x == d \div p
    <3>2. x \in Nat \ {0} /\ d = p * x
      BY <1>3
    <3> HIDE DEF x, d
    <3>3. p * 1 <= p * x
      BY <1>3, <3>2, Scaling
    <3> QED
      BY <1>1, <1>3, <3>1, <3>2, <3>3
  <2>2. CASE k < j
    <3>1. k + 1 \in Nat /\ k + 1 <= j /\ 2 * p = Power(2, k + 1) /\ 2 * p <= d
      BY <1>3, <2>2, PowersOfTwo, PowersOfTwoGrow
    <3> DEFINE s == Power(2, j - (k + 1))
               q == 2 * p
    <3>2. d = q * s /\ s \in Int /\ q \in Nat \ {0}
      <4>1. j - (k + 1) \in Nat
        BY <3>1
      <4> QED
        BY <1>3, <3>1, <4>1, PowersOfTwo, PowersOfTwoGrow
    <3> HIDE DEF s, d
    <3>3. d > p
      BY <1>1, <1>3, <3>1
    <3> HIDE DEF q
    <3>4. 0 \in 0..(q - 1) /\ d \in Int
      BY <1>1, <3>2
    <3>5. w * s \in Int /\ d = q * s + 0 /\ n = q * (w * s) + 0
      <4>1. w * s \in Int /\ w * (q * s) = q * (w * s) /\ q * (w * s) \in Int /\ q * s \in Int
        BY <3>2, SMT
      <4> QED
        BY <1>2, <3>2, <4>1
    <3>6. d % q = 0
      BY <3>2, <3>4, <3>5, QuotientIsUnique
    <3>7. n % q = 0
      BY <1>1, <3>2, <3>4, <3>5, QuotientIsUnique
    <3> QED
      BY <1>3, <3>3, <3>6, <3>7 DEF q
  <2> QED
    BY <1>3, <2>1, <2>2
<1>5. p = d
  BY <1>3, <1>4
<1>6. n \div d = w /\ d \div d = 1
  <2> HIDE DEF d
  <2>1. 0 \in 0..(d - 1) /\ n = d * w + 0 /\ d = d * 1 + 0 /\ d \in Int
    <3>1. w * d = d * w /\ d * w \in Int /\ d * 1 = d
      BY <1>1, SMT
    <3> QED
      BY <1>1, <1>2, <3>1
  <2> QED
    BY <1>1, <2>1, QuotientIsUnique
<1> QED
  BY <1>2, <1>3, <1>5, <1>6

(***************************************************************************)
(* What a double can be: Significand binary digits and an exponent.        *)
(***************************************************************************)
Rep(n, d) ==
  \E m, i, j \in Nat : m < TwoTo[Significand] /\ Abs(n) * Power(2, i) = m * d * Power(2, j)

\* A Float whose quotient has no more digits than a double.
IsDouble(x) ==
  x = value("Float", x.n, x.d) /\ x.n \in Int /\ x.d \in Nat \ {0} /\ Rep(x.n, x.d)

(***************************************************************************)
(* How a number is rounded: p is what the reduction cancels.               *)
(***************************************************************************)
Rounding(n, d, r, e, digits, p) ==
  /\ e \in Range2 /\ digits \in Nat /\ p \in Nat \ {0}
  /\ Fits(Abs(n), d, e) /\ digits = Nearest(Abs(n) * Up(e), d * Down(e))
  /\ r = value("Float", r.n, r.d) /\ r.n \in Int /\ r.d \in Nat \ {0}
  /\ p * r.n = (IF n < 0 THEN -digits ELSE digits) * Down(e) /\ p * r.d = Up(e)
  /\ r = Reduced((IF n < 0 THEN -digits ELSE digits) * Down(e), Up(e))

\* Round picks an exponent that fits, and the digits nearest to the quotient.
LEMMA RoundIs ==
  ASSUME NEW n \in Int, n # 0, NEW d \in Nat \ {0}, InRange(Abs(n), d)
  PROVE  \E e \in Range2, digits \in Nat, p \in Nat \ {0} :
           Rounding(n, d, Round(n, d), e, digits, p)
<1> DEFINE e == CHOOSE e \in (-ExponentRange)..ExponentRange : Fits(Abs(n), d, e)
           digits == Nearest(Abs(n) * Up(e), d * Down(e))
           z == (IF n < 0 THEN -digits ELSE digits) * Down(e)
           r == Round(n, d)
<1>1. Abs(n) \in Nat
  BY DEF Abs
<1>2. \E f \in (-ExponentRange)..ExponentRange : Fits(Abs(n), d, f)
  BY <1>1, FitsExists DEF Range2
<1>3. e \in Range2 /\ Fits(Abs(n), d, e)
  BY <1>2 DEF Range2
<1>4. r = Reduced(z, Up(e))
  BY DEF Round
<1> HIDE DEF e, r
<1>5. Up(e) \in Nat \ {0} /\ Down(e) \in Nat \ {0} /\ Shift(e) \in Nat
      /\ Up(e) = Power(2, Shift(e)) /\ Shift(e) <= ExponentRange
  <2>1. Shift(e) <= ExponentRange
    BY <1>3, NumbersAssumption DEF Range2, Shift
  <2> QED
    BY <1>3, <2>1, ScaleIs DEF Range2
<1>6. digits \in Nat
  <2>1. Abs(n) * Up(e) \in Nat /\ d * Down(e) \in Nat \ {0}
    BY <1>1, <1>5, SMT
  <2> QED
    BY <2>1, NearestIs
<1> HIDE DEF digits
<1>7. z \in Int
  <2>1. (IF n < 0 THEN -digits ELSE digits) \in Int
    BY <1>6
  <2> QED
    BY <1>5, <2>1, SMT
<1> HIDE DEF z
<1>8. PICK p \in Nat \ {0} :
        /\ Reduced(z, Up(e)) = value("Float", z \div p, Up(e) \div p)
        /\ z = p * (z \div p) /\ Up(e) = p * (Up(e) \div p)
        /\ z \div p \in Int /\ Up(e) \div p \in Nat \ {0}
  <2> DEFINE u == Up(e)
  <2>1. u \in Nat \ {0} /\ u <= Power(2, ExponentRange)
    BY <1>3, ScaleIs DEF Range2
  <2> HIDE DEF u
  <2>2. \E p \in Nat \ {0} :
          /\ Reduced(z, u) = value("Float", z \div p, u \div p)
          /\ z = p * (z \div p) /\ u = p * (u \div p)
          /\ z \div p \in Int /\ u \div p \in Nat \ {0}
    BY <1>7, <2>1, ReducedIs
  <2> QED
    BY <2>2 DEF u
<1>9. r.n = z \div p /\ r.d = Up(e) \div p /\ r = value("Float", r.n, r.d)
  BY <1>4, <1>8 DEF value
<1>10. p * r.n = z /\ p * r.d = Up(e)
  BY <1>8, <1>9
<1>11. Rounding(n, d, r, e, digits, p)
  BY <1>3, <1>4, <1>6, <1>8, <1>9, <1>10 DEF Rounding, digits, z
<1> QED
  BY <1>3, <1>6, <1>11 DEF r

(***************************************************************************)
(* A rounded number is a double, of the sign of the number.                *)
(***************************************************************************)
LEMMA RoundingIsDouble ==
  ASSUME NEW n \in Int, n # 0, NEW d \in Nat \ {0}, NEW r, NEW e, NEW digits, NEW p,
         Rounding(n, d, r, e, digits, p)
  PROVE  /\ TwoTo[Significand - 1] <= digits /\ digits <= TwoTo[Significand] /\ digits # 0
         /\ Abs(n) * Up(e) \in Nat /\ d * Down(e) \in Nat \ {0}
         /\ p * Abs(r.n) = digits * Down(e)
         /\ (r.n < 0 <=> n < 0) /\ r.n # 0
         /\ IsDouble(r)
<1> DEFINE u == Up(e)
           w == Down(e)
           T == TwoTo[Significand]
           h == TwoTo[Significand - 1]
           a == Abs(n)
<1>1. u \in Nat \ {0} /\ w \in Nat \ {0} /\ a \in Nat /\ p \in Nat \ {0} /\ digits \in Nat
      /\ r.n \in Int /\ r.d \in Nat \ {0} /\ T = 2 * h /\ h \in Nat \ {0}
  BY ScaleIs, TwoToIs DEF Rounding, Range2, Abs
<1>2. a * u >= h * d * w /\ a * u < T * d * w
  BY DEF Rounding, Fits
<1>3. digits = Nearest(a * u, d * w) /\ p * r.d = u
      /\ p * r.n = (IF n < 0 THEN -digits ELSE digits) * w
  BY DEF Rounding
<1> HIDE DEF u, w, T, h, a
<1>4. a * u \in Nat /\ d * w \in Nat \ {0} /\ h * (d * w) = h * d * w /\ T * (d * w) = T * d * w
  BY <1>1, SMT
<1>5. h <= digits /\ digits <= T
  <2> DEFINE x == a * u
             y == d * w
  <2>1. x \in Nat /\ y \in Nat \ {0} /\ h * y <= x /\ x < T * y /\ digits = Nearest(x, y)
    <3>1. h * d * w \in Int
      BY <1>1, SMT
    <3> QED
      BY <1>2, <1>3, <1>4, <3>1
  <2>2. T \in Nat /\ h \in Nat
    BY <1>1
  <2> HIDE DEF x, y
  <2> QED
    BY <2>1, <2>2, NearestIs
<1>6. digits # 0
  BY <1>1, <1>5
<1>7. p * Abs(r.n) = digits * w /\ (r.n < 0 <=> n < 0) /\ r.n # 0
  <2> DEFINE s == r.n
             g == digits * w
  <2>1. s \in Int /\ g \in Nat \ {0} /\ p * s = (IF n < 0 THEN -g ELSE g)
    <3>1. g \in Nat \ {0} /\ (-digits) * w = -g
      BY <1>1, <1>6, SMT
    <3> QED
      BY <1>1, <1>3, <3>1
  <2> HIDE DEF s, g
  <2>2. p * 0 = 0 /\ p * (-s) = -(p * s)
    BY <1>1, <2>1, SMT
  <2>3. (p * s < p * 0 <=> s < 0) /\ (p * s = p * 0 <=> s = 0)
    BY <1>1, <2>1, Scaling
  <2>4. (s < 0 <=> n < 0) /\ s # 0
    BY <2>1, <2>2, <2>3
  <2>5. p * Abs(s) = g
    BY <2>1, <2>2, <2>4 DEF Abs
  <2> QED
    BY <2>4, <2>5 DEF s, g
<1>8. Rep(r.n, r.d)
  <2> DEFINE i == Shift(e)
             j == Shift(-e)
             c == Abs(r.n)
             q == r.d
  <2>1. i \in Nat /\ j \in Nat /\ u = Power(2, i) /\ w = Power(2, j)
    BY ScaleIs DEF Rounding, Range2, u, w
  <2>2. c \in Nat /\ q \in Nat \ {0} /\ p * c = digits * w /\ p * q = u
    BY <1>1, <1>3, <1>7, AbsOf
  <2> HIDE DEF i, j, c, q
  <2>3. c * u = digits * q * w
    <3>1. c * (p * q) = (p * c) * q
      BY <1>1, <2>2, SMT
    <3>2. (digits * w) * q = digits * q * w
      BY <1>1, <2>2, SMT
    <3> QED
      BY <2>2, <3>1, <3>2
  <2>4. CASE digits < T
    <3>1. c * Power(2, i) = digits * q * Power(2, j)
      BY <2>1, <2>3
    <3> QED
      BY <1>1, <2>1, <2>4, <3>1 DEF Rep, T, c, q
  <2>5. CASE ~(digits < T)
    <3>1. digits = 2 * h /\ h < T
      BY <1>1, <1>5, <2>5
    <3>2. Power(2, j + 1) = 2 * w /\ j + 1 \in Nat
      BY <2>1, PowersOfTwo
    <3>3. (2 * h) * q * w = h * q * (2 * w)
      BY <1>1, <2>2, SMT
    <3>4. c * Power(2, i) = h * q * Power(2, j + 1)
      BY <2>1, <2>3, <3>1, <3>2, <3>3
    <3>5. h \in Nat
      BY <1>1
    <3> QED
      BY <2>1, <3>1, <3>2, <3>4, <3>5 DEF Rep, T, c, q
  <2> QED
    BY <2>4, <2>5
<1>9. IsDouble(r)
  BY <1>1, <1>8 DEF IsDouble, Rounding
<1> QED
  BY <1>4, <1>5, <1>6, <1>7, <1>9 DEF u, w, T, h, a

(***************************************************************************)
(* A number a double can be is rounded to itself.                          *)
(***************************************************************************)
LEMMA RoundingIsExact ==
  ASSUME NEW n \in Int, n # 0, NEW d \in Nat \ {0}, NEW r, NEW e, NEW digits, NEW p,
         Rounding(n, d, r, e, digits, p), Rep(n, d)
  PROVE  /\ r.n * d = n * r.d
         /\ Abs(n) * Up(e) = digits * (d * Down(e))
<1> DEFINE u == Up(e)
           w == Down(e)
           T == TwoTo[Significand]
           h == TwoTo[Significand - 1]
           a == Abs(n)
           x == a * u
           b == d * w
<1>1. u \in Nat \ {0} /\ w \in Nat \ {0} /\ a \in Nat /\ p \in Nat \ {0} /\ digits \in Nat
      /\ r.n \in Int /\ r.d \in Nat \ {0} /\ T = 2 * h /\ h \in Nat \ {0}
  BY ScaleIs, TwoToIs DEF Rounding, Range2, Abs
<1>2. x \in Nat /\ b \in Nat \ {0} /\ h * b <= x /\ digits = Nearest(x, b)
  <2>1. a * u >= h * d * w
    BY DEF Rounding, Fits
  <2>2. digits = Nearest(a * u, d * w)
    BY DEF Rounding
  <2> HIDE DEF a, u, h, w
  <2>3. a * u \in Nat /\ d * w \in Nat \ {0} /\ h * (d * w) = h * d * w /\ h * (d * w) \in Int
    BY <1>1, SMT
  <2> QED
    BY <2>1, <2>2, <2>3
<1>3. PICK m, i, j \in Nat : m < T /\ a * Power(2, i) = m * d * Power(2, j)
  BY DEF Rep
<1>4. \E k \in Nat : x = k * b
  <2> DEFINE s1 == i + Shift(-e)
             s2 == j + Shift(e)
             P1 == Power(2, s1)
             P2 == Power(2, s2)
  <2>1. /\ s1 \in Nat /\ s2 \in Nat /\ P1 \in Nat \ {0} /\ P2 \in Nat \ {0}
        /\ P1 = Power(2, i) * w /\ P2 = Power(2, j) * u
    <3>1. Shift(e) \in Nat /\ Shift(-e) \in Nat /\ u = Power(2, Shift(e)) /\ w = Power(2, Shift(-e))
      BY ScaleIs DEF Rounding, Range2
    <3>2. Power(2, i + Shift(-e)) = Power(2, i) * w /\ Power(2, j + Shift(e)) = Power(2, j) * u
      <4>1. \A x1, x2 \in Nat : Power(2, x1 + x2) = Power(2, x1) * Power(2, x2)
        BY PowersOfTwo
      <4>2. Power(2, i + Shift(-e)) = Power(2, i) * Power(2, Shift(-e))
        BY <3>1, <4>1
      <4>3. Power(2, j + Shift(e)) = Power(2, j) * Power(2, Shift(e))
        BY <3>1, <4>1
      <4> HIDE DEF u, w
      <4> QED
        BY <3>1, <4>2, <4>3
    <3>3. s1 \in Nat /\ s2 \in Nat
      BY <3>1
    <3> QED
      BY <3>2, <3>3, PowersOfTwo
  <2>2. Power(2, i) \in Nat /\ Power(2, j) \in Nat
    BY PowersOfTwo
  <2> DEFINE A == Power(2, i)
             B == Power(2, j)
  <2>3. a * A = m * d * B /\ A \in Nat /\ B \in Nat /\ P1 = A * w /\ P2 = B * u
    BY <1>3, <2>1, <2>2
  <2>4. x * P1 = (m * b) * P2
    <3> HIDE DEF a, u, w, A, B, P1, P2
    <3>1. (a * u) * (A * w) = (a * A) * (u * w)
      BY <1>1, <2>3, SMT
    <3>2. (m * (d * w)) * (B * u) = (m * d * B) * (u * w)
      BY <1>1, <2>3, SMT
    <3> QED
      BY <2>3, <3>1, <3>2
  <2>5. m * b \in Nat
    BY <1>2, SMT
  <2> HIDE DEF x, b, h, T
  <2>6. CASE s1 <= s2
    <3> DEFINE Q == Power(2, s2 - s1)
    <3>1. P2 = P1 * Q /\ Q \in Nat
      <4>1. s2 - s1 \in Nat
        BY <2>1, <2>6
      <4> QED
        BY <2>1, <2>6, <4>1, PowersOfTwoGrow, PowersOfTwo
    <3> HIDE DEF P1, P2, Q
    <3>2. (m * b) * (P1 * Q) = P1 * ((m * Q) * b) /\ x * P1 = P1 * x
          /\ (m * Q) * b \in Int /\ m * Q \in Nat
      BY <1>2, <2>1, <2>5, <3>1, SMT
    <3>3. x = (m * Q) * b
      BY <1>2, <2>1, <2>4, <3>1, <3>2, Scaling
    <3> QED
      BY <3>2, <3>3
  <2>7. CASE ~(s1 <= s2)
    <3> DEFINE Q == Power(2, s1 - s2)
    <3>1. P1 = P2 * Q /\ Q \in Nat /\ Q >= 2
      <4>1. s1 - s2 \in Nat /\ s2 <= s1 /\ 1 <= s1 - s2
        BY <2>1, <2>7
      <4>2. P1 = P2 * Q
        BY <2>1, <4>1, PowersOfTwoGrow
      <4>3. Power(2, 0) = 1 /\ 2 * Power(2, 0) <= Q /\ Q \in Nat
        BY <4>1, PowersOfTwo, PowersOfTwoGrow
      <4> QED
        BY <4>2, <4>3
    <3> HIDE DEF P1, P2, Q
    <3>2. x * (P2 * Q) = P2 * (x * Q) /\ (m * b) * P2 = P2 * (m * b) /\ x * Q \in Nat
      BY <1>2, <2>1, <2>5, <3>1, SMT
    <3>3. x * Q = m * b
      <4> DEFINE y == x * Q
                 z == m * b
      <4>1. y \in Int /\ z \in Int /\ P2 * y = P2 * z /\ P2 \in Nat \ {0}
        BY <2>1, <2>4, <2>5, <3>1, <3>2
      <4> HIDE DEF y, z
      <4>2. y = z
        BY <4>1, Scaling
      <4> QED
        BY <4>2 DEF y, z
    <3>4. h * b \in Nat /\ (h * b) * 2 <= x * Q
      <4>1. h * b \in Nat
        BY <1>1, <1>2, SMT
      <4> QED
        BY <1>2, <3>1, <4>1, ProductGrows
    <3>5. (h * b) * 2 = b * T /\ m * b = b * m
      BY <1>1, <1>2, SMT
    <3>6. b * m < b * T
      BY <1>1, <1>2, <1>3, Scaling
    <3>7. b * m \in Int /\ b * T \in Int
      BY <1>1, <1>2, SMT
    <3> QED
      BY <3>3, <3>4, <3>5, <3>6, <3>7
  <2> QED
    BY <2>1, <2>6, <2>7
<1>5. x = digits * b
  <2> HIDE DEF x, b
  <2> QED
    BY <1>2, <1>4, NearestIs
<1>6. p * r.d = u /\ p * r.n = (IF n < 0 THEN -digits ELSE digits) * w
  BY DEF Rounding
<1>7. r.n * d = n * r.d
  <2> DEFINE s == r.n
             q == r.d
  <2>1. s \in Int /\ q \in Nat \ {0} /\ p * q = u
        /\ p * s = (IF n < 0 THEN -digits ELSE digits) * w /\ a * u = digits * (d * w)
    BY <1>1, <1>5, <1>6
  <2>2. n = IF n < 0 THEN -a ELSE a
    BY DEF Abs
  <2> HIDE DEF s, q, a, u, w, x, b
  <2>3. p * (s * d) = (p * s) * d /\ p * (n * q) = n * (p * q)
    BY <1>1, <2>1, SMT
  <2>4. (p * s) * d = n * u
    <3>1. CASE n < 0
      <4>1. p * s = (-digits) * w
        BY <2>1, <3>1
      <4>2. n = -a
        BY <2>2, <3>1
      <4>3. ((-digits) * w) * d = -(digits * (d * w)) /\ (-a) * u = -(a * u)
        BY <1>1, SMT
      <4> QED
        BY <2>1, <4>1, <4>2, <4>3
    <3>2. CASE ~(n < 0)
      <4>1. p * s = digits * w
        BY <2>1, <3>2
      <4>2. n = a
        BY <2>2, <3>2
      <4>3. (digits * w) * d = digits * (d * w)
        BY <1>1, SMT
      <4> QED
        BY <2>1, <4>1, <4>2, <4>3
    <3> QED
      BY <3>1, <3>2
  <2>5. s * d \in Int /\ n * q \in Int
    BY <2>1, SMT
  <2>6. p * (s * d) = p * (n * q)
    BY <2>1, <2>3, <2>4
  <2>7. s * d = n * q
    BY <1>1, <2>5, <2>6, Scaling
  <2> QED
    BY <2>7 DEF s, q
<1> QED
  BY <1>5, <1>7

(***************************************************************************)
(* Rounding is of the number, not of how the fraction is written.          *)
(***************************************************************************)
LEMMA RoundScales ==
  ASSUME NEW n \in Int, n # 0, NEW d \in Nat \ {0}, NEW k \in Nat \ {0}, InRange(Abs(n), d)
  PROVE  Round(k * n, k * d) = Round(n, d)
<1> DEFINE a == Abs(n)
           c == Abs(k * n)
           g == k * d
           e == CHOOSE e \in (-ExponentRange)..ExponentRange : Fits(a, d, e)
           f == CHOOSE f \in (-ExponentRange)..ExponentRange : Fits(c, g, f)
<1>1. a \in Nat /\ c = k * a /\ k * n \in Int /\ g \in Nat \ {0}
  <2>1. Abs(k * n) = Abs(k) * Abs(n) /\ Abs(k) = k /\ k * n \in Int
    <3>1. k \in Int
      OBVIOUS
    <3>2. Abs(k * n) = Abs(k) * Abs(n) /\ k * n \in Int
      BY <3>1, AbsOf
    <3>3. Abs(k) = k
      BY DEF Abs
    <3> QED
      BY <3>2, <3>3
  <2>2. Abs(n) \in Nat
    BY DEF Abs
  <2>3. k * d \in Nat \ {0}
    BY SMT
  <2> QED
    BY <2>1, <2>2, <2>3
<1>2. (k * n < 0 <=> n < 0) /\ k * n # 0
  <2>1. k * 0 = 0
    BY SMT
  <2>2. (k * n < k * 0 <=> n < 0) /\ (k * n = k * 0 <=> n = 0)
    BY Scaling
  <2> QED
    BY <2>1, <2>2
<1> HIDE DEF a, c, g
<1>3. ASSUME NEW i \in (-ExponentRange)..ExponentRange
      PROVE  /\ Fits(a, d, i) <=> Fits(c, g, i)
             /\ Nearest(c * Up(i), g * Down(i)) = Nearest(a * Up(i), d * Down(i))
  <2> DEFINE u == Up(i)
             w == Down(i)
             T == TwoTo[Significand]
             h == TwoTo[Significand - 1]
  <2>1. u \in Nat \ {0} /\ w \in Nat \ {0} /\ T \in Nat /\ h \in Nat
    BY ScaleIs, TwoToIs
  <2> HIDE DEF u, w, T, h
  <2>2. c * u = k * (a * u) /\ a * u \in Nat
    BY <1>1, <2>1, SMT
  <2>3. g * w = k * (d * w) /\ d * w \in Nat \ {0}
    <3>1. (k * d) * w = k * (d * w) /\ d * w \in Nat \ {0}
      BY <2>1, SMT
    <3> QED
      BY <3>1 DEF g
  <2>4. h * g * w = k * (h * d * w) /\ T * g * w = k * (T * d * w)
        /\ h * d * w \in Int /\ T * d * w \in Int
    <3>1. h * (k * d) * w = k * (h * d * w) /\ T * (k * d) * w = k * (T * d * w)
      BY <2>1, SMT
    <3>2. h * d * w \in Int /\ T * d * w \in Int
      BY <2>1, SMT
    <3> QED
      BY <3>1, <3>2 DEF g
  <2>5. Nearest(k * (a * u), k * (d * w)) = Nearest(a * u, d * w)
    BY <2>2, <2>3, NearestScales
  <2>6. (k * (h * d * w) <= k * (a * u) <=> h * d * w <= a * u)
        /\ (k * (a * u) < k * (T * d * w) <=> a * u < T * d * w)
    BY <2>2, <2>4, Scaling
  <2>7. (c * u >= h * g * w <=> h * g * w <= c * u) /\ (a * u >= h * d * w <=> h * d * w <= a * u)
    <3>1. c * u \in Int /\ h * g * w \in Int
      BY <1>1, <2>1, SMT
    <3> QED
      BY <2>2, <2>4, <3>1
  <2>8. Fits(a, d, i) <=> (h * d * w <= a * u /\ a * u < T * d * w)
    BY <2>7 DEF Fits, u, w, T, h
  <2>9. Fits(c, g, i) <=> (h * g * w <= c * u /\ c * u < T * g * w)
    BY <2>7 DEF Fits, u, w, T, h
  <2> QED
    BY <2>2, <2>3, <2>4, <2>5, <2>6, <2>8, <2>9 DEF u, w
<1>4. e = f
  BY <1>3
<1>5. e \in (-ExponentRange)..ExponentRange
  <2>1. \E i \in (-ExponentRange)..ExponentRange : Fits(a, d, i)
    BY <1>1, FitsExists DEF Range2, a
  <2> QED
    BY <2>1
<1>6. Round(n, d) =
        LET digits == Nearest(a * Up(e), d * Down(e))
        IN Reduced((IF n < 0 THEN -digits ELSE digits) * Down(e), Up(e))
  BY DEF Round, a
<1>7. Round(k * n, k * d) =
        LET digits == Nearest(c * Up(f), g * Down(f))
        IN Reduced((IF k * n < 0 THEN -digits ELSE digits) * Down(f), Up(f))
  BY <1>2 DEF Round, c, g
<1> HIDE DEF e, f
<1>8. Nearest(c * Up(e), g * Down(e)) = Nearest(a * Up(e), d * Down(e))
  BY <1>3, <1>5
<1> QED
  BY <1>2, <1>4, <1>6, <1>7, <1>8

\* 0, or a quotient in the range.
Roundable(n, d) == n = 0 \/ InRange(Abs(n), d)

\* What fits below the largest and above the smallest number that is looked at.
LEMMA RoundableWithin ==
  ASSUME NEW n \in Int, NEW d \in Nat \ {0}, NEW A \in Nat, NEW B \in Nat,
         Abs(n) <= A, d <= B,
         A < TwoTo[Significand] * Power(2, ExponentRange),
         TwoTo[Significand - 1] * B <= Power(2, ExponentRange)
  PROVE  Roundable(n, d)
<1>1. SUFFICES ASSUME n # 0 PROVE InRange(Abs(n), d)
  BY DEF Roundable
<1> DEFINE M == Power(2, ExponentRange)
           T == TwoTo[Significand]
           h == TwoTo[Significand - 1]
           a == Abs(n)
<1>2. M \in Nat \ {0} /\ T \in Nat \ {0} /\ h \in Nat \ {0} /\ a \in Nat \ {0}
  <2>1. Abs(n) \in Nat \ {0}
    BY <1>1 DEF Abs
  <2> QED
    BY <2>1, TwoToIs, PowersOfTwo, NumbersAssumption
<1> HIDE DEF M, T, h, a
<1>3. a <= A /\ A < T * M /\ h * B <= M
  BY DEF M, T, h, a
<1>4. a < T * M * d
  <2>1. T * M \in Nat
    BY <1>2, SMT
  <2>2. (T * M) * 1 <= (T * M) * d /\ (T * M) * d \in Nat
    BY <2>1, ProductGrows
  <2>3. (T * M) * 1 = T * M
    BY <2>1
  <2> QED
    BY <1>2, <1>3, <2>1, <2>2, <2>3
<1>5. h * d <= a * M
  <2>1. h * d <= h * B /\ h * d \in Nat /\ h * B \in Nat
    BY <1>2, ProductGrows
  <2>2. 1 * M <= a * M /\ a * M \in Nat
    BY <1>2, ProductGrows
  <2> QED
    BY <1>2, <1>3, <2>1, <2>2
<1> QED
  BY <1>4, <1>5 DEF InRange, M, T, h, a

\* Rounding gives a double of the same sign, and the quotient itself if that is one.
LEMMA RoundFacts ==
  ASSUME NEW n \in Int, NEW d \in Nat \ {0}, Roundable(n, d)
  PROVE  LET r == Round(n, d) IN
         /\ IsDouble(r) /\ (r.n < 0 <=> n < 0) /\ (r.n = 0 <=> n = 0)
         /\ Rep(n, d) => r.n * d = n * r.d
<1> DEFINE r == Round(n, d)
<1>1. CASE n = 0
  <2>1. r = value("Float", 0, 1)
    BY <1>1 DEF Round
  <2>2. r.n = 0 /\ r.d = 1
    BY <2>1 DEF value
  <2>3. Rep(0, 1)
    <3>1. Abs(0) = 0 /\ Power(2, 0) = 1 /\ 0 < TwoTo[Significand]
      BY TwoToIs, PowersOfTwo DEF Abs
    <3>2. Abs(0) * Power(2, 0) = 0 * 1 * Power(2, 0)
      BY <3>1
    <3>3. 0 \in Nat
      OBVIOUS
    <3> QED
      BY <3>1, <3>2, <3>3 DEF Rep
  <2>4. IsDouble(r)
    BY <2>1, <2>2, <2>3 DEF IsDouble
  <2>5. 0 * d = 0 * 1
    BY SMT
  <2> QED
    BY <1>1, <2>2, <2>4, <2>5
<1>2. CASE n # 0
  <2>1. InRange(Abs(n), d)
    BY <1>2 DEF Roundable
  <2>2. PICK e \in Range2, digits \in Nat, p \in Nat \ {0} : Rounding(n, d, r, e, digits, p)
    BY <1>2, <2>1, RoundIs
  <2> HIDE DEF r
  <2>3. IsDouble(r) /\ (r.n < 0 <=> n < 0) /\ r.n # 0
    BY <1>2, <2>2, RoundingIsDouble
  <2>4. Rep(n, d) => r.n * d = n * r.d
    BY <1>2, <2>2, RoundingIsExact
  <2> QED
    BY <1>2, <2>3, <2>4 DEF r
<1> QED
  BY <1>1, <1>2

(***************************************************************************)
(* Two ways to write one number.                                           *)
(***************************************************************************)
LEMMA SameNumber ==
  ASSUME NEW n \in Int, NEW d \in Nat \ {0}, NEW m \in Int, NEW c \in Nat \ {0}, n * c = m * d
  PROVE  /\ c * n = d * m /\ c * d = d * c
         /\ (n = 0 <=> m = 0) /\ (n < 0 <=> m < 0)
         /\ Abs(n) * c = Abs(m) * d /\ Abs(n) \in Nat /\ Abs(m) \in Nat
<1>1. c * n = n * c /\ d * m = m * d /\ c * d = d * c /\ c * 0 = 0 /\ d * 0 = 0
  BY SMT
<1>2. (c * n < c * 0 <=> n < 0) /\ (c * n = c * 0 <=> n = 0)
  BY Scaling
<1>3. (d * m < d * 0 <=> m < 0) /\ (d * m = d * 0 <=> m = 0)
  BY Scaling
<1>4. (n = 0 <=> m = 0) /\ (n < 0 <=> m < 0)
  BY <1>1, <1>2, <1>3
<1>5. Abs(n) * c = Abs(m) * d
  <2>1. CASE n < 0
    <3>1. Abs(n) = -n /\ Abs(m) = -m
      BY <1>4, <2>1 DEF Abs
    <3>2. (-n) * c = -(n * c) /\ (-m) * d = -(m * d)
      BY SMT
    <3> QED
      BY <3>1, <3>2
  <2>2. CASE ~(n < 0)
    BY <1>4, <2>2 DEF Abs
  <2> QED
    BY <2>1, <2>2
<1> QED
  BY <1>1, <1>4, <1>5, AbsOf

\* A double is one however its quotient is written.
LEMMA RepSame ==
  ASSUME NEW n \in Int, NEW d \in Nat \ {0}, NEW m \in Int, NEW c \in Nat \ {0},
         n * c = m * d, Rep(n, d)
  PROVE  Rep(m, c)
<1> DEFINE a == Abs(n)
           b == Abs(m)
<1>1. a \in Nat /\ b \in Nat /\ a * c = b * d
  BY SameNumber
<1>2. PICK k, i, j \in Nat : k < TwoTo[Significand] /\ a * Power(2, i) = k * d * Power(2, j)
  BY DEF Rep
<1> HIDE DEF a, b
<1> DEFINE A == Power(2, i)
           B == Power(2, j)
<1>3. A \in Nat /\ B \in Nat /\ a * A = k * d * B
  BY <1>2, PowersOfTwo
<1> HIDE DEF A, B
<1>4. d * (b * A) = d * (k * c * B)
  <2>1. d * (b * A) = (b * d) * A /\ (a * c) * A = c * (a * A)
    BY <1>1, <1>3, SMT
  <2>2. c * (k * d * B) = d * (k * c * B)
    BY <1>2, <1>3, SMT
  <2> QED
    BY <1>1, <1>3, <2>1, <2>2
<1>5. b * A \in Int /\ k * c * B \in Int
  BY <1>1, <1>2, <1>3, SMT
<1>6. b * A = k * c * B
  <2> DEFINE y == b * A
             z == k * c * B
  <2>1. y \in Int /\ z \in Int /\ d * y = d * z
    BY <1>4, <1>5
  <2> HIDE DEF y, z
  <2>2. y = z
    BY <2>1, Scaling
  <2> QED
    BY <2>2 DEF y, z
<1> QED
  BY <1>2, <1>6 DEF Rep, A, B, b

\* The same of the range.
LEMMA RoundableSame ==
  ASSUME NEW n \in Int, NEW d \in Nat \ {0}, NEW m \in Int, NEW c \in Nat \ {0},
         n * c = m * d, Roundable(n, d)
  PROVE  Roundable(m, c)
<1>1. SUFFICES ASSUME m # 0 PROVE InRange(Abs(m), c)
  BY DEF Roundable
<1> DEFINE a == Abs(n)
           b == Abs(m)
           M == Power(2, ExponentRange)
           T == TwoTo[Significand]
           h == TwoTo[Significand - 1]
<1>2. a \in Nat /\ b \in Nat /\ a * c = b * d /\ n # 0
  BY <1>1, SameNumber
<1>3. M \in Nat \ {0} /\ T \in Nat \ {0} /\ h \in Nat \ {0}
  BY TwoToIs, PowersOfTwo, NumbersAssumption
<1>4. a < T * M * d /\ h * d <= a * M
  BY <1>2 DEF Roundable, InRange
<1> HIDE DEF a, b, M, T, h
<1>5. T * M * d \in Int /\ T * M * c \in Int /\ h * d \in Int /\ a * M \in Int
      /\ h * c \in Int /\ b * M \in Int
  BY <1>2, <1>3, SMT
<1>6. c * a < c * (T * M * d) /\ c * (h * d) <= c * (a * M)
  BY <1>2, <1>4, <1>5, Scaling
<1>7. c * a = d * b /\ c * (T * M * d) = d * (T * M * c) /\ c * (h * d) = d * (h * c)
      /\ c * (a * M) = d * (b * M)
  <2>1. c * a = a * c /\ d * b = b * d /\ c * (a * M) = (a * c) * M /\ d * (b * M) = (b * d) * M
    BY <1>2, <1>3, SMT
  <2>2. c * (T * M * d) = d * (T * M * c) /\ c * (h * d) = d * (h * c)
    BY <1>3, SMT
  <2> QED
    BY <1>2, <2>1, <2>2
<1>8. b < T * M * c
  <2>1. d * b < d * (T * M * c)
    BY <1>6, <1>7
  <2> QED
    BY <1>2, <1>5, <2>1, Scaling
<1>9. h * c <= b * M
  <2>1. d * (h * c) <= d * (b * M)
    BY <1>6, <1>7
  <2> QED
    BY <1>5, <2>1, Scaling
<1> QED
  BY <1>8, <1>9 DEF InRange, b, M, T, h

\* Rounding does not depend on how a quotient is written.
LEMMA RoundSame ==
  ASSUME NEW n \in Int, NEW d \in Nat \ {0}, NEW m \in Int, NEW c \in Nat \ {0},
         n * c = m * d, Roundable(n, d)
  PROVE  Round(n, d) = Round(m, c)
<1>1. c * n = d * m /\ c * d = d * c /\ (n = 0 <=> m = 0)
  <2>1. c * n = d * m /\ c * d = d * c
    BY SMT
  <2>2. (n = 0 <=> m = 0) /\ Abs(n) * c = Abs(m) * d
    BY SameNumber
  <2> QED
    BY <2>1, <2>2
<1>2. Roundable(m, c)
  BY RoundableSame
<1>3. CASE n = 0
  <2>1. Round(n, d) = value("Float", 0, 1) /\ Round(m, c) = value("Float", 0, 1)
    BY <1>1, <1>3 DEF Round
  <2> QED
    BY <2>1
<1>4. CASE n # 0
  <2>1. InRange(Abs(n), d) /\ InRange(Abs(m), c) /\ m # 0
    BY <1>1, <1>2, <1>4 DEF Roundable
  <2>2. Round(c * n, c * d) = Round(n, d)
    BY <1>4, <2>1, RoundScales
  <2>3. Round(d * m, d * c) = Round(m, c)
    BY <2>1, RoundScales
  <2> QED
    BY <1>1, <2>2, <2>3
<1> QED
  BY <1>3, <1>4

(***************************************************************************)
(* What an int becomes as a double.                                        *)
(***************************************************************************)
LEMMA RoundInt ==
  ASSUME NEW n \in Int, Roundable(n, 1)
  PROVE  LET x == Round(n, 1) IN
         /\ x = value("Float", x.n, 1) /\ x.n \in Int /\ x.d = 1 /\ IsDouble(x)
         /\ (x.n < 0 <=> n < 0) /\ (x.n = 0 <=> n = 0)
         /\ Abs(x.n) <= 2 * Abs(n)
         /\ Abs(n) >= 2 => Abs(x.n) >= 2
         /\ Abs(n) <= 1 => x.n = n
         /\ Exact(n, 1) => x.n = n
<1> DEFINE x == Round(n, 1)
           a == Abs(n)
<1>1. /\ IsDouble(x) /\ (x.n < 0 <=> n < 0) /\ (x.n = 0 <=> n = 0)
      /\ Rep(n, 1) => x.n * 1 = n * x.d
  BY RoundFacts
<1>2. x = value("Float", x.n, x.d) /\ x.n \in Int /\ x.d \in Nat \ {0}
  BY <1>1 DEF IsDouble
<1>3. a \in Nat /\ (a = 0 <=> n = 0)
  BY DEF Abs
<1>4. Abs(n) <= 1 => Rep(n, 1)
  <2>1. SUFFICES ASSUME a <= 1 PROVE Rep(n, 1)
    OBVIOUS
  <2>2. a < TwoTo[Significand]
    BY <1>3, <2>1, TwoToIs
  <2>3. a * Power(2, 0) = a * 1 * Power(2, 0)
    BY <1>3, PowersOfTwo
  <2> HIDE DEF a
  <2>4. 0 \in Nat
    OBVIOUS
  <2> QED
    BY <1>3, <2>2, <2>3, <2>4 DEF Rep, a
<1>5. /\ x.d = 1
      /\ Abs(x.n) <= 2 * a
      /\ a >= 2 => Abs(x.n) >= 2
  <2>1. CASE n = 0
    <3>1. x = value("Float", 0, 1)
      BY <2>1 DEF Round
    <3> QED
      BY <2>1, <3>1 DEF value, Abs
  <2>2. CASE n # 0
    <3>1. InRange(Abs(n), 1)
      BY <2>2 DEF Roundable
    <3>2. PICK e \in Range2, digits \in Nat, p \in Nat \ {0} : Rounding(n, 1, x, e, digits, p)
      BY <2>2, <3>1, RoundIs
    <3> DEFINE u == Up(e)
               w == Down(e)
               h == TwoTo[Significand - 1]
               s == IF n < 0 THEN -digits ELSE digits
    <3>3. u \in Nat \ {0} /\ w \in Nat \ {0} /\ h \in Nat \ {0} /\ e \in Int
      BY <3>2, ScaleIs, TwoToIs, NumbersAssumption DEF Range2
    <3>4. digits # 0 /\ p * Abs(x.n) = digits * w /\ a * u \in Nat /\ 1 * w \in Nat \ {0}
      BY <2>2, <3>2, RoundingIsDouble
    <3>5. digits = Nearest(a * u, 1 * w) /\ p * x.d = u /\ x = Reduced(s * w, u)
          /\ a * u >= h * 1 * w
      BY <3>2 DEF Rounding, Fits
    <3> HIDE DEF x, u, w, h
    <3>6. CASE e > 0
      <4>1. w = 1
        BY <3>3, <3>6 DEF w, Down
      <4>2. a * u = (a * u) * (1 * w)
        BY <3>4, <4>1
      <4>3. digits = a * u
        BY <3>4, <3>5, <4>2, NearestIs
      <4>4. s * w = n * u /\ n * u \in Int
        <5>1. (-a) * u = -(a * u) /\ n * u \in Int /\ s \in Int
          BY <1>3, <3>3, SMT
        <5>2. s * w = s
          BY <4>1, <5>1
        <5> QED
          BY <1>3, <4>3, <5>1, <5>2 DEF Abs
      <4> DEFINE j == Shift(e)
                 z == n * u
      <4>5. j \in Nat /\ j <= ExponentRange /\ u = Power(2, j) /\ z \in Int
        <5>1. Shift(e) <= ExponentRange
          BY <3>2, NumbersAssumption DEF Range2, Shift
        <5> QED
          BY <3>2, <4>4, <5>1, ScaleIs DEF Range2, u
      <4>6. x = Reduced(z, Power(2, j)) /\ z = n * Power(2, j)
        BY <3>5, <4>4, <4>5
      <4> HIDE DEF j, z
      <4>7. x = value("Float", n, 1)
        BY <4>5, <4>6, ReducedWhole
      <4>8. x.n = n /\ x.d = 1
        BY <4>7 DEF value
      <4> QED
        BY <1>3, <4>8
    <3>7. CASE ~(e > 0)
      <4>1. u = 1
        BY <3>3, <3>7 DEF u, Up
      <4>2. p = 1 /\ x.d = 1
        <5> DEFINE q == x.d
        <5>1. q \in Nat \ {0} /\ p * q = 1 /\ p \in Nat \ {0}
          BY <1>2, <3>5, <4>1
        <5> HIDE DEF q
        <5>2. p * 1 <= p * q /\ q * 1 <= q * p /\ q * p = p * q
          BY <5>1, Scaling, SMT
        <5>3. p = 1 /\ q = 1
          BY <5>1, <5>2
        <5> QED
          BY <5>3 DEF q
      <4>3. Abs(x.n) = digits * w /\ Abs(x.n) \in Nat
        <5>1. Abs(x.n) \in Nat
          BY <1>2, AbsOf
        <5> QED
          BY <3>4, <4>2, <5>1
      <4>4. a * u = a /\ 1 * w = w /\ h * 1 * w = h * w /\ h * w \in Nat
        BY <1>3, <3>3, <4>1, SMT
      <4>5. digits = Nearest(a, w) /\ h * w <= a
        BY <1>3, <3>5, <4>4
      <4>6. w <= a
        <5>1. 1 * w <= h * w
          BY <3>3, ProductGrows
        <5> QED
          BY <1>3, <3>3, <4>4, <4>5, <5>1
      <4>7. digits * w <= 2 * a
        <5> DEFINE q == a \div w
                   r == a % w
        <5>1. q \in Int /\ r \in 0..(w - 1) /\ a = w * q + r
          <6>1. a \in Int
            BY <1>3
          <6> HIDE DEF a
          <6> QED
            BY <3>3, <6>1, Euclid
        <5>2. digits = q \/ digits = q + 1
          BY <1>3, <3>3, <4>5, NearestIs
        <5> HIDE DEF q, r
        <5>3. (q + 1) * w = w * q + w /\ q * w = w * q /\ w * q \in Int
          BY <3>3, <5>1, SMT
        <5>4. digits * w = w * q \/ digits * w = w * q + w
          BY <5>2, <5>3
        <5> QED
          BY <1>3, <3>3, <4>6, <5>1, <5>3, <5>4
      <4>8. a >= 2 => digits * w >= 2
        <5>1. CASE e = 0
          <6>1. w = 1
            BY <5>1 DEF w, Down
          <6>2. a = a * w
            BY <1>3, <6>1
          <6>3. digits = a
            BY <1>3, <3>3, <4>5, <6>2, NearestIs
          <6> QED
            BY <1>3, <6>1, <6>3
        <5>2. CASE e < 0
          <6>1. w >= 2
            <7>1. Shift(-e) >= 1 /\ Shift(-e) \in Nat /\ w = Power(2, Shift(-e))
              BY <3>2, <3>3, <5>2, ScaleIs DEF Range2, w, Shift
            <7>2. Power(2, 0) = 1 /\ 2 * Power(2, 0) <= Power(2, Shift(-e))
              BY <7>1, PowersOfTwo, PowersOfTwoGrow
            <7> QED
              BY <3>3, <7>1, <7>2
          <6>2. 1 * 2 <= digits * w /\ digits * w \in Nat
            BY <3>3, <3>4, <6>1, ProductGrows
          <6> QED
            BY <6>2
        <5> QED
          BY <3>3, <3>7, <5>1, <5>2
      <4> QED
        BY <1>3, <4>2, <4>3, <4>7, <4>8
    <3> QED
      BY <3>6, <3>7
  <2> QED
    BY <2>1, <2>2
<1>6. Abs(n) <= 1 => x.n = n
  <2>1. x.n * 1 = x.n /\ n * 1 = n
    BY <1>2
  <2> QED
    BY <1>1, <1>4, <1>5, <2>1
<1>7. Exact(n, 1) => x.n = n
  <2>1. x.n * 1 = x.n /\ n * 1 = n
    BY <1>2
  <2> QED
    BY <1>5, <2>1 DEF Exact
<1>8. x = value("Float", x.n, 1)
  BY <1>2, <1>5
<1> HIDE DEF x
<1> QED
  BY <1>1, <1>2, <1>5, <1>6, <1>7, <1>8 DEF x

(***************************************************************************)
(* An odd number of digits: what is left of the digits of a double once    *)
(* the factors of 2 are in the exponent.                                   *)
(***************************************************************************)
LEMMA OddPart ==
  ASSUME NEW m \in Nat \ {0}
  PROVE  \E o, t \in Nat : o % 2 = 1 /\ m = o * Power(2, t)
<1> DEFINE Parts == {o \in Nat : \E t \in Nat : m = o * Power(2, t)}
<1>1. m \in Parts
  <2>1. m = m * Power(2, 0) /\ 0 \in Nat
    BY PowersOfTwo
  <2> QED
    BY <2>1
<1>2. PICK o \in Parts : \A y \in Parts : o <= y
  <2>1. Parts \in SUBSET Nat /\ Parts # {}
    BY <1>1
  <2> HIDE DEF Parts
  <2> QED
    BY <2>1, LeastNatural
<1>3. PICK t \in Nat : m = o * Power(2, t) /\ o \in Nat
  BY <1>2
<1>4. o % 2 # 0
  <2>1. SUFFICES ASSUME o % 2 = 0 PROVE FALSE
    OBVIOUS
  <2> DEFINE c == o \div 2
             P == Power(2, t)
  <2>2. c \in Nat /\ o = 2 * c
    BY <1>3, <2>1, SMT
  <2>3. P \in Nat /\ Power(2, t + 1) = 2 * P /\ t + 1 \in Nat
    <3>1. \A k \in Nat : Power(2, k) \in Nat \ {0} /\ Power(2, k + 1) = 2 * Power(2, k)
      BY PowersOfTwo
    <3> QED
      BY <3>1
  <2> HIDE DEF c, P
  <2>4. (2 * c) * P = c * (2 * P)
    BY <2>2, <2>3, SMT
  <2>5. m = c * Power(2, t + 1)
    BY <1>3, <2>2, <2>3, <2>4 DEF P
  <2>6. c \in Parts
    BY <2>2, <2>3, <2>5
  <2>7. o <= c
    BY <1>2, <2>6
  <2>8. c = 0 /\ o = 0
    BY <2>2, <2>7
  <2>9. 0 * P = 0
    BY <2>3
  <2> QED
    BY <1>3, <2>8, <2>9 DEF P
<1>5. o % 2 = 1
  BY <1>3, <1>4, SMT
<1> QED
  BY <1>3, <1>5

\* An odd factor and a power of two are found in one way.
LEMMA OddIsUnique ==
  ASSUME NEW o \in Nat, NEW c \in Nat, o % 2 = 1, c % 2 = 1, NEW i \in Nat, NEW j \in Nat,
         o * Power(2, i) = c * Power(2, j)
  PROVE  o = c /\ i = j
<1>1. \A a, b, x, y \in Nat : a % 2 = 1 /\ b % 2 = 1 /\ a * Power(2, x) = b * Power(2, y) => ~(x < y)
  <2>1. SUFFICES ASSUME NEW a \in Nat, NEW b \in Nat, NEW x \in Nat, NEW y \in Nat,
                        a % 2 = 1, b % 2 = 1, a * Power(2, x) = b * Power(2, y), x < y
                 PROVE  FALSE
    OBVIOUS
  <2> DEFINE g == y - x - 1
             P == Power(2, x)
             Q == Power(2, g)
  <2>2. g \in Nat /\ y = x + (g + 1)
    BY <2>1
  <2>3. P \in Nat \ {0} /\ Q \in Nat \ {0} /\ Power(2, y) = P * (2 * Q)
    <3>1. Power(2, g + 1) = 2 * Q /\ g + 1 \in Nat
      BY <2>2, PowersOfTwo
    <3>2. Power(2, x + (g + 1)) = P * Power(2, g + 1)
      BY <3>1, PowersOfTwo
    <3> QED
      BY <2>2, <3>1, <3>2, PowersOfTwo
  <2>4. a * P = b * (P * (2 * Q))
    BY <2>1, <2>3
  <2> HIDE DEF g, P, Q
  <2>5. P * a = P * (2 * (b * Q)) /\ b * Q \in Nat
    <3>1. P * a = a * P /\ P * (2 * (b * Q)) = b * (P * (2 * Q)) /\ b * Q \in Nat
      BY <2>3, SMT
    <3> QED
      BY <2>4, <3>1
  <2> DEFINE z == b * Q
  <2>6. z \in Nat /\ P * a = P * (2 * z)
    BY <2>5
  <2> HIDE DEF z
  <2>7. a = 2 * z
    BY <2>3, <2>6, Scaling
  <2> QED
    BY <2>1, <2>6, <2>7, SMT
<1>2. i = j
  BY <1>1
<1>3. o = c
  <2> DEFINE P == Power(2, i)
  <2>1. P \in Nat \ {0} /\ o * P = c * P
    BY <1>2, PowersOfTwo
  <2> HIDE DEF P
  <2>2. P * o = P * c
    <3>1. P * o = o * P /\ P * c = c * P
      BY <2>1, SMT
    <3> QED
      BY <2>1, <3>1
  <2> QED
    BY <2>1, <2>2, Scaling
<1> QED
  BY <1>2, <1>3

(***************************************************************************)
(* Quotients of one number, and of the magnitudes of a fraction.           *)
(***************************************************************************)
LEMMA SameQuotient ==
  ASSUME NEW n \in Int, NEW d \in Nat \ {0}, NEW m \in Int, NEW c \in Nat \ {0}, n * c = m * d
  PROVE  n \div d = m \div c
<1> DEFINE q == n \div d
           r == n % d
           s == m - c * q
<1>1. q \in Int /\ r \in 0..(d - 1) /\ n = d * q + r
  BY Euclid
<1> HIDE DEF q, r
<1>2. s \in Int /\ m = c * q + s
  <2>1. c * q \in Int
    BY <1>1, SMT
  <2> QED
    BY <2>1
<1>3. d * s = c * r
  <2>1. d * (m - c * q) = m * d - d * (c * q)
    BY <1>1, SMT
  <2>2. (d * q + r) * c = d * (c * q) + c * r
    BY <1>1, SMT
  <2>3. d * (c * q) \in Int /\ c * r \in Int /\ m * d \in Int
    BY <1>1, SMT
  <2> QED
    BY <1>1, <2>1, <2>2, <2>3
<1> HIDE DEF s
<1>4. s \in 0..(c - 1)
  <2>1. c * 0 <= c * r /\ c * r < c * d
    <3>1. r \in Int /\ 0 <= r /\ r < d
      BY <1>1
    <3> QED
      BY <3>1, Scaling
  <2>2. c * 0 = d * 0 /\ c * d = d * c
    BY SMT
  <2>3. d * 0 <= d * s /\ d * s < d * c
    BY <1>3, <2>1, <2>2
  <2>4. 0 <= s /\ s < c
    BY <1>2, <2>3, Scaling
  <2> QED
    BY <1>2, <2>4
<1>5. m \div c = q
  BY <1>1, <1>2, <1>4, QuotientIsUnique
<1> QED
  BY <1>5 DEF q

\* Digits and exponent, written down.
LEMMA RepBy ==
  ASSUME NEW n, NEW d, NEW m \in Nat, NEW i \in Nat, NEW j \in Nat, m < TwoTo[Significand],
         Abs(n) * Power(2, i) = m * d * Power(2, j)
  PROVE  Rep(n, d)
BY DEF Rep

\* The digits of a double can be taken odd.
LEMMA OddRep ==
  ASSUME NEW n \in Int, n # 0, NEW d \in Nat \ {0}, Rep(n, d)
  PROVE  \E o, i, j \in Nat :
           o % 2 = 1 /\ o < TwoTo[Significand] /\ Abs(n) * Power(2, i) = o * d * Power(2, j)
<1> DEFINE a == Abs(n)
<1>1. a \in Nat \ {0}
  BY DEF Abs
<1>2. PICK m, i, j \in Nat : m < TwoTo[Significand] /\ a * Power(2, i) = m * d * Power(2, j)
  BY DEF Rep
<1> HIDE DEF a
<1> DEFINE A == Power(2, i)
           B == Power(2, j)
<1>3. A \in Nat \ {0} /\ B \in Nat \ {0} /\ a * A = m * d * B
  BY <1>2, PowersOfTwo
<1> HIDE DEF A, B
<1>4. m # 0
  <2>1. a * A # 0
    BY <1>1, <1>3, SMT
  <2>2. 0 * d * B = 0
    BY <1>3, SMT
  <2> QED
    BY <1>3, <2>1, <2>2
<1>5. PICK o, t \in Nat : o % 2 = 1 /\ m = o * Power(2, t)
  BY <1>4, OddPart
<1> DEFINE P == Power(2, t)
<1>6. P \in Nat \ {0} /\ m = o * P /\ Power(2, j + t) = B * P /\ j + t \in Nat
  BY <1>5, PowersOfTwo DEF B
<1> HIDE DEF P
<1>7. o <= m
  <2>1. o * 1 <= o * P
    BY <1>6, ProductGrows
  <2> QED
    BY <1>6, <2>1
<1>8. o < TwoTo[Significand]
  BY <1>2, <1>7, TwoToIs
<1>9. a * A = o * d * Power(2, j + t)
  <2>1. (o * P) * d * B = o * d * (B * P)
    BY <1>3, <1>6, SMT
  <2> QED
    BY <1>3, <1>6, <2>1
<1> QED
  BY <1>5, <1>6, <1>8, <1>9 DEF a, A

(***************************************************************************)
(* The truncated quotient q of two doubles whose quotient is a double:     *)
(* q, q + 1 unless the quotient is whole, and q times the divisor are      *)
(* doubles.  The magnitudes are a/b and c/d, their quotient (a*d)/(b*c).   *)
(***************************************************************************)
LEMMA TruncatedDigits ==
  ASSUME NEW a \in Nat \ {0}, NEW b \in Nat \ {0}, NEW c \in Nat \ {0}, NEW d \in Nat \ {0},
         Rep(a, b), Rep(c, d), Rep(a * d, b * c)
  PROVE  LET q == (a * d) \div (b * c) IN
         /\ q \in Nat /\ c * q <= a * d /\ q <= a * d
         /\ Rep(c * q, d) /\ Rep(q, 1)
         /\ (a * d) % (b * c) # 0 => Rep(q + 1, 1)
<1> DEFINE T == TwoTo[Significand]
           x == a * d
           y == b * c
           q == x \div y
           r == x % y
<1>1. x \in Nat \ {0} /\ y \in Nat \ {0}
  BY SMT
<1>2. Abs(a) = a /\ Abs(c) = c /\ Abs(x) = x
  BY <1>1 DEF Abs
<1> HIDE DEF x, y
<1>3. q \in Int /\ r \in 0..(y - 1) /\ x = y * q + r
  <2>1. x \in Int
    BY <1>1
  <2> QED
    BY <1>1, <2>1, Euclid
<1> HIDE DEF q, r
<1>4. q \in Nat
  <2>1. CASE q < 0
    <3>1. y * (-q - 1) >= 0
      BY <1>1, <1>3, <2>1, SMT
    <3>2. y * (-q - 1) = -(y * q) - y /\ y * q \in Int
      BY <1>1, <1>3, SMT
    <3> QED
      BY <1>1, <1>3, <3>1, <3>2
  <2> QED
    BY <1>3, <2>1
<1>5. y * q <= x /\ y * q \in Nat
  <2>1. y * q \in Nat
    BY <1>1, <1>4, SMT
  <2> QED
    BY <1>1, <1>3, <2>1
<1>6. c * q <= x /\ q <= x /\ c * q \in Nat
  <2>1. b * (c * q) = y * q /\ c * q \in Nat
    <3>1. b * (c * q) = (b * c) * q /\ c * q \in Nat
      BY <1>4, SMT
    <3> QED
      BY <3>1 DEF y
  <2>2. 1 * (c * q) <= b * (c * q) /\ 1 * q <= c * q
    BY <1>4, <2>1, ProductGrows
  <2> QED
    BY <1>1, <1>4, <1>5, <2>1, <2>2
<1>7. PICK o1, i1, j1 \in Nat : o1 % 2 = 1 /\ o1 < T /\ a * Power(2, i1) = o1 * b * Power(2, j1)
  <2>1. a \in Int /\ a # 0
    OBVIOUS
  <2>2. \E o, i, j \in Nat : o % 2 = 1 /\ o < T /\ Abs(a) * Power(2, i) = o * b * Power(2, j)
    BY <2>1, OddRep
  <2> QED
    BY <1>2, <2>2
<1>8. PICK o2, i2, j2 \in Nat : o2 % 2 = 1 /\ o2 < T /\ c * Power(2, i2) = o2 * d * Power(2, j2)
  <2>1. c \in Int /\ c # 0
    OBVIOUS
  <2>2. \E o, i, j \in Nat : o % 2 = 1 /\ o < T /\ Abs(c) * Power(2, i) = o * d * Power(2, j)
    BY <2>1, OddRep
  <2> QED
    BY <1>2, <2>2
<1>9. PICK o3, i3, j3 \in Nat : o3 % 2 = 1 /\ o3 < T /\ x * Power(2, i3) = o3 * y * Power(2, j3)
  <2>1. x \in Int /\ x # 0 /\ Rep(x, y)
    BY <1>1 DEF x, y
  <2>2. \E o, i, j \in Nat : o % 2 = 1 /\ o < T /\ Abs(x) * Power(2, i) = o * y * Power(2, j)
    BY <1>1, <2>1, OddRep
  <2> QED
    BY <1>2, <2>2
<1>10. o1 = o2 * o3 /\ o2 * o3 \in Nat
  <2> DEFINE A1 == Power(2, i1)
             B1 == Power(2, j1)
             A2 == Power(2, i2)
             B2 == Power(2, j2)
             A3 == Power(2, i3)
             B3 == Power(2, j3)
  <2>1. /\ A1 \in Nat /\ B1 \in Nat /\ A2 \in Nat /\ B2 \in Nat /\ A3 \in Nat /\ B3 \in Nat
        /\ a * A1 = o1 * b * B1 /\ c * A2 = o2 * d * B2 /\ x * A3 = o3 * y * B3
    BY <1>7, <1>8, <1>9, PowersOfTwo
  <2>2. Power(2, j1 + (i3 + i2)) = B1 * (A3 * A2) /\ Power(2, j2 + (j3 + i1)) = B2 * (B3 * A1)
        /\ j1 + (i3 + i2) \in Nat /\ j2 + (j3 + i1) \in Nat
    <3>1. i3 + i2 \in Nat /\ j3 + i1 \in Nat
      OBVIOUS
    <3>2. \A k, l \in Nat : Power(2, k + l) = Power(2, k) * Power(2, l)
      BY PowersOfTwo
    <3>3. Power(2, i3 + i2) = A3 * A2 /\ Power(2, j3 + i1) = B3 * A1
      BY <3>2
    <3>4. Power(2, j1 + (i3 + i2)) = B1 * Power(2, i3 + i2)
          /\ Power(2, j2 + (j3 + i1)) = B2 * Power(2, j3 + i1)
      BY <3>1, <3>2
    <3> QED
      BY <3>1, <3>3, <3>4
  <2> HIDE DEF A1, A2, A3, B1, B2, B3
  <2> DEFINE E == B1 * (A3 * A2)
             F == B2 * (B3 * A1)
             g == b * d
  <2>3. g \in Nat \ {0} /\ E \in Nat /\ F \in Nat /\ o2 * o3 \in Nat
    BY <2>1, SMT
  <2>4. g * (o1 * E) = (x * A3) * (A1 * A2)
    <3>1. (a * d * A3) * (A1 * A2) = (a * A1) * (d * A3 * A2)
      BY <2>1, SMT
    <3>2. (o1 * b * B1) * (d * A3 * A2) = (b * d) * (o1 * (B1 * (A3 * A2)))
      BY <2>1, SMT
    <3> QED
      BY <2>1, <3>1, <3>2 DEF x
  <2>5. (o3 * y * B3) * (A1 * A2) = g * ((o2 * o3) * F)
    <3>1. (o3 * (b * c) * B3) * (A1 * A2) = (c * A2) * (o3 * b * B3 * A1)
      BY <2>1, SMT
    <3>2. (o2 * d * B2) * (o3 * b * B3 * A1) = (b * d) * ((o2 * o3) * (B2 * (B3 * A1)))
      BY <2>1, SMT
    <3> QED
      BY <2>1, <3>1, <3>2 DEF y
  <2>6. g * (o1 * E) = g * ((o2 * o3) * F)
    BY <2>1, <2>4, <2>5
  <2> DEFINE o == o2 * o3
  <2>7. o \in Nat /\ o % 2 = 1
    <3> DEFINE k2 == o2 \div 2
               k3 == o3 \div 2
    <3>1. k2 \in Nat /\ k3 \in Nat /\ o2 = 2 * k2 + 1 /\ o3 = 2 * k3 + 1
      BY <1>8, <1>9, SMT
    <3> HIDE DEF k2, k3
    <3> DEFINE k == 2 * (k2 * k3) + k2 + k3
    <3>2. (2 * k2 + 1) * (2 * k3 + 1) = 2 * k + 1 /\ k \in Nat
      BY <3>1, SMT
    <3> HIDE DEF k
    <3>3. (2 * k + 1) % 2 = 1 /\ 2 * k + 1 \in Nat
      BY <3>2, SMT
    <3> QED
      BY <3>1, <3>2, <3>3
  <2> HIDE DEF E, F, g, o
  <2>8. o1 * E = o * F
    <3> DEFINE l == o1 * E
               m == o * F
    <3>1. l \in Int /\ m \in Int
      BY <2>3, <2>7, SMT
    <3>2. g * l = g * m
      BY <2>6 DEF o
    <3> HIDE DEF l, m
    <3>3. l = m
      BY <2>3, <3>1, <3>2, Scaling
    <3> QED
      BY <3>3 DEF l, m
  <2>9. o1 * Power(2, j1 + (i3 + i2)) = o * Power(2, j2 + (j3 + i1))
    BY <2>2, <2>8 DEF E, F
  <2>10. o1 = o
    <3> DEFINE k == j1 + (i3 + i2)
               l == j2 + (j3 + i1)
    <3>1. k \in Nat /\ l \in Nat /\ o1 * Power(2, k) = o * Power(2, l)
      BY <2>2, <2>9
    <3> HIDE DEF k, l
    <3> QED
      BY <1>7, <2>7, <3>1, OddIsUnique
  <2> QED
    BY <2>3, <2>10 DEF o
<1>11. T \in Nat \ {0}
  BY TwoToIs
<1> HIDE DEF T
<1> DEFINE A2 == Power(2, i2)
           B2 == Power(2, j2)
           A3 == Power(2, i3)
           B3 == Power(2, j3)
<1>12. /\ A2 \in Nat \ {0} /\ B2 \in Nat \ {0} /\ A3 \in Nat \ {0} /\ B3 \in Nat \ {0}
       /\ c * A2 = o2 * d * B2 /\ x * A3 = o3 * y * B3
  BY <1>8, <1>9, PowersOfTwo
<1>13. \A m \in Nat : Abs(m) = m
  BY DEF Abs
<1>14. ASSUME NEW m \in Nat, m < T PROVE Rep(m, 1)
  <2>1. Abs(m) * Power(2, 0) = m * 1 * Power(2, 0)
    BY <1>13, PowersOfTwo
  <2>2. 0 \in Nat
    OBVIOUS
  <2> QED
    BY <1>14, <2>1, <2>2 DEF Rep, T
<1>15. CASE i3 <= j3
  <2> DEFINE t == j3 - i3
             P == Power(2, t)
  <2>1. t \in Nat /\ P \in Nat /\ B3 = A3 * P
    <3>1. t \in Nat
      BY <1>15
    <3>2. B3 = A3 * P
      BY <1>15, PowersOfTwoGrow
    <3> HIDE DEF t
    <3> QED
      BY <3>1, <3>2, PowersOfTwo
  <2>2. Power(2, j2 + t) = B2 * P /\ j2 + t \in Nat
    <3>1. \A k, l \in Nat : Power(2, k + l) = Power(2, k) * Power(2, l)
      BY PowersOfTwo
    <3> HIDE DEF t
    <3> QED
      BY <2>1, <3>1
  <2> HIDE DEF A2, B2, A3, B3, P, t
  <2>3. x = y * (o3 * P) + 0 /\ o3 * P \in Nat
    <3>1. x * A3 = A3 * x /\ o3 * y * (A3 * P) = A3 * (y * (o3 * P))
          /\ y * (o3 * P) \in Int /\ o3 * P \in Nat
      BY <1>1, <1>12, <2>1, SMT
    <3> DEFINE z == y * (o3 * P)
    <3>2. A3 * x = A3 * z /\ z \in Int
      BY <1>12, <2>1, <3>1
    <3> HIDE DEF z
    <3>3. x = z
      BY <1>1, <1>12, <3>2, Scaling
    <3> QED
      BY <1>1, <3>1, <3>3 DEF z
  <2>4. q = o3 * P /\ r = 0
    <3>1. 0 \in 0..(y - 1) /\ x \in Int /\ o3 * P \in Int
      BY <1>1, <2>3
    <3> DEFINE z == o3 * P
    <3>2. z \in Int /\ x = y * z + 0
      BY <2>3, <3>1
    <3> HIDE DEF z
    <3>3. x \div y = z /\ x % y = 0
      BY <1>1, <3>1, <3>2, QuotientIsUnique
    <3> QED
      BY <3>3 DEF q, r, z
  <2>5. Rep(q, 1)
    <3>1. Abs(q) * Power(2, 0) = o3 * 1 * P
      BY <1>4, <1>13, <2>1, <2>4, PowersOfTwo
    <3>2. 0 \in Nat
      OBVIOUS
    <3> QED
      BY <1>9, <2>1, <3>1, <3>2 DEF Rep, T, P
  <2>6. Rep(c * q, d)
    <3>1. (c * (o3 * P)) * A2 = (c * A2) * (o3 * P) /\ (o2 * d * B2) * (o3 * P) = o1 * d * (B2 * P)
      <4>1. (c * (o3 * P)) * A2 = (c * A2) * (o3 * P)
        BY <1>12, <2>1, SMT
      <4>2. (o2 * d * B2) * (o3 * P) = (o2 * o3) * d * (B2 * P)
        BY <1>12, <2>1, SMT
      <4> QED
        BY <1>10, <4>1, <4>2
    <3>2. Abs(c * q) * Power(2, i2) = o1 * d * Power(2, j2 + t)
      BY <1>6, <1>12, <1>13, <2>2, <2>4, <3>1 DEF A2
    <3> DEFINE k == j2 + t
               z == c * q
    <3>3. k \in Nat /\ Abs(z) * Power(2, i2) = o1 * d * Power(2, k)
      BY <2>2, <3>2
    <3> HIDE DEF k, z
    <3>4. Rep(z, d)
      <4>1. o1 < TwoTo[Significand]
        BY <1>7 DEF T
      <4> QED
        BY <3>3, <4>1, RepBy
    <3> QED
      BY <3>4 DEF z
  <2> QED
    BY <1>4, <1>6, <2>4, <2>5, <2>6 DEF q, r, x, y
<1>16. CASE ~(i3 <= j3)
  <2> DEFINE t == i3 - j3
             P == Power(2, t)
  <2>1. t \in Nat /\ P \in Nat /\ A3 = B3 * P /\ P >= 2
    <3>1. t \in Nat /\ 1 <= t /\ j3 <= i3
      BY <1>16
    <3>3. A3 = B3 * P
      BY <3>1, PowersOfTwoGrow
    <3>4. \A k \in Nat : Power(2, k) \in Nat /\ Power(2, 0) = 1
      BY PowersOfTwo
    <3> HIDE DEF t
    <3>2. Power(2, 0) = 1 /\ 2 * Power(2, 0) <= P /\ P \in Nat
      <4>1. 0 \in Nat /\ 0 <= t /\ 0 # t
        BY <3>1
      <4>2. 2 * Power(2, 0) <= P
        BY <3>1, <4>1, PowersOfTwoGrow
      <4> QED
        BY <3>1, <3>4, <4>2
    <3> QED
      BY <3>1, <3>2, <3>3
  <2> HIDE DEF A2, B2, A3, B3, P, t
  <2>2. x * P = o3 * y
    <3>1. x * (B3 * P) = B3 * (x * P) /\ o3 * y * B3 = B3 * (o3 * y)
          /\ x * P \in Int /\ o3 * y \in Int
      BY <1>1, <1>12, <2>1, SMT
    <3> DEFINE z == x * P
               w == o3 * y
    <3>2. B3 * z = B3 * w /\ z \in Int /\ w \in Int
      BY <1>12, <2>1, <3>1
    <3> HIDE DEF z, w
    <3>3. z = w
      BY <1>12, <3>2, Scaling
    <3> QED
      BY <3>3 DEF z, w
  <2>3. 2 * q <= o3
    <3>1. (y * q) * 2 <= x * P
      BY <1>1, <1>5, <2>1, ProductGrows
    <3>2. (y * q) * 2 = y * (2 * q) /\ o3 * y = y * o3
      BY <1>1, <1>4, SMT
    <3>3. y * (2 * q) <= y * o3
      BY <2>2, <3>1, <3>2
    <3> QED
      BY <1>1, <1>4, <3>3, Scaling
  <2>4. q + 1 <= o3 /\ q <= o3
    BY <1>4, <1>9, <2>3, SMT
  <2>5. Rep(q, 1) /\ Rep(q + 1, 1)
    BY <1>4, <1>9, <1>11, <1>14, <2>4 DEF T
  <2>6. Rep(c * q, d)
    <3>1. o2 * q <= o2 * o3 /\ o2 * q \in Nat
      BY <1>4, <2>4, ProductGrows
    <3>2. o2 * q < T
      BY <1>7, <1>10, <1>11, <3>1 DEF T
    <3>3. (c * q) * A2 = (c * A2) * q /\ (o2 * d * B2) * q = (o2 * q) * d * B2
      BY <1>4, <1>12, SMT
    <3>4. Abs(c * q) * Power(2, i2) = (o2 * q) * d * Power(2, j2)
      BY <1>6, <1>12, <1>13, <3>3 DEF A2, B2
    <3> DEFINE m == o2 * q
    <3>5. m \in Nat /\ m < T /\ Abs(c * q) * Power(2, i2) = m * d * Power(2, j2)
      BY <3>1, <3>2, <3>4
    <3> HIDE DEF m
    <3> QED
      BY <3>5 DEF Rep, T
  <2> QED
    BY <1>4, <1>6, <2>5, <2>6 DEF q, r, x, y
<1> QED
  BY <1>15, <1>16

(***************************************************************************)
(* The remainder of two doubles is a double.  The magnitudes are a/b and   *)
(* c/d, the remainder ((a*d) % (b*c)) / (b*d).                             *)
(***************************************************************************)
LEMMA RemainderDigits ==
  ASSUME NEW a \in Nat, NEW b \in Nat \ {0}, NEW c \in Nat \ {0}, NEW d \in Nat \ {0},
         Rep(a, b), Rep(c, d)
  PROVE  Rep((a * d) % (b * c), b * d)
<1> DEFINE T == TwoTo[Significand]
           x == a * d
           y == b * c
           g == b * d
           q == x \div y
           r == x % y
<1>1. x \in Nat /\ y \in Nat \ {0} /\ g \in Nat \ {0} /\ x \in Int
  BY SMT
<1>2. \A m \in Nat : Abs(m) = m
  BY DEF Abs
<1> HIDE DEF x, y, g
<1>3. q \in Int /\ r \in 0..(y - 1) /\ x = y * q + r
  BY <1>1, Euclid
<1> HIDE DEF q, r
<1>4. PICK m1, i1, j1 \in Nat : m1 < T /\ a * Power(2, i1) = m1 * b * Power(2, j1)
  <2>1. \E m, i, j \in Nat : m < T /\ Abs(a) * Power(2, i) = m * b * Power(2, j)
    BY DEF Rep
  <2> QED
    BY <1>2, <2>1
<1>5. PICK m2, i2, j2 \in Nat : m2 < T /\ c * Power(2, i2) = m2 * d * Power(2, j2)
  <2>1. \E m, i, j \in Nat : m < T /\ Abs(c) * Power(2, i) = m * d * Power(2, j)
    BY DEF Rep
  <2> QED
    BY <1>2, <2>1
<1> DEFINE s1 == j1 + i2
           s2 == j2 + i1
           S1 == Power(2, s1)
           S2 == Power(2, s2)
           E == Power(2, i1 + i2)
<1>6. /\ s1 \in Nat /\ s2 \in Nat /\ i1 + i2 \in Nat
      /\ S1 \in Nat \ {0} /\ S2 \in Nat \ {0} /\ E \in Nat \ {0}
  <2> DEFINE s3 == i1 + i2
  <2>1. s1 \in Nat /\ s2 \in Nat /\ s3 \in Nat
    OBVIOUS
  <2>2. \A h \in Nat : Power(2, h) \in Nat \ {0}
    BY PowersOfTwo
  <2>3. E = Power(2, s3)
    OBVIOUS
  <2> HIDE DEF s1, s2, s3, E
  <2> QED
    BY <2>1, <2>2, <2>3 DEF s3
<1>7. x * E = g * (m1 * S1) /\ y * E = g * (m2 * S2)
  <2> DEFINE A1 == Power(2, i1)
             B1 == Power(2, j1)
             A2 == Power(2, i2)
             B2 == Power(2, j2)
  <2>1. /\ A1 \in Nat /\ B1 \in Nat /\ A2 \in Nat /\ B2 \in Nat
        /\ a * A1 = m1 * b * B1 /\ c * A2 = m2 * d * B2
    BY <1>4, <1>5, PowersOfTwo
  <2>2. E = A1 * A2 /\ S1 = B1 * A2 /\ S2 = B2 * A1
    <3>1. \A k, l \in Nat : Power(2, k + l) = Power(2, k) * Power(2, l)
      BY PowersOfTwo
    <3> QED
      BY <3>1
  <2> HIDE DEF A1, A2, B1, B2, E, S1, S2
  <2>3. (a * d) * (A1 * A2) = (a * A1) * (d * A2) /\ (m1 * b * B1) * (d * A2) = (b * d) * (m1 * (B1 * A2))
    BY <2>1, SMT
  <2>4. (b * c) * (A1 * A2) = (c * A2) * (b * A1) /\ (m2 * d * B2) * (b * A1) = (b * d) * (m2 * (B2 * A1))
    BY <2>1, SMT
  <2>5. (a * d) * (A1 * A2) = (b * d) * (m1 * (B1 * A2))
    BY <2>1, <2>3
  <2>6. (b * c) * (A1 * A2) = (b * d) * (m2 * (B2 * A1))
    BY <2>1, <2>4
  <2> QED
    BY <2>2, <2>5, <2>6 DEF x, y, g
<1> HIDE DEF s1, s2, S1, S2, E, T
<1>8. q \in Nat
  <2>1. CASE q < 0
    <3>1. y * (-q - 1) >= 0
      BY <1>1, <1>3, <2>1, SMT
    <3>2. y * (-q - 1) = -(y * q) - y /\ y * q \in Int
      BY <1>1, <1>3, SMT
    <3> QED
      BY <1>1, <1>3, <3>1, <3>2
  <2> QED
    BY <1>3, <2>1
<1>9. r \in Nat /\ r < y /\ r <= x
  <2>1. y * q >= 0 /\ y * q \in Int
    BY <1>1, <1>8, SMT
  <2> QED
    BY <1>1, <1>3, <2>1
<1> DEFINE k1 == m1 * S1
           k2 == m2 * S2
           k == k1 - k2 * q
<1>10. k1 \in Nat /\ k2 \in Nat /\ k2 * q \in Nat /\ x * E = g * k1 /\ y * E = g * k2
  <2>1. m1 * S1 \in Nat /\ m2 * S2 \in Nat
    BY <1>6, SMT
  <2> HIDE DEF k1, k2
  <2>2. k2 \in Nat /\ k1 \in Nat
    BY <2>1 DEF k1, k2
  <2>3. k2 * q \in Nat
    BY <1>8, <2>2, SMT
  <2> QED
    BY <1>7, <2>2, <2>3 DEF k1, k2
<1> HIDE DEF k1, k2
<1>11. k \in Int /\ r * E = g * k
  <2>1. (y * q + r) * E = (y * E) * q + r * E
    BY <1>1, <1>3, <1>6, SMT
  <2>2. (g * k2) * q = g * (k2 * q) /\ g * (k1 - k2 * q) = g * k1 - g * (k2 * q)
    BY <1>1, <1>8, <1>10, SMT
  <2>3. r * E \in Int /\ g * (k2 * q) \in Int /\ g * k1 \in Int
    BY <1>1, <1>6, <1>9, <1>10, SMT
  <2> QED
    BY <1>3, <1>10, <2>1, <2>2, <2>3
<1> HIDE DEF k
<1>12. k \in Nat /\ k <= k1 /\ k < k2
  <2>1. E * 0 <= E * r /\ E * r < E * y /\ E * r <= E * x
    BY <1>1, <1>6, <1>9, Scaling
  <2>2. E * 0 = 0 /\ g * 0 = 0 /\ E * r = r * E /\ E * y = y * E /\ E * x = x * E
    BY <1>1, <1>6, <1>9, SMT
  <2>3. g * 0 <= g * k /\ g * k < g * k2 /\ g * k <= g * k1
    BY <1>10, <1>11, <2>1, <2>2
  <2>4. 0 <= k
    BY <1>1, <1>11, <2>3, Scaling
  <2>5. k < k2
    BY <1>1, <1>10, <1>11, <2>3, Scaling
  <2>6. k <= k1
    BY <1>1, <1>10, <1>11, <2>3, Scaling
  <2> QED
    BY <1>11, <2>4, <2>5, <2>6
<1>13. \E m, s \in Nat : m < T /\ k = m * Power(2, s)
  <2>1. CASE s2 <= s1
    <3> DEFINE t == s1 - s2
               P == Power(2, t)
               l == m1 * P
               w == q * m2
               m == l - w
    <3>1. S1 = S2 * P /\ P \in Nat
      <4>1. t \in Nat
        BY <1>6, <2>1
      <4>2. S1 = S2 * P
        BY <1>6, <2>1, PowersOfTwoGrow DEF S1, S2
      <4> HIDE DEF t
      <4> QED
        BY <4>1, <4>2, PowersOfTwo
    <3> HIDE DEF P, t
    <3>2. l \in Nat /\ w \in Nat /\ k1 = S2 * l /\ k2 * q = S2 * w
      <4>1. m1 * P \in Nat /\ q * m2 \in Nat
        BY <1>8, <3>1, SMT
      <4>2. m1 * (S2 * P) = S2 * (m1 * P) /\ (m2 * S2) * q = S2 * (q * m2)
        BY <1>6, <1>8, <3>1, SMT
      <4> QED
        BY <3>1, <4>1, <4>2 DEF k1, k2
    <3> HIDE DEF l, w
    <3>3. m \in Int /\ k = S2 * m
      <4>1. S2 * (l - w) = S2 * l - S2 * w
        BY <1>6, <3>2, SMT
      <4> QED
        BY <1>10, <3>2, <4>1 DEF k
    <3> HIDE DEF m
    <3>4. m \in Nat /\ m < m2
      <4>1. S2 * 0 = 0 /\ m2 * S2 = S2 * m2
        BY <1>6, SMT
      <4>2. S2 * 0 <= S2 * m /\ S2 * m < S2 * m2
        BY <1>12, <3>3, <4>1 DEF k2
      <4>3. 0 <= m /\ m < m2
        BY <1>6, <3>3, <4>2, Scaling
      <4> QED
        BY <3>3, <4>3
    <3>5. m < T /\ k = m * Power(2, s2)
      <4>1. S2 * m = m * S2
        BY <1>6, <3>3, SMT
      <4>2. T \in Nat
        BY TwoToIs DEF T
      <4> QED
        BY <1>5, <3>3, <3>4, <4>1, <4>2 DEF S2
    <3> QED
      BY <1>6, <3>4, <3>5
  <2>2. CASE ~(s2 <= s1)
    <3> DEFINE t == s2 - s1
               P == Power(2, t)
               w == q * (m2 * P)
               m == m1 - w
    <3>1. S2 = S1 * P /\ P \in Nat
      <4>1. t \in Nat
        BY <1>6, <2>2
      <4>2. S2 = S1 * P
        BY <1>6, <2>2, PowersOfTwoGrow DEF S1, S2
      <4> HIDE DEF t
      <4> QED
        BY <4>1, <4>2, PowersOfTwo
    <3> HIDE DEF P, t
    <3>2. w \in Nat /\ k1 = S1 * m1 /\ k2 * q = S1 * w
      <4>1. q * (m2 * P) \in Nat
        BY <1>8, <3>1, SMT
      <4>2. m1 * S1 = S1 * m1 /\ (m2 * (S1 * P)) * q = S1 * (q * (m2 * P))
        BY <1>6, <1>8, <3>1, SMT
      <4> QED
        BY <3>1, <4>1, <4>2 DEF k1, k2
    <3> HIDE DEF w
    <3>3. m \in Int /\ k = S1 * m
      <4>1. S1 * (m1 - w) = S1 * m1 - S1 * w
        BY <1>6, <3>2, SMT
      <4> QED
        BY <1>10, <3>2, <4>1 DEF k
    <3>4. m <= m1
      BY <3>2
    <3> HIDE DEF m
    <3>5. m \in Nat
      <4>1. S1 * 0 = 0
        BY <1>6, SMT
      <4>2. S1 * 0 <= S1 * m
        BY <1>12, <3>3, <4>1
      <4>3. 0 <= m
        BY <1>6, <3>3, <4>2, Scaling
      <4> QED
        BY <3>3, <4>3
    <3>6. m < T /\ k = m * Power(2, s1)
      <4>1. S1 * m = m * S1
        BY <1>6, <3>3, SMT
      <4>2. T \in Nat
        BY TwoToIs DEF T
      <4> QED
        BY <1>4, <3>3, <3>4, <3>5, <4>1, <4>2 DEF S1
    <3> QED
      BY <1>6, <3>5, <3>6
  <2> QED
    BY <1>6, <2>1, <2>2
<1>14. PICK m, s \in Nat : m < T /\ k = m * Power(2, s)
  BY <1>13
<1>15. Abs(r) * Power(2, i1 + i2) = m * g * Power(2, s)
  <2> DEFINE P == Power(2, s)
  <2>1. P \in Nat
    BY PowersOfTwo
  <2> HIDE DEF P
  <2>2. g * (m * P) = m * g * P
    BY <1>1, <2>1, SMT
  <2> QED
    BY <1>2, <1>9, <1>11, <1>14, <2>2 DEF P, E
<1>16. Rep(r, g)
  <2> DEFINE i == i1 + i2
  <2>1. i \in Nat /\ m < TwoTo[Significand] /\ Abs(r) * Power(2, i) = m * g * Power(2, s)
    BY <1>6, <1>14, <1>15 DEF T
  <2> HIDE DEF i
  <2> QED
    BY <2>1, RepBy
<1> QED
  BY <1>16 DEF r, x, y, g

(***************************************************************************)
(* fmod is exact, and a double.                                            *)
(***************************************************************************)
LEMMA FmodIs ==
  ASSUME NEW x, NEW y, IsDouble(x), IsDouble(y), y.n # 0,
         x.d * y.d <= Power(2, ExponentRange)
  PROVE  LET m == fmod(x, y)
             r == Remainder(x.n * y.d, y.n * x.d)
         IN /\ IsDouble(m) /\ r \in Int
            /\ m.n * (x.d * y.d) = r * m.d
            /\ (m.n < 0 <=> r < 0) /\ (m.n = 0 <=> r = 0)
<1> DEFINE a == Abs(x.n)
           b == x.d
           c == Abs(y.n)
           d == y.d
           s == x.n * d
           t == y.n * b
           g == b * d
           r == Remainder(s, t)
           m == fmod(x, y)
<1>1. x.n \in Int /\ y.n \in Int /\ b \in Nat \ {0} /\ d \in Nat \ {0} /\ a \in Nat /\ c \in Nat \ {0}
      /\ Rep(x.n, b) /\ Rep(y.n, d)
  <2>1. x.n \in Int /\ y.n \in Int /\ b \in Nat \ {0} /\ d \in Nat \ {0} /\ Rep(x.n, b) /\ Rep(y.n, d)
    BY DEF IsDouble
  <2> QED
    BY <2>1 DEF Abs
<1>2. s \in Int /\ t \in Int /\ t # 0 /\ g \in Nat \ {0} /\ Abs(s) = a * d /\ Abs(t) = b * c
      /\ (s < 0 <=> x.n < 0)
  <2> DEFINE n == x.n
             k == y.n
  <2>1. n \in Int /\ k \in Int /\ k # 0 /\ a = Abs(n) /\ c = Abs(k) /\ s = n * d /\ t = k * b
    BY <1>1
  <2> HIDE DEF a, b, c, d, s, t, n, k
  <2>2. Abs(d) = d /\ Abs(b) = b /\ b \in Int /\ d \in Int
    BY <1>1 DEF Abs
  <2>3. Abs(n * d) = Abs(n) * Abs(d) /\ n * d \in Int /\ Abs(k * b) = Abs(k) * Abs(b) /\ k * b \in Int
    BY <2>1, <2>2, AbsOf
  <2>4. c * b = b * c /\ b * d \in Nat \ {0} /\ d * n = n * d /\ d * 0 = 0 /\ b * k = k * b /\ b * 0 = 0
    BY <1>1, <2>1, SMT
  <2>5. (d * n < d * 0 <=> n < 0) /\ (b * k = b * 0 <=> k = 0)
    BY <1>1, <2>1, Scaling
  <2> QED
    BY <1>1, <2>1, <2>2, <2>3, <2>4, <2>5 DEF n
<1>3. r = (IF s < 0 THEN -((a * d) % (b * c)) ELSE (a * d) % (b * c))
  <2> HIDE DEF s, t, a, b, c, d
  <2> QED
    BY <1>2, Truncation
<1>4. (a * d) % (b * c) \in Nat
  <2>1. a * d \in Int /\ b * c \in Nat \ {0}
    BY <1>1, SMT
  <2> HIDE DEF a, b, c, d
  <2>2. (a * d) % (b * c) \in 0..(b * c - 1)
    BY <2>1, Euclid
  <2> QED
    BY <2>1, <2>2
<1>5. r \in Int /\ Abs(r) = (a * d) % (b * c)
  <2> DEFINE z == (a * d) % (b * c)
  <2>1. z \in Nat /\ r = (IF s < 0 THEN -z ELSE z)
    BY <1>3, <1>4
  <2> HIDE DEF z, r, s
  <2>2. r \in Int /\ Abs(r) = z
    BY <2>1 DEF Abs
  <2> QED
    BY <2>2 DEF z
<1>6. Rep(r, g)
  <2>1. Rep(a, b) /\ Rep(c, d)
    <3>1. Abs(a) = a /\ Abs(c) = c
      BY <1>1 DEF Abs
    <3> QED
      BY <1>1, <3>1 DEF Rep
  <2>2. Rep((a * d) % (b * c), b * d)
    <3> HIDE DEF a, b, c, d
    <3> QED
      BY <1>1, <2>1, RemainderDigits
  <2>3. Abs((a * d) % (b * c)) = (a * d) % (b * c)
    BY <1>4 DEF Abs
  <2> QED
    BY <1>5, <2>2, <2>3 DEF Rep
<1>7. m = Reduced(r, g)
  BY DEF fmod
<1> HIDE DEF r, g, m
<1>8. PICK p \in Nat \ {0} :
        /\ m = value("Float", r \div p, g \div p)
        /\ r = p * (r \div p) /\ g = p * (g \div p)
        /\ r \div p \in Int /\ g \div p \in Nat \ {0}
  <2>1. g <= Power(2, ExponentRange)
    BY DEF g
  <2> QED
    BY <1>2, <1>5, <1>7, <2>1, ReducedIs
<1>9. m.n = r \div p /\ m.d = g \div p /\ m = value("Float", m.n, m.d)
      /\ m.n \in Int /\ m.d \in Nat \ {0} /\ r = p * m.n /\ g = p * m.d
  BY <1>8 DEF value
<1> DEFINE i == m.n
           j == m.d
<1>10. i \in Int /\ j \in Nat \ {0} /\ r = p * i /\ g = p * j
  BY <1>9
<1> HIDE DEF i, j
<1>11. i * g = r * j
  <2>1. i * (p * j) = (p * i) * j
    BY <1>10, SMT
  <2> QED
    BY <1>10, <2>1
<1>12. (i < 0 <=> r < 0) /\ (i = 0 <=> r = 0)
  <2>1. p * 0 = 0
    BY SMT
  <2>2. (p * i < p * 0 <=> i < 0) /\ (p * i = p * 0 <=> i = 0)
    BY <1>10, Scaling
  <2> QED
    BY <1>10, <2>1, <2>2
<1>13. Rep(i, j)
  <2>1. r * j = i * g
    BY <1>11
  <2> QED
    BY <1>2, <1>5, <1>6, <1>10, <2>1, RepSame
<1>14. IsDouble(m)
  BY <1>9, <1>13 DEF IsDouble, i, j
<1> QED
  BY <1>5, <1>11, <1>12, <1>14 DEF r, g, m, i, j

(***************************************************************************)
(* Representation does not see the sign, and zero has one.                 *)
(***************************************************************************)
LEMMA RepOfAbs ==
  ASSUME NEW n, NEW m, NEW d, Abs(n) = Abs(m), Rep(n, d)
  PROVE  Rep(m, d)
BY DEF Rep

\* 0 is a double.
LEMMA RepOfZero ==
  ASSUME NEW d \in Nat \ {0}
  PROVE  Rep(0, d)
<1>1. 0 < TwoTo[Significand]
  BY TwoToIs
<1>2. Abs(0) = 0
  BY DEF Abs
<1> DEFINE P == Power(2, 0)
<1>3. P \in Nat
  BY PowersOfTwo
<1> HIDE DEF P
<1>4. 0 * P = 0 * d * P
  BY <1>3, SMT
<1> QED
  BY <1>1, <1>2, <1>4, RepBy DEF P

(***************************************************************************)
(* A double that is a whole number rounds to itself.                       *)
(***************************************************************************)
LEMMA RoundWhole ==
  ASSUME NEW n \in Int, Roundable(n, 1), Rep(n, 1)
  PROVE  Round(n, 1) = value("Float", n, 1)
<1> DEFINE x == Round(n, 1)
<1>1. x = value("Float", x.n, 1) /\ x.n \in Int /\ x.d = 1
  BY RoundInt
<1>2. x.n * 1 = n * x.d
  BY RoundFacts
<1> HIDE DEF x
<1>3. x.n = n
  BY <1>1, <1>2
<1> QED
  BY <1>1, <1>3 DEF x

(***************************************************************************)
(* The truncated quotient of n/e by k/g, where their exact quotient is a   *)
(* double: it is one, and so are its product with the divisor and, where   *)
(* flooring differs, its predecessor.                                      *)
(***************************************************************************)
LEMMA TruncatedIs ==
  ASSUME NEW n \in Int, NEW e \in Nat \ {0}, NEW k \in Int, k # 0, NEW g \in Nat \ {0},
         Rep(n, e), Rep(k, g), Rep(n * g, e * Abs(k))
  PROVE  LET a == n * g
             b == k * e
             T == Quotient(a, b)
         IN /\ a \in Int /\ b \in Int /\ b # 0 /\ T \in Int /\ k * T \in Int
            /\ Abs(T) <= Abs(n) * g /\ Abs(k * T) <= Abs(n) * g
            /\ Rep(k * T, g) /\ Rep(T, 1)
            /\ Corrects(a, b) => Rep(T - 1, 1) /\ Abs(T - 1) = Abs(T) + 1
<1> DEFINE a == n * g
           b == k * e
           T == Quotient(a, b)
           m == Abs(n)
           c == Abs(k)
           q == (m * g) \div (e * c)
           r == (m * g) % (e * c)
<1>1. m \in Nat /\ c \in Nat \ {0} /\ (n = 0 <=> m = 0)
  BY DEF Abs
<1>2. a \in Int /\ b \in Int /\ b # 0 /\ Abs(a) = m * g /\ Abs(b) = e * c
  <2>1. Abs(g) = g /\ Abs(e) = e /\ g \in Int /\ e \in Int
    BY DEF Abs
  <2>2. Abs(n * g) = Abs(n) * Abs(g) /\ n * g \in Int /\ Abs(k * e) = Abs(k) * Abs(e) /\ k * e \in Int
    BY <2>1, AbsOf
  <2> HIDE DEF a, b, m, c
  <2>3. c * e = e * c /\ e * k = k * e /\ e * 0 = 0
    BY <1>1, SMT
  <2>4. e * k = e * 0 <=> k = 0
    BY Scaling
  <2> QED
    BY <2>1, <2>2, <2>3, <2>4 DEF a, b, m, c
<1>3. Abs(a) \div Abs(b) = q /\ Abs(a) % Abs(b) = r
  BY <1>2
<1>4. /\ q \in Nat /\ c * q <= m * g /\ q <= m * g /\ Rep(c * q, g) /\ Rep(q, 1)
      /\ r # 0 => Rep(q + 1, 1)
  <2>1. CASE n = 0
    <3> DEFINE y == e * c
    <3>1. m = 0 /\ m * g = 0 /\ y \in Nat \ {0}
      <4>1. m = 0
        BY <1>1, <2>1
      <4>2. 0 * g = 0 /\ e * c \in Nat \ {0}
        BY <1>1, SMT
      <4> QED
        BY <4>1, <4>2
    <3>2. q = 0 \div y /\ r = 0 % y
      BY <3>1
    <3> HIDE DEF m, c, q, r, y
    <3>3. q = 0 /\ r = 0
      <4>1. 0 = y * 0 + 0 /\ 0 \in 0..(y - 1)
        BY <3>1, SMT
      <4> QED
        BY <3>1, <3>2, <4>1, QuotientIsUnique
    <3>4. c * 0 = 0
      BY <1>1, SMT
    <3> QED
      BY <3>1, <3>3, <3>4, RepOfZero
  <2>2. CASE n # 0
    <3>1. m \in Nat \ {0}
      BY <1>1, <2>2
    <3>2. Abs(m) = Abs(n) /\ Abs(c) = Abs(k)
      BY <1>1 DEF Abs
    <3>3. Rep(m, e) /\ Rep(c, g)
      BY <3>2, RepOfAbs
    <3>4. Rep(m * g, e * c)
      <4>1. Abs(m * g) = m * g
        <5>1. m * g \in Nat
          BY <1>1, SMT
        <5> HIDE DEF m
        <5> QED
          BY <5>1 DEF Abs
      <4>2. Rep(n * g, e * c)
        OBVIOUS
      <4> QED
        BY <1>2, <4>1, <4>2, RepOfAbs
    <3> HIDE DEF m, c
    <3> QED
      BY <1>1, <3>1, <3>3, <3>4, TruncatedDigits DEF q, r
  <2> QED
    BY <2>1, <2>2
<1> DEFINE opposite == (a < 0) # (b < 0)
<1>5. T = (IF opposite THEN -q ELSE q) /\ (Corrects(a, b) <=> (r # 0 /\ opposite))
  <2> HIDE DEF a, b, q, r, T
  <2> QED
    BY <1>2, <1>3, Truncation DEF T
<1> HIDE DEF a, b, q, r, T, opposite, m, c
<1>6. T \in Int /\ Abs(T) = q /\ Abs(q) = q /\ (T = q \/ T = -q)
  BY <1>4, <1>5 DEF Abs
<1>7. Abs(k * T) = c * q /\ k * T \in Int
  BY <1>6, AbsOf DEF c
<1>8. Abs(c * q) = c * q
  <2>1. c * q \in Nat
    BY <1>1, <1>4, SMT
  <2> QED
    BY <2>1 DEF Abs
<1>9. Rep(k * T, g) /\ Rep(T, 1)
  BY <1>4, <1>6, <1>7, <1>8, RepOfAbs
<1>10. ASSUME Corrects(a, b)
       PROVE  Rep(T - 1, 1) /\ Abs(T - 1) = Abs(T) + 1
  <2>1. r # 0 /\ T = -q
    BY <1>5, <1>10
  <2>2. Abs(T - 1) = q + 1 /\ Abs(q + 1) = q + 1
    BY <1>4, <2>1 DEF Abs
  <2>3. Rep(q + 1, 1)
    BY <1>4, <2>1
  <2> QED
    BY <1>6, <2>2, <2>3, RepOfAbs
<1> QED
  BY <1>2, <1>4, <1>6, <1>7, <1>9, <1>10 DEF a, b, T, m

\* The sign of k, as the code multiplies by it.
Sign(k) == IF k < 0 THEN -1 ELSE 1

(***************************************************************************)
(* The exact quotient of doubles, as fractions.                            *)
(***************************************************************************)
LEMMA Fraction ==
  ASSUME NEW n \in Int, NEW e \in Nat \ {0}, NEW k \in Int, k # 0, NEW g \in Nat \ {0}
  PROVE  /\ n * g * Sign(k) \in Int /\ e * Abs(k) \in Nat \ {0}
         /\ Abs(n * g * Sign(k)) = Abs(n) * g
         /\ n * g \in Int /\ k * e \in Int /\ Abs(n * g) = Abs(n) * g
         /\ FloorDiv(n * g, k * e) = (n * g * Sign(k)) \div (e * Abs(k))
<1>1. Abs(k) \in Nat \ {0} /\ Abs(g) = g /\ g \in Int /\ Abs(n * g) = Abs(n) * Abs(g) /\ n * g \in Int
  BY AbsOf DEF Abs
<1>2. e * Abs(k) \in Nat \ {0}
  <2> DEFINE c == Abs(k)
  <2>1. c \in Nat \ {0}
    BY <1>1
  <2> HIDE DEF c
  <2>2. e * c \in Nat \ {0}
    BY <2>1, SMT
  <2> QED
    BY <2>2 DEF c
<1>3. CASE k < 0
  <2>1. Sign(k) = -1 /\ Abs(k) = -k
    BY <1>3 DEF Sign, Abs
  <2>2. n * g * (-1) = -(n * g) /\ e * (-k) = -(k * e) /\ k * e \in Int /\ k * e < 0
    <3>1. k * e = e * k /\ e * 0 = 0 /\ n * g * (-1) = -(n * g) /\ e * (-k) = -(k * e) /\ k * e \in Int
      BY SMT
    <3>2. e * k < e * 0
      BY <1>3, Scaling
    <3> QED
      BY <3>1, <3>2
  <2> DEFINE a == n * g
             b == k * e
  <2>3. a \in Int /\ b \in Int /\ b < 0
    BY <1>1, <2>2
  <2>4. n * g * Sign(k) = -a /\ e * Abs(k) = -b /\ Abs(a) = Abs(n) * g
    BY <1>1, <2>1, <2>2
  <2> HIDE DEF a, b
  <2>5. Abs(-a) = Abs(a) /\ FloorDiv(a, b) = (-a) \div (-b) /\ -a \in Int
    BY <2>3 DEF Abs, FloorDiv
  <2> QED
    BY <1>1, <1>2, <2>3, <2>4, <2>5 DEF a, b
<1>4. CASE ~(k < 0)
  <2>1. Sign(k) = 1 /\ Abs(k) = k /\ k \in Nat \ {0}
    BY <1>4 DEF Sign, Abs
  <2>2. n * g * 1 = n * g /\ e * k = k * e /\ k * e \in Nat \ {0}
    BY <2>1, SMT
  <2> DEFINE a == n * g
             b == k * e
  <2>3. n * g * Sign(k) = a /\ e * Abs(k) = b /\ Abs(a) = Abs(n) * g /\ a \in Int /\ b \in Nat \ {0}
    BY <1>1, <2>1, <2>2
  <2> HIDE DEF a, b
  <2>4. FloorDiv(a, b) = a \div b /\ b \in Int
    BY <2>3 DEF FloorDiv
  <2> QED
    BY <1>1, <1>2, <2>3, <2>4 DEF a, b
<1> QED
  BY <1>3, <1>4

(***************************************************************************)
(* Numerators up to A and denominators up to B are clear of the edges of   *)
(* the range of exponents.                                                 *)
(***************************************************************************)
Clear(A, B) ==
  /\ A \in Nat /\ B \in Nat \ {0}
  /\ A * B + 1 < TwoTo[Significand] * Power(2, ExponentRange)
  /\ A * A < TwoTo[Significand] * Power(2, ExponentRange)
  /\ 2 * (A * B) < TwoTo[Significand] * Power(2, ExponentRange)
  /\ TwoTo[Significand - 1] * (A * B) <= Power(2, ExponentRange)
  /\ TwoTo[Significand - 1] * (B * B) <= Power(2, ExponentRange)

\* A double whose numerator and denominator are bounded.
Within(x, A, B) == IsDouble(x) /\ Abs(x.n) <= A /\ x.d <= B

\* The products of such numerators and denominators are in the range.
LEMMA ClearIs ==
  ASSUME NEW A, NEW B, Clear(A, B)
  PROVE  LET M == Power(2, ExponentRange)
             most == TwoTo[Significand] * M
             h == TwoTo[Significand - 1]
         IN /\ M \in Nat \ {0} /\ most \in Nat /\ h \in Nat \ {0}
            /\ A * A \in Nat /\ A * B \in Nat /\ B * B \in Nat \ {0}
            /\ A <= A * B /\ B <= B * B /\ B * B <= M
            /\ h * B <= M /\ h * 1 <= M
<1> DEFINE M == Power(2, ExponentRange)
           h == TwoTo[Significand - 1]
           T == TwoTo[Significand]
<1>1. M \in Nat \ {0} /\ h \in Nat \ {0} /\ T \in Nat \ {0}
  <2>1. \A k \in Nat : Power(2, k) \in Nat \ {0}
    BY PowersOfTwo
  <2> QED
    BY <2>1, TwoToIs, NumbersAssumption
<1>2. A \in Nat /\ B \in Nat \ {0} /\ h * (A * B) <= M /\ h * (B * B) <= M
  BY DEF Clear
<1> HIDE DEF M, h, T
<1>3. T * M \in Nat /\ A * A \in Nat /\ A * B \in Nat /\ B * B \in Nat \ {0}
      /\ 1 * A = A /\ 1 * B = B /\ B * A = A * B /\ 1 * (B * B) = B * B /\ h * 1 = h
  BY <1>1, <1>2, SMT
<1>4. 1 * A <= B * A /\ 1 * B <= B * B
  BY <1>2, ProductGrows
<1>5. B <= B * B /\ 1 <= B
  BY <1>2, <1>3, <1>4
<1>6. 1 * (B * B) <= h * (B * B) /\ h * B <= h * (B * B) /\ h * 1 <= h * B
      /\ h * B \in Nat /\ h * (B * B) \in Nat
  <2>1. 1 \in Nat /\ B \in Nat /\ h \in Nat /\ B * B \in Nat /\ 1 <= h
    BY <1>1, <1>2, <1>3
  <2> DEFINE y == B * B
  <2>2. y \in Nat /\ B <= y /\ 1 <= B
    BY <1>5, <2>1
  <2> HIDE DEF y
  <2>3. 1 * y <= h * y /\ h * B <= h * y /\ h * 1 <= h * B /\ h * B \in Nat /\ h * y \in Nat
    BY <2>1, <2>2, ProductGrows
  <2> QED
    BY <2>3 DEF y
<1>7. h * B <= M /\ h * 1 <= M /\ B * B <= M
  BY <1>1, <1>2, <1>3, <1>6
<1> QED
  BY <1>1, <1>3, <1>4, <1>5, <1>7 DEF M, h, T

(***************************************************************************)
(* The runtime's floor division of doubles, where the quotient is exact.   *)
(***************************************************************************)
LEMMA ExactQuotient ==
  ASSUME NEW A, NEW B, Clear(A, B), NEW x, NEW y, Within(x, A, B), Within(y, A, B), y.n # 0,
         Exact(x.n * y.d * Sign(y.n), x.d * Abs(y.n))
  PROVE  LET a == x.n * y.d
             b == y.n * x.d
             T == Quotient(a, b)
             L == T - (IF Corrects(a, b) THEN 1 ELSE 0)
         IN /\ a \in Int /\ b \in Int /\ b # 0 /\ T \in Int /\ y.n * T \in Int
            /\ Abs(y.n * T) <= A * B /\ Abs(T) <= A * B
            /\ Rep(y.n * T, y.d) /\ Rep(T, 1)
            /\ Corrects(a, b) => Rep(T - 1, 1) /\ Abs(T - 1) = Abs(T) + 1
            /\ double_floordiv(x, y) = value("Float", L, 1)
<1> DEFINE n == x.n
           e == x.d
           k == y.n
           g == y.d
           u == n * g * Sign(k)
           v == e * Abs(k)
           z == Round(u, v)
           a == n * g
           b == k * e
           T == Quotient(a, b)
           L == T - (IF Corrects(a, b) THEN 1 ELSE 0)
           M == Power(2, ExponentRange)
           most == TwoTo[Significand] * M
           h == TwoTo[Significand - 1]
<1>1. /\ n \in Int /\ e \in Nat \ {0} /\ k \in Int /\ k # 0 /\ g \in Nat \ {0}
      /\ Rep(n, e) /\ Rep(k, g) /\ Abs(n) <= A /\ e <= B /\ Abs(k) <= A /\ g <= B
      /\ Exact(u, v)
  BY DEF Within, IsDouble
<1>2. /\ A \in Nat /\ B \in Nat \ {0} /\ A * B \in Nat /\ A * B < most /\ h * (A * B) <= M
      /\ most \in Nat /\ M \in Nat
  <2>1. A * B \in Nat /\ most \in Nat /\ M \in Nat
    BY ClearIs
  <2>2. A \in Nat /\ B \in Nat \ {0} /\ A * B + 1 < most /\ h * (A * B) <= M
    BY DEF Clear
  <2> DEFINE w == A * B
  <2> HIDE DEF w, most, M
  <2>3. w < most
    BY <2>1, <2>2 DEF w
  <2> QED
    BY <2>1, <2>2, <2>3 DEF w
<1>3. double_div(x, y) = z
  BY DEF double_div, Sign
<1> HIDE DEF n, e, k, g, M, most, h
<1>4. /\ u \in Int /\ v \in Nat \ {0} /\ Abs(u) = Abs(n) * g /\ a \in Int /\ b \in Int
      /\ Abs(a) = Abs(n) * g /\ FloorDiv(a, b) = u \div v
  BY <1>1, Fraction
<1>5. Abs(u) <= A * B /\ v <= A * B /\ Abs(n) * g <= A * B
  <2>1. Abs(n) \in Nat /\ Abs(k) \in Nat /\ e \in Nat /\ g \in Nat /\ B \in Nat
    BY <1>1, <1>2 DEF Abs
  <2> DEFINE m == Abs(n)
             c == Abs(k)
  <2>2. m \in Nat /\ c \in Nat /\ m <= A /\ c <= A
    BY <1>1, <2>1
  <2> HIDE DEF m, c
  <2>3. m * g <= A * B /\ c * e <= A * B /\ e * c = c * e
    <3>1. m * g <= A * B /\ c * e <= A * B
      BY <1>1, <1>2, <2>1, <2>2, ProductGrows
    <3>2. e * c = c * e
      BY <2>1, <2>2, SMT
    <3> QED
      BY <3>1, <3>2
  <2> QED
    BY <1>4, <2>3 DEF m, c
<1> HIDE DEF u, v
<1>6. Roundable(u, v)
  BY <1>2, <1>4, <1>5, RoundableWithin DEF M, most, h
<1>7. IsDouble(z) /\ z.n * v = u * z.d
  <2>1. IsDouble(z)
    BY <1>4, <1>6, RoundFacts
  <2>2. z.n * v = u * z.d
    BY <1>1 DEF Exact
  <2> QED
    BY <2>1, <2>2
<1>8. Rep(a, v)
  <2>1. z.n \in Int /\ z.d \in Nat \ {0} /\ Rep(z.n, z.d)
    BY <1>7 DEF IsDouble
  <2>2. Rep(u, v)
    BY <1>4, <1>7, <2>1, RepSame
  <2> QED
    BY <1>4, <2>2, RepOfAbs
<1>9. /\ b # 0 /\ T \in Int /\ k * T \in Int
      /\ Abs(T) <= Abs(n) * g /\ Abs(k * T) <= Abs(n) * g
      /\ Rep(k * T, g) /\ Rep(T, 1)
      /\ Corrects(a, b) => Rep(T - 1, 1) /\ Abs(T - 1) = Abs(T) + 1
  BY <1>1, <1>8, TruncatedIs DEF v
<1>10. Abs(k * T) <= A * B /\ Abs(T) <= A * B
  <2>1. Abs(k * T) \in Int /\ Abs(T) \in Int /\ Abs(n) * g \in Int
    <3>1. Abs(k * T) \in Int /\ Abs(T) \in Int
      BY <1>9 DEF Abs
    <3>2. Abs(a) \in Int
      BY <1>4 DEF Abs
    <3> QED
      BY <1>4, <3>1, <3>2
  <2> HIDE DEF T
  <2> QED
    BY <1>2, <1>5, <1>9, <2>1
<1>11. double_floordiv(x, y) = value("Float", L, 1)
  <2>1. L = FloorDiv(a, b)
    <3> HIDE DEF a, b
    <3> QED
      BY <1>4, <1>9, CorrectedQuotient DEF T
  <2>2. z.n \div z.d = u \div v
    <3>1. z.n \in Int /\ z.d \in Nat \ {0}
      BY <1>7 DEF IsDouble
    <3> QED
      BY <1>4, <1>7, <3>1, SameQuotient
  <2>3. double_floordiv(x, y) = floor(z)
    BY <1>1, <1>3 DEF double_floordiv, k
  <2> QED
    BY <1>4, <2>1, <2>2, <2>3 DEF floor
<1> QED
  BY <1>4, <1>9, <1>10, <1>11 DEF n, e, k, g, a, b, T

(***************************************************************************)
(* Dividing what is left without the remainder gives the truncated         *)
(* quotient back.                                                          *)
(***************************************************************************)
LEMMA QuotientBack ==
  ASSUME NEW k \in Int, k # 0, NEW g \in Nat \ {0}, NEW T \in Int, NEW p \in Int, NEW c \in Nat \ {0},
         p * g = (k * T) * c
  PROVE  /\ p * g * Sign(k) \in Int /\ c * Abs(k) \in Nat \ {0}
         /\ T * (c * Abs(k)) = (p * g * Sign(k)) * 1
<1>1. p * g * Sign(k) \in Int /\ c * Abs(k) \in Nat \ {0}
  BY Fraction
<1>2. CASE k < 0
  <2>1. Sign(k) = -1 /\ Abs(k) = -k
    BY <1>2 DEF Sign, Abs
  <2>2. T * (c * (-k)) = -((k * T) * c) /\ p * g * (-1) * 1 = -(p * g) /\ p * g \in Int
    BY SMT
  <2> QED
    BY <1>1, <2>1, <2>2
<1>3. CASE ~(k < 0)
  <2>1. Sign(k) = 1 /\ Abs(k) = k
    BY <1>3 DEF Sign, Abs
  <2>2. T * (c * k) = (k * T) * c /\ p * g * 1 * 1 = p * g /\ p * g \in Int
    BY SMT
  <2> QED
    BY <1>1, <2>1, <2>2
<1> QED
  BY <1>1, <1>2, <1>3

(***************************************************************************)
(* The dividend less the remainder, as a fraction, is the divisor times    *)
(* the truncated quotient.                                                 *)
(***************************************************************************)
LEMMA LessTheRemainder ==
  ASSUME NEW n \in Int, NEW e \in Nat \ {0}, NEW k \in Int, NEW g \in Nat \ {0}, NEW T \in Int,
         NEW i \in Int, NEW j \in Nat \ {0}, NEW r \in Int,
         r = n * g - (k * e) * T, i * (e * g) = r * j
  PROVE  /\ n * j + (-i) * e \in Int /\ e * j \in Nat \ {0}
         /\ (k * T) * (e * j) = (n * j + (-i) * e) * g
<1>1. e * j \in Nat \ {0} /\ n * j + (-i) * e \in Int
  BY SMT
<1>2. (n * j + (-i) * e) * g = (n * g) * j - i * (e * g)
  BY SMT
<1>3. (k * T) * (e * j) = ((k * e) * T) * j
  BY SMT
<1> DEFINE w == (k * e) * T
           s == n * g
<1>4. w \in Int /\ s \in Int
  BY SMT
<1>5. r = s - w
  OBVIOUS
<1> HIDE DEF w, s
<1>6. (s - w) * j = s * j - w * j /\ s * j \in Int /\ w * j \in Int
  BY <1>4, SMT
<1> QED
  BY <1>1, <1>2, <1>3, <1>5, <1>6 DEF w, s

(***************************************************************************)
(* Where the quotient of two doubles is a double, the floor the runtime    *)
(* takes of it is the quotient CPython computes from the exact remainder.  *)
(***************************************************************************)
THEOREM ExactFloorDivision ==
  ASSUME NEW A, NEW B, Clear(A, B), NEW x, NEW y, Within(x, A, B), Within(y, A, B), y.n # 0,
         Exact(x.n * y.d * Sign(y.n), x.d * Abs(y.n))
  PROVE  double_floordiv(x, y) = FloatFloorDiv(x, y)
<1> DEFINE n == x.n
           e == x.d
           k == y.n
           g == y.d
           a == n * g
           b == k * e
           T == Quotient(a, b)
           C == Corrects(a, b)
           L == T - (IF C THEN 1 ELSE 0)
           m == fmod(x, y)
           r == Remainder(a, b)
           M == Power(2, ExponentRange)
           most == TwoTo[Significand] * M
           h == TwoTo[Significand - 1]
<1>1. /\ n \in Int /\ e \in Nat \ {0} /\ k \in Int /\ k # 0 /\ g \in Nat \ {0}
      /\ e <= B /\ g <= B /\ IsDouble(x) /\ IsDouble(y)
  BY DEF Within, IsDouble
<1>2. /\ a \in Int /\ b \in Int /\ b # 0 /\ T \in Int /\ k * T \in Int
      /\ Abs(k * T) <= A * B /\ Abs(T) <= A * B
      /\ Rep(k * T, g) /\ Rep(T, 1)
      /\ C => Rep(T - 1, 1) /\ Abs(T - 1) = Abs(T) + 1
      /\ double_floordiv(x, y) = value("Float", L, 1)
  BY ExactQuotient
<1>3. /\ A * B \in Nat /\ B \in Nat \ {0} /\ A * B < most /\ A * B + 1 < most
      /\ h * B <= M /\ h * 1 <= M /\ B * B <= M /\ most \in Nat /\ M \in Nat /\ B * B \in Nat
  <2>1. A * B \in Nat /\ most \in Nat /\ M \in Nat /\ B * B \in Nat /\ h * B <= M /\ h * 1 <= M
        /\ B * B <= M
    BY ClearIs
  <2>2. B \in Nat \ {0} /\ A * B + 1 < most
    BY DEF Clear
  <2> DEFINE w == A * B
  <2> HIDE DEF w, most, M
  <2>3. w < most
    BY <2>1, <2>2 DEF w
  <2> QED
    BY <2>1, <2>2, <2>3 DEF w
<1>4. e * g <= M
  <2>1. e * g <= B * B /\ e * g \in Nat
    BY <1>1, <1>3, ProductGrows
  <2> HIDE DEF M
  <2> QED
    BY <1>3, <2>1
<1>5. /\ IsDouble(m) /\ r \in Int /\ m.n * (e * g) = r * m.d
      /\ (m.n < 0 <=> r < 0) /\ (m.n = 0 <=> r = 0)
  BY <1>1, <1>4, FmodIs
<1>6. m.n \in Int /\ m.d \in Nat \ {0}
  BY <1>5 DEF IsDouble
<1>7. r = n * g - (k * e) * T
  BY DEF Remainder
<1>8. k < 0 <=> b < 0
  <2>1. k * e = e * k /\ e * 0 = 0
    BY <1>1, SMT
  <2>2. e * k < e * 0 <=> k < 0
    BY <1>1, Scaling
  <2> QED
    BY <2>1, <2>2
<1>9. C <=> (m.n # 0 /\ (m.n < 0) # (k < 0))
  BY <1>5, <1>8 DEF Corrects
<1> DEFINE diff == double_add(x, double_neg(m))
           q == double_div(diff, y)
           lowered == IF C THEN double_add(q, value("Float", -1, 1)) ELSE q
           whole == floor(lowered)
           past_half == compare_doubles(value("Float", 1, 2), double_add(lowered, double_neg(whole))) = -1
<1>10. FloatFloorDiv(x, y) = (IF past_half THEN double_add(whole, value("Float", 1, 1)) ELSE whole)
  BY <1>9 DEF FloatFloorDiv
<1>11. diff = Round(n * m.d + (-m.n) * e, e * m.d)
  BY DEF double_add, double_neg, value
<1>12. q = Round(diff.n * g * Sign(k), diff.d * Abs(k))
  BY DEF double_div, Sign
<1> HIDE DEF n, e, k, g, a, b, T, C, m, r, M, most, h
<1>13. diff = Round(k * T, g)
  <2>1. /\ n * m.d + (-m.n) * e \in Int /\ e * m.d \in Nat \ {0}
        /\ (k * T) * (e * m.d) = (n * m.d + (-m.n) * e) * g
    BY <1>1, <1>2, <1>5, <1>6, <1>7, LessTheRemainder
  <2>2. Roundable(k * T, g)
    BY <1>1, <1>2, <1>3, RoundableWithin DEF M, most, h
  <2> QED
    BY <1>1, <1>2, <1>11, <2>1, <2>2, RoundSame
<1> HIDE DEF diff
<1>14. diff.n \in Int /\ diff.d \in Nat \ {0} /\ diff.n * g = (k * T) * diff.d
  <2>1. Roundable(k * T, g)
    BY <1>1, <1>2, <1>3, RoundableWithin DEF M, most, h
  <2>2. IsDouble(Round(k * T, g)) /\ Round(k * T, g).n * g = (k * T) * Round(k * T, g).d
    BY <1>1, <1>2, <2>1, RoundFacts
  <2> QED
    BY <1>13, <2>2 DEF IsDouble
<1>15. Roundable(T, 1)
  BY <1>2, <1>3, RoundableWithin DEF M, most, h
<1>16. q = value("Float", T, 1)
  <2>1. /\ diff.n * g * Sign(k) \in Int /\ diff.d * Abs(k) \in Nat \ {0}
        /\ T * (diff.d * Abs(k)) = (diff.n * g * Sign(k)) * 1
    <3> DEFINE p == diff.n
               c == diff.d
    <3>1. p \in Int /\ c \in Nat \ {0} /\ p * g = (k * T) * c /\ T \in Int
      BY <1>2, <1>14
    <3> HIDE DEF p, c
    <3>2. /\ p * g * Sign(k) \in Int /\ c * Abs(k) \in Nat \ {0}
          /\ T * (c * Abs(k)) = (p * g * Sign(k)) * 1
      BY <1>1, <3>1, QuotientBack
    <3> QED
      BY <3>2 DEF p, c
  <2>2. q = Round(T, 1)
    <3> DEFINE u == diff.n * g * Sign(k)
               v == diff.d * Abs(k)
    <3>1. q = Round(u, v) /\ u \in Int /\ v \in Nat \ {0} /\ T * v = u * 1
      BY <1>12, <2>1
    <3> HIDE DEF u, v, q
    <3> QED
      BY <1>2, <1>15, <3>1, RoundSame
  <2> QED
    BY <1>2, <1>15, <2>2, RoundWhole
<1> HIDE DEF q
<1>17. L \in Int /\ lowered = value("Float", L, 1)
  <2>1. CASE C
    <3>1. double_add(q, value("Float", -1, 1)) = Round(T * 1 + (-1) * 1, 1 * 1)
      BY <1>16 DEF double_add, value
    <3>2. T * 1 + (-1) * 1 = T - 1 /\ 1 * 1 = 1 /\ T - 1 \in Int
      BY <1>2
    <3>3. Roundable(T - 1, 1)
      <4>1. Abs(T - 1) <= A * B + 1 /\ A * B + 1 \in Nat
        <5> DEFINE w == A * B
        <5>1. w \in Nat /\ Abs(T) <= w /\ Abs(T - 1) = Abs(T) + 1
          BY <1>2, <1>3, <2>1
        <5>2. Abs(T) \in Int
          BY <1>2 DEF Abs
        <5> HIDE DEF w
        <5>3. Abs(T - 1) <= w + 1 /\ w + 1 \in Nat
          BY <5>1, <5>2
        <5> QED
          BY <5>3 DEF w
      <4> QED
        BY <1>3, <3>2, <4>1, RoundableWithin DEF M, most, h
    <3>4. Round(T - 1, 1) = value("Float", T - 1, 1)
      BY <1>2, <2>1, <3>2, <3>3, RoundWhole
    <3> QED
      BY <2>1, <3>1, <3>2, <3>4
  <2>2. CASE ~C
    BY <1>2, <1>16, <2>2
  <2> QED
    BY <2>1, <2>2
<1> HIDE DEF lowered, L
<1>18. whole = value("Float", L, 1)
  <2>1. L \div 1 = L
    BY <1>17, SMT
  <2> QED
    BY <1>17, <2>1 DEF floor, value
<1> HIDE DEF whole
<1>19. ~past_half
  <2>1. double_add(lowered, double_neg(whole)) = Round(L * 1 + (-L) * 1, 1 * 1)
    BY <1>17, <1>18 DEF double_add, double_neg, value
  <2>2. L * 1 + (-L) * 1 = 0 /\ 1 * 1 = 1
    BY <1>17
  <2>3. Round(0, 1) = value("Float", 0, 1)
    BY DEF Round
  <2>4. compare_doubles(value("Float", 1, 2), value("Float", 0, 1)) = Order(1 * 1, 0 * 2)
    BY DEF compare_doubles, value
  <2>5. Order(1 * 1, 0 * 2) = 1
    BY DEF Order
  <2> QED
    BY <2>1, <2>2, <2>3, <2>4, <2>5
<1> HIDE DEF past_half
<1> QED
  BY <1>2, <1>10, <1>18, <1>19

\* The kinds of the types an expression of the model has.
ScalarKinds == {"Bool", "Int", "Float", "Str", "NoneType"}

(***************************************************************************)
(* A scalar type is its kind.                                              *)
(***************************************************************************)
LEMMA ScalarIs ==
  ASSUME NEW t \in Scalars
  PROVE  /\ t.kind \in ScalarKinds /\ t = of(t.kind) /\ t.name = "" /\ t.args = <<>>
         /\ t.defaulted_params = 0
<1>1. PICK k \in ScalarKinds : t = of(k)
  BY DEF Scalars, ScalarKinds
<1>2. of(k).kind = k /\ of(k).name = "" /\ of(k).args = <<>> /\ of(k).defaulted_params = 0
  BY DEF of, parametric
<1> QED
  BY <1>1, <1>2

\* Each kind has its type.
LEMMA ScalarOf ==
  ASSUME NEW k \in ScalarKinds
  PROVE  of(k) \in Scalars /\ of(k).kind = k
BY DEF Scalars, ScalarKinds, of, parametric

(***************************************************************************)
(* The ranks of the numeric tower.                                         *)
(***************************************************************************)
LEMMA RankIs ==
  /\ numeric_rank("Bool") = 1 /\ numeric_rank("Int") = 2 /\ numeric_rank("Float") = 3
  /\ \A k : k \notin {"Bool", "Int", "Float", "Complex"} => numeric_rank(k) = 0
<1> DEFINE s == NumericKinds
<1>1. Len(s) = 4 /\ DOMAIN s = 1..4 /\ s[1] = "Bool" /\ s[2] = "Int" /\ s[3] = "Float"
      /\ s[4] = "Complex"
  BY DEF NumericKinds
<1> HIDE DEF s
<1>2. \A k : Contains(s, k) <=> k \in {"Bool", "Int", "Float", "Complex"}
  BY <1>1 DEF Contains
<1>3. \A k, j : j \in 1..4 /\ s[j] = k => (CHOOSE i \in DOMAIN s : s[i] = k) = j
  BY <1>1
<1>4. numeric_rank("Bool") = 1 /\ numeric_rank("Int") = 2 /\ numeric_rank("Float") = 3
  <2>1. \A k, j : j \in 1..4 /\ s[j] = k => numeric_rank(k) = j
    BY <1>1, <1>2, <1>3 DEF numeric_rank, PositionIn, s
  <2> QED
    BY <1>1, <2>1
<1>5. \A k : k \notin {"Bool", "Int", "Float", "Complex"} => numeric_rank(k) = 0
  BY <1>2 DEF numeric_rank, PositionIn, s
<1> QED
  BY <1>4, <1>5

(***************************************************************************)
(* The classes an object may have where a type is expected.                *)
(***************************************************************************)
Admits(kind) ==
  CASE kind = "Int" -> {"Bool", "Int"}
    [] kind = "Float" -> {"Bool", "Int", "Float"}
    [] OTHER -> {kind}

\* The classes a value of each type may have.
LEMMA AdmitsIs ==
  /\ Admits("Bool") = {"Bool"} /\ Admits("Int") = {"Bool", "Int"}
  /\ Admits("Float") = {"Bool", "Int", "Float"}
  /\ Admits("Str") = {"Str"} /\ Admits("NoneType") = {"NoneType"}
BY DEF Admits

(***************************************************************************)
(* Assignability between scalar types is the numeric tower.                *)
(***************************************************************************)
LEMMA ScalarSubtype ==
  ASSUME NEW s \in Scalars, NEW t \in Scalars
  PROVE  is_subtype(s, t, NoClasses) <=> s.kind \in Admits(t.kind)
<1>1. s.kind \in ScalarKinds /\ t.kind \in ScalarKinds /\ (s = t <=> s.kind = t.kind)
  BY ScalarIs
<1>2. is_subtype(s, t, NoClasses) <=>
        \/ s.kind = t.kind
        \/ /\ numeric_rank(s.kind) # 0 /\ numeric_rank(t.kind) # 0
           /\ numeric_rank(s.kind) <= numeric_rank(t.kind)
  <2> DEFINE k == s.kind
             l == t.kind
             ranks == <<numeric_rank(s.kind), numeric_rank(t.kind)>>
  <2>1. /\ k # "Unknown" /\ k # "Union" /\ k # "Callable" /\ k # "Class" /\ k # "Tuple"
        /\ ~is_invariant_container(k) /\ k \notin {"List", "Dict", "Set", "FrozenSet"}
        /\ l # "Unknown" /\ l # "Union" /\ l # "Callable" /\ l # "Object"
    BY <1>1 DEF ScalarKinds, is_invariant_container
  <2>2. ranks[1] = numeric_rank(k) /\ ranks[2] = numeric_rank(l)
    OBVIOUS
  <2>3. ASSUME NEW under
        PROVE  subtype_rule(under, s, t, NoClasses) <=>
                 \/ s = t
                 \/ numeric_rank(k) # 0 /\ numeric_rank(l) # 0 /\ numeric_rank(k) <= numeric_rank(l)
    <3>1. CASE s = t
      <4>1. numeric_rank(k) <= numeric_rank(l)
        BY <1>1, <3>1, RankIs DEF ScalarKinds
      <4>2. subtype_rule(under, s, t, NoClasses) = TRUE
        BY <2>1, <2>2, <3>1, <4>1 DEF subtype_rule, is_invariant_container
      <4> QED
        BY <3>1, <4>2
    <3>2. CASE s # t /\ numeric_rank(k) # 0 /\ numeric_rank(l) # 0
      <4>1. subtype_rule(under, s, t, NoClasses) = (numeric_rank(k) <= numeric_rank(l))
        BY <2>1, <2>2, <3>2 DEF subtype_rule, is_invariant_container
      <4> QED
        BY <3>2, <4>1
    <3>3. CASE s # t /\ ~(numeric_rank(k) # 0 /\ numeric_rank(l) # 0)
      <4>1. subtype_rule(under, s, t, NoClasses) = FALSE
        BY <2>1, <2>2, <3>3 DEF subtype_rule, is_invariant_container
      <4> QED
        BY <3>3, <4>1
    <3>4. s = t \/ (s # t /\ numeric_rank(k) # 0 /\ numeric_rank(l) # 0)
            \/ (s # t /\ ~(numeric_rank(k) # 0 /\ numeric_rank(l) # 0))
      OBVIOUS
    <3> QED
      BY <3>1, <3>2, <3>3, <3>4, Zenon
  <2>4. \A under : subtype_rule(under, s, t, NoClasses) <=>
          \/ s.kind = t.kind
          \/ /\ numeric_rank(s.kind) # 0 /\ numeric_rank(t.kind) # 0
             /\ numeric_rank(s.kind) <= numeric_rank(t.kind)
    BY <1>1, <2>2, <2>3
  <2> QED
    BY <2>4 DEF is_subtype
<1> QED
  BY <1>1, <1>2, RankIs, AdmitsIs DEF ScalarKinds

(***************************************************************************)
(* The C++ type of a scalar type is its own.                               *)
(***************************************************************************)
LEMMA NamesOfTypes ==
  /\ cpp_type_name(of("Bool")) = "py::bool_" /\ cpp_type_name(of("Int")) = "py::int_"
  /\ cpp_type_name(of("Float")) = "py::float_" /\ cpp_type_name(of("Str")) = "py::str"
  /\ cpp_type_name(of("NoneType")) = "py::none_t"
  /\ \A t \in Scalars : Representable(t)
  /\ \A s, t \in Scalars : cpp_type_name(s) = cpp_type_name(t) => s = t
<1>1. /\ \A t : t.kind = "Bool" => cpp_type_name(t) = "py::bool_"
      /\ \A t : t.kind = "Int" => cpp_type_name(t) = "py::int_"
      /\ \A t : t.kind = "Float" => cpp_type_name(t) = "py::float_"
      /\ \A t : t.kind = "Str" => cpp_type_name(t) = "py::str"
      /\ \A t : t.kind = "NoneType" => cpp_type_name(t) = "py::none_t"
  BY DEF cpp_type_name
<1>2. \A k \in ScalarKinds : of(k).kind = k
  BY ScalarOf
<1>3. \A t \in Scalars : t.kind \in ScalarKinds /\ t = of(t.kind)
  BY ScalarIs
<1>4. \A t \in Scalars : Representable(t)
  BY <1>1, <1>3 DEF Representable, ScalarKinds
<1>5. \A s, t \in Scalars : cpp_type_name(s) = cpp_type_name(t) => s = t
  BY <1>1, <1>3 DEF ScalarKinds
<1> QED
  BY <1>1, <1>2, <1>4, <1>5 DEF ScalarKinds

(***************************************************************************)
(* The union of two types that are no unions.                              *)
(***************************************************************************)
LEMMA FlattenPair ==
  ASSUME NEW s, NEW t, s.kind # "Union", t.kind # "Union"
  PROVE  Flatten(<<s, t>>) = <<s, t>>
<1> DEFINE seqs == [i \in DOMAIN <<s, t>> |->
                      IF <<s, t>>[i].kind = "Union" THEN <<s, t>>[i].args ELSE <<<<s, t>>[i]>>]
<1>1. seqs = << <<s>>, <<t>> >> /\ Len(seqs) = 2 /\ seqs[1] = <<s>> /\ seqs[2] = <<t>>
  <2>1. DOMAIN <<s, t>> = 1..2 /\ <<s, t>>[1] = s /\ <<s, t>>[2] = t
    OBVIOUS
  <2>2. seqs = [i \in 1..2 |-> IF i = 1 THEN <<s>> ELSE <<t>>]
    BY <2>1
  <2>3. << <<s>>, <<t>> >> = [i \in 1..2 |-> IF i = 1 THEN <<s>> ELSE <<t>>]
    OBVIOUS
  <2> QED
    BY <2>2, <2>3
<1> HIDE DEF seqs
<1> DEFINE F(f) == f = [i \in 1..Len(seqs) |-> IF i = 1 THEN seqs[i] ELSE f[i - 1] \o seqs[i]]
           flatten == CHOOSE f : F(f)
<1>2. F(flatten)
  <2> DEFINE g == [i \in 1..2 |-> IF i = 1 THEN <<s>> ELSE <<s>> \o <<t>>]
  <2>1. F(g)
    BY <1>1
  <2> QED
    BY <2>1
<1> HIDE DEF flatten
<1>3. flatten[2] = <<s>> \o <<t>>
  <2> DEFINE a == <<s>>
             b == <<t>>
  <2>1. seqs[1] = a /\ seqs[2] = b /\ Len(seqs) = 2
    BY <1>1
  <2> HIDE DEF a, b
  <2>2. flatten = [i \in 1..2 |-> IF i = 1 THEN seqs[i] ELSE flatten[i - 1] \o seqs[i]]
    BY <1>2, <2>1
  <2>3. flatten[1] = a
    BY <2>1, <2>2
  <2>4. flatten[2] = flatten[1] \o seqs[2]
    <3>1. 2 \in 1..2 /\ 2 # 1 /\ 2 - 1 = 1
      OBVIOUS
    <3> QED
      BY <2>2, <3>1
  <2> QED
    BY <2>1, <2>3, <2>4 DEF a, b
<1>4. FlattenSeq(seqs) = flatten[Len(seqs)]
  BY <1>1 DEF FlattenSeq, flatten
<1>5. <<s>> \o <<t>> = <<s, t>>
  <2> DEFINE S == {s, t}
  <2>1. <<s>> \in Seq(S) /\ <<t>> \in Seq(S) /\ <<s, t>> \in Seq(S)
    OBVIOUS
  <2>2. Len(<<s>>) = 1 /\ Len(<<t>>) = 1 /\ Len(<<s, t>>) = 2
    OBVIOUS
  <2> DEFINE a == <<s>>
             b == <<t>>
             c == <<s, t>>
  <2>3. a \in Seq(S) /\ b \in Seq(S) /\ c \in Seq(S) /\ Len(a) = 1 /\ Len(b) = 1 /\ Len(c) = 2
        /\ c[1] = a[1] /\ c[2] = b[1]
    BY <2>1, <2>2
  <2> HIDE DEF a, b, c
  <2>4. a \o b \in Seq(S) /\ Len(a \o b) = Len(a) + Len(b)
        /\ \A i \in 1..(Len(a) + Len(b)) : (a \o b)[i] = IF i <= Len(a) THEN a[i] ELSE b[i - Len(a)]
    BY <2>3, ConcatProperties
  <2>5. \A i \in 1..2 : i = 1 \/ i = 2
    OBVIOUS
  <2>6. \A i \in 1..2 : (a \o b)[i] = c[i]
    BY <2>3, <2>4, <2>5
  <2>7. a \o b = c
    <3>1. Len(a \o b) = 2
      BY <2>3, <2>4
    <3> QED
      BY <2>3, <2>4, <2>6, <3>1, SeqEqual
  <2> QED
    BY <2>7 DEF a, b, c
<1> QED
  BY <1>1, <1>3, <1>4, <1>5 DEF Flatten, seqs

\* Two different scalars join to a union.
LEMMA ScalarUnion ==
  ASSUME NEW s \in Scalars, NEW t \in Scalars
  PROVE  /\ s = t => union_of(<<s, t>>) = s
         /\ s # t => union_of(<<s, t>>).kind = "Union"
<1>1. s.kind \in ScalarKinds /\ t.kind \in ScalarKinds
  BY ScalarIs
<1>2. Flatten(<<s, t>>) = <<s, t>>
  BY <1>1, FlattenPair DEF ScalarKinds
<1> DEFINE flat == <<s, t>>
<1>3. flat # <<>> /\ ToSet(flat) = {s, t} /\ flat[1] = s
  BY DEF ToSet
<1>4. Unknown \notin {s, t}
  <2>1. Unknown.kind = "Unknown"
    BY DEF Unknown, of, parametric
  <2> QED
    BY <1>1, <2>1 DEF ScalarKinds
<1> HIDE DEF flat
<1>5. union_of(<<s, t>>) = (IF {s, t} = {s} THEN s ELSE parametric("Union", Distinct(flat)))
  BY <1>2, <1>3, <1>4 DEF union_of, flat
<1>6. parametric("Union", Distinct(flat)).kind = "Union"
  BY DEF parametric
<1> QED
  BY <1>5, <1>6

\* The kinds with a rank in the numeric tower.
Numbers == {"Bool", "Int", "Float"}
\* The binary operators of the model.
Operators == {"+", "-", "*", "/", "//", "%", "**"}

(***************************************************************************)
(* The wider of two numbers, never narrower than int.                      *)
(***************************************************************************)
LEMMA NumericJoin ==
  ASSUME NEW l \in Scalars, NEW r \in Scalars, l.kind \in Numbers, r.kind \in Numbers
  PROVE  /\ IsNumeric(l) /\ IsNumeric(r) /\ WiderRank(l, r) # 4
         /\ numeric_join(l, r) = of(IF "Float" \in {l.kind, r.kind} THEN "Float" ELSE "Int")
         /\ numeric_of_rank(3) = of("Float")
         /\ numeric_of_rank(numeric_rank(l.kind)) = of(IF l.kind = "Float" THEN "Float" ELSE "Int")
<1>1. NumericKinds[2] = "Int" /\ NumericKinds[3] = "Float"
  BY DEF NumericKinds
<1>2. /\ numeric_of_rank(1) = of("Int") /\ numeric_of_rank(2) = of("Int")
      /\ numeric_of_rank(3) = of("Float")
  BY <1>1 DEF numeric_of_rank
<1>3. IsNumeric(l) /\ IsNumeric(r)
  BY RankIs DEF IsNumeric, Numbers
<1>4. WiderRank(l, r) \in 1..3 /\ (WiderRank(l, r) = 3 <=> "Float" \in {l.kind, r.kind})
  BY RankIs DEF WiderRank, Numbers
<1>5. numeric_join(l, r) = numeric_of_rank(WiderRank(l, r))
  BY DEF numeric_join
<1>6. numeric_of_rank(numeric_rank(l.kind)) = of(IF l.kind = "Float" THEN "Float" ELSE "Int")
  BY <1>2, RankIs DEF Numbers
<1>7. WiderRank(l, r) = 1 \/ WiderRank(l, r) = 2 \/ WiderRank(l, r) = 3
  BY <1>4
<1>8. numeric_join(l, r) = of(IF "Float" \in {l.kind, r.kind} THEN "Float" ELSE "Int")
  BY <1>2, <1>4, <1>5, <1>7
<1> QED
  BY <1>2, <1>3, <1>4, <1>6, <1>8

\* A type outside the tower is text or None.
LEMMA NoNumber ==
  ASSUME NEW t \in Scalars, t.kind \notin Numbers
  PROVE  ~IsNumeric(t) /\ ~is_integral(t) /\ t.kind \in {"Str", "NoneType"}
BY ScalarIs, RankIs DEF IsNumeric, is_integral, Numbers, ScalarKinds

(***************************************************************************)
(* What a binary operator makes of scalar types, where the emitter writes  *)
(* C++ for it.                                                             *)
(***************************************************************************)
BinaryTyped(op, l, r, t) ==
  \/ /\ l.kind \in Numbers /\ r.kind \in Numbers
     /\ t = of(IF op = "/" \/ "Float" \in {l.kind, r.kind} THEN "Float" ELSE "Int")
  \/ op = "+" /\ l.kind = "Str" /\ r.kind = "Str" /\ t = of("Str")
  \/ op = "*" /\ l.kind = "Str" /\ r.kind \in {"Bool", "Int"} /\ t = of("Str")
  \/ op = "*" /\ r.kind = "Str" /\ l.kind \in {"Bool", "Int"} /\ t = of("Str")

\* The types binary_result accepts, one operator at a time.
LEMMA BinaryTypes ==
  ASSUME NEW l \in Scalars, NEW r \in Scalars, NEW op \in Operators,
         binary_result(op, l, r).status = "Ok", op = "%" => l.kind # "Str"
  PROVE  binary_result(op, l, r).type \in Scalars /\ BinaryTyped(op, l, r, binary_result(op, l, r).type)
<1> DEFINE result == binary_result(op, l, r)
<1>1. l.kind \in ScalarKinds /\ r.kind \in ScalarKinds /\ l = of(l.kind) /\ r = of(r.kind)
  BY ScalarIs
<1>2. result = binary_table(op, l, r)
  BY <1>1 DEF binary_result, ScalarKinds
<1>3. \A t : Ok(t).type = t
  BY DEF Ok
<1>4. NotApplicable.status # "Ok"
  BY DEF NotApplicable
<1>5. of("Int") \in Scalars /\ of("Float") \in Scalars /\ of("Str") \in Scalars
  BY ScalarOf DEF ScalarKinds
<1>6. is_integral(l) <=> l.kind \in {"Bool", "Int"}
  BY DEF is_integral
<1>7. is_integral(r) <=> r.kind \in {"Bool", "Int"}
  BY DEF is_integral
<1>8. CASE l.kind \in Numbers /\ r.kind \in Numbers
  <2>1. IsNumeric(l) /\ IsNumeric(r) /\ WiderRank(l, r) # 4
    BY <1>8, NumericJoin
  <2> DEFINE j == numeric_join(l, r)
             f == numeric_of_rank(3)
  <2>2. j = of(IF "Float" \in {l.kind, r.kind} THEN "Float" ELSE "Int") /\ f = of("Float")
    BY <1>8, NumericJoin
  <2>3. l.kind # "Str" /\ r.kind # "Str"
    BY <1>8 DEF Numbers
  <2>4. op \in {"-", "//", "**"} => binary_table(op, l, r) = Ok(j)
    BY <2>1 DEF binary_table, arithmetic_result
  <2>5. op = "+" => binary_table(op, l, r) = Ok(j)
    BY <1>1, <1>8, <2>1 DEF binary_table, plus_result, Numbers, IsBytes
  <2>6. op = "*" => binary_table(op, l, r) = Ok(j)
    BY <1>1, <1>8, <2>1 DEF binary_table, star_result, Numbers
  <2>7. op = "%" => binary_table(op, l, r) = Ok(j)
    BY <1>1, <1>8, <2>1 DEF binary_table, modulo_result, Numbers, IsBytes
  <2>8. op = "/" => binary_table(op, l, r) = Ok(f)
    BY <2>1 DEF binary_table, true_divide_result
  <2> HIDE DEF j, f, result
  <2>9. result = Ok(IF op = "/" THEN f ELSE j)
    BY <1>2, <2>4, <2>5, <2>6, <2>7, <2>8 DEF Operators, result
  <2>10. result.type = (IF op = "/" THEN f ELSE j)
    BY <1>3, <2>9
  <2> QED
    BY <1>5, <1>8, <2>2, <2>10 DEF BinaryTyped, result
<1>9. CASE ~(l.kind \in Numbers /\ r.kind \in Numbers)
  <2>1. ~(IsNumeric(l) /\ IsNumeric(r))
    BY <1>9, NoNumber
  <2>2. ~IsBytes(l) /\ ~IsBytes(r) /\ l.kind # "List" /\ l.kind # "Tuple" /\ r.kind # "List"
    BY <1>1 DEF ScalarKinds, IsBytes
  <2>3. op \in {"-", "//", "**"} => binary_table(op, l, r) = NotApplicable
    BY <2>1 DEF binary_table, arithmetic_result
  <2>4. op = "/" => binary_table(op, l, r) = NotApplicable
    BY <2>1 DEF binary_table, true_divide_result
  <2>5. op = "+" => binary_table(op, l, r) = (IF l.kind = "Str" /\ r.kind = "Str" THEN Ok(l) ELSE NotApplicable)
    <3>1. op = "+" => binary_table(op, l, r) = plus_result(l, r)
      BY DEF binary_table
    <3>2. plus_result(l, r) = (IF l.kind = "Str" /\ r.kind = "Str" THEN Ok(l) ELSE NotApplicable)
      BY <2>1, <2>2 DEF plus_result
    <3> QED
      BY <3>1, <3>2
  <2>6. op = "%" => binary_table(op, l, r) = NotApplicable
    <3>1. op = "%" => binary_table(op, l, r) = modulo_result(l, r)
      BY DEF binary_table
    <3>2. l.kind # "Str" => modulo_result(l, r) = NotApplicable
      BY <2>1, <2>2 DEF modulo_result
    <3> QED
      BY <3>1, <3>2
  <2>7. op = "*" => binary_table(op, l, r) = star_result(l, r)
    BY DEF binary_table
  <2> DEFINE seqs == {"Str", "Bytes", "ByteArray", "List"}
  <2>8. CASE is_integral(l)
    <3>1. star_result(l, r) = (IF is_integral(l) /\ r.kind \in seqs THEN Ok(r) ELSE NotApplicable)
      BY <2>1, <2>8 DEF star_result
    <3>2. r.kind \in seqs <=> r.kind = "Str"
      BY <1>1 DEF ScalarKinds
    <3> HIDE DEF result
    <3>3. op = "*" => result.type = r /\ r.kind = "Str"
      BY <1>2, <1>3, <1>4, <2>7, <2>8, <3>1, <3>2 DEF result
    <3>4. op = "+" => result.type = l /\ l.kind = "Str" /\ r.kind = "Str"
      BY <1>2, <1>3, <1>4, <2>5 DEF result
    <3>5. op \in {"*", "+"}
      BY <1>2, <1>4, <2>3, <2>4, <2>6 DEF result, Operators
    <3> QED
      BY <1>1, <1>5, <1>6, <2>8, <3>3, <3>4, <3>5 DEF BinaryTyped, result
  <2>9. CASE ~is_integral(l)
    <3>1. star_result(l, r) = (IF is_integral(r) /\ l.kind \in seqs THEN Ok(l) ELSE NotApplicable)
      BY <2>1, <2>9 DEF star_result
    <3>2. l.kind \in seqs <=> l.kind = "Str"
      BY <1>1 DEF ScalarKinds
    <3> HIDE DEF result
    <3>3. op = "*" => result.type = l /\ l.kind = "Str" /\ is_integral(r)
      BY <1>2, <1>3, <1>4, <2>7, <2>9, <3>1, <3>2 DEF result
    <3>4. op = "+" => result.type = l /\ l.kind = "Str" /\ r.kind = "Str"
      BY <1>2, <1>3, <1>4, <2>5 DEF result
    <3>5. op \in {"*", "+"}
      BY <1>2, <1>4, <2>3, <2>4, <2>6 DEF result, Operators
    <3> QED
      BY <1>1, <1>5, <1>7, <2>9, <3>3, <3>4, <3>5 DEF BinaryTyped, result
  <2> QED
    BY <2>8, <2>9
<1> QED
  BY <1>8, <1>9

\* The types unary_result accepts.
LEMMA UnaryTypes ==
  ASSUME NEW t \in Scalars, NEW op \in {"+", "-", "not"}, unary_result(op, t).status = "Ok"
  PROVE  LET type == unary_result(op, t).type IN
         /\ type \in Scalars
         /\ op = "not" => type = of("Bool")
         /\ op # "not" => t.kind \in Numbers /\ type = of(IF t.kind = "Float" THEN "Float" ELSE "Int")
<1>1. t.kind \in ScalarKinds
  BY ScalarIs
<1>2. \A u : Ok(u).type = u /\ Ok(u).status = "Ok"
  BY DEF Ok
<1>3. NotApplicable.status # "Ok"
  BY DEF NotApplicable
<1>4. op = "not" => unary_result(op, t) = Ok(of("Bool"))
  BY <1>1 DEF unary_result, ScalarKinds
<1>5. op # "not" => unary_result(op, t) =
        (IF IsNumeric(t) THEN Ok(numeric_of_rank(numeric_rank(t.kind))) ELSE NotApplicable)
  BY <1>1 DEF unary_result, ScalarKinds
<1>6. CASE op = "not"
  BY <1>2, <1>4, <1>6, ScalarOf DEF ScalarKinds
<1>7. CASE op # "not"
  <2>1. IsNumeric(t)
    BY <1>3, <1>5, <1>7
  <2>2. t.kind \in Numbers
    BY <2>1, NoNumber
  <2>3. unary_result(op, t).type = of(IF t.kind = "Float" THEN "Float" ELSE "Int")
    BY <1>2, <1>5, <1>7, <2>1, <2>2, NumericJoin
  <2> QED
    BY <1>7, <2>2, <2>3, ScalarOf DEF ScalarKinds
<1> QED
  BY <1>6, <1>7

\* A wider type admits what a narrower one does.
LEMMA AdmitsTransitive ==
  ASSUME NEW s \in Scalars, NEW t \in Scalars, NEW tag, tag \in Admits(s.kind), s.kind \in Admits(t.kind)
  PROVE  tag \in Admits(t.kind)
BY ScalarIs, AdmitsIs DEF ScalarKinds

\* A comparison is a bool.
LEMMA ComparisonTypes ==
  ASSUME NEW l \in Scalars, NEW r \in Scalars, NEW op \in {"<", "=="},
         comparison_result(op, l, r).status = "Ok"
  PROVE  comparison_result(op, l, r).type = of("Bool")
<1>1. l.kind \in ScalarKinds /\ r.kind \in ScalarKinds
  BY ScalarIs
<1>2. \A u : Ok(u).type = u
  BY DEF Ok
<1>3. NotApplicable.status # "Ok"
  BY DEF NotApplicable
<1>4. op = "==" => comparison_result(op, l, r) = Ok(of("Bool"))
  BY <1>1 DEF comparison_result, ScalarKinds
<1>5. op = "<" => comparison_result(op, l, r) = ordered_result(l, r)
  BY <1>1 DEF comparison_result, ScalarKinds
<1>6. ordered_result(l, r) = Ok(of("Bool")) \/ ordered_result(l, r) = NotApplicable
  BY DEF ordered_result
<1> QED
  BY <1>2, <1>3, <1>4, <1>5, <1>6

\* What the runtime compares is two numbers or two texts.
LEMMA ComparableTypes ==
  ASSUME NEW l \in Scalars, NEW r \in Scalars, comparison_operands_are_runtime_comparable(l, r)
  PROVE  \/ l.kind \in Numbers /\ r.kind \in Numbers
         \/ l.kind = "Str" /\ r.kind = "Str"
BY DEF comparison_operands_are_runtime_comparable, Numbers

\* The code generator takes and/or of one type only.
LEMMA BoolopTypes ==
  ASSUME NEW l \in Scalars, NEW r \in Scalars, Representable(boolop_result(<<l, r>>).type)
  PROVE  l = r /\ boolop_result(<<l, r>>).type = l
<1>1. l.kind \in ScalarKinds /\ r.kind \in ScalarKinds
  BY ScalarIs
<1>2. \A u : Ok(u).type = u
  BY DEF Ok
<1> DEFINE pair == <<l, r>>
           kinds == {pair[i].kind : i \in DOMAIN pair}
<1>3. kinds = {l.kind, r.kind}
  <2>1. DOMAIN pair = {1, 2} /\ pair[1] = l /\ pair[2] = r
    OBVIOUS
  <2> HIDE DEF pair
  <2> QED
    BY <2>1
<1>4. boolop_result(pair) = Ok(union_of(pair))
  <2>1. "Unknown" \notin kinds /\ "Union" \notin kinds
    BY <1>1, <1>3 DEF ScalarKinds
  <2> HIDE DEF pair
  <2> QED
    BY <2>1 DEF boolop_result
<1>5. boolop_result(<<l, r>>).type = union_of(<<l, r>>)
  BY <1>2, <1>4
<1>6. l = r
  <2>1. SUFFICES ASSUME l # r
                 PROVE  FALSE
    OBVIOUS
  <2>2. union_of(<<l, r>>).kind = "Union"
    BY <2>1, ScalarUnion
  <2>3. ~Representable(union_of(<<l, r>>))
    BY <2>2 DEF Representable, cpp_type_name
  <2> QED
    BY <1>5, <2>3
<1>7. union_of(<<l, r>>) = l
  BY <1>6, ScalarUnion
<1> QED
  BY <1>5, <1>6, <1>7

(***************************************************************************)
(* The class of what a unary and a binary operator compute, in CPython.    *)
(***************************************************************************)
LEMMA TagsOfResults ==
  /\ \A t, n, d : value(t, n, d).tag = t /\ value(t, n, d).n = n /\ value(t, n, d).d = d
  /\ \A n, d : Round(n, d).tag = "Float"
  /\ \A n, d : Reduced(n, d).tag = "Float"
  /\ \A n : Failed(checked(n)) \/ checked(n).tag = "Int"
  /\ \A e : e \in {"OverflowError", "ZeroDivisionError"} => Failed(fail(e))
<1>1. \A t, n, d : value(t, n, d).tag = t /\ value(t, n, d).n = n /\ value(t, n, d).d = d
  BY DEF value
<1>2. \A n, d : Reduced(n, d).tag = "Float"
  BY <1>1 DEF Reduced
<1>3. \A n, d : Round(n, d).tag = "Float"
  BY <1>1, <1>2 DEF Round
<1>4. \A e : e \in {"OverflowError", "ZeroDivisionError"} => Failed(fail(e))
  BY <1>1 DEF Failed, fail
<1>5. \A n : Failed(checked(n)) \/ checked(n).tag = "Int"
  BY <1>1, <1>4 DEF checked, int_
<1> QED
  BY <1>1, <1>2, <1>3, <1>4, <1>5

\* CPython's unary operators return the class the checker tells.
LEMMA UnaryClass ==
  ASSUME NEW t \in Scalars, NEW op \in {"+", "-", "not"}, unary_result(op, t).status = "Ok",
         NEW v, v.tag \in Admits(t.kind)
  PROVE  Failed(PyUnary(op, v)) \/ PyUnary(op, v).tag \in Admits(unary_result(op, t).type.kind)
<1> DEFINE type == unary_result(op, t).type
           w == PyUnary(op, v)
<1>1. /\ type \in Scalars
      /\ op = "not" => type = of("Bool")
      /\ op # "not" => t.kind \in Numbers /\ type = of(IF t.kind = "Float" THEN "Float" ELSE "Int")
  BY UnaryTypes
<1>2. \A k \in ScalarKinds : of(k).kind = k
  BY ScalarOf
<1> HIDE DEF type
<1>3. CASE op = "not"
  <2>1. w.tag = "Bool"
    BY <1>3, TagsOfResults DEF PyUnary, bool_
  <2> QED
    BY <1>1, <1>2, <1>3, <2>1, AdmitsIs DEF ScalarKinds, type
<1>4. CASE op # "not"
  <2>1. w = (IF op = "-" THEN IF holds_int(v) THEN checked(-v.n) ELSE double_neg(v)
             ELSE IF holds_int(v) THEN int_(v.n) ELSE v)
    BY <1>4 DEF PyUnary
  <2>2. double_neg(v).tag = "Float" /\ int_(v.n).tag = "Int"
    BY TagsOfResults DEF double_neg, int_
  <2>3. Failed(checked(-v.n)) \/ checked(-v.n).tag = "Int"
    BY TagsOfResults
  <2> HIDE DEF w
  <2>4. holds_int(v) => Failed(w) \/ w.tag = "Int"
    BY <2>1, <2>2, <2>3
  <2>5. ~holds_int(v) => t.kind = "Float" /\ w.tag = "Float"
    <3>1. ~holds_int(v) => t.kind = "Float" /\ v.tag = "Float"
      BY <1>1, <1>4, AdmitsIs DEF holds_int, Numbers
    <3> QED
      BY <2>1, <2>2, <3>1
  <2>6. type.kind = (IF t.kind = "Float" THEN "Float" ELSE "Int")
    BY <1>1, <1>2, <1>4 DEF ScalarKinds
  <2> QED
    BY <2>4, <2>5, <2>6, AdmitsIs DEF w, type
<1> QED
  BY <1>3, <1>4

\* And its binary operators do.
LEMMA BinaryClass ==
  ASSUME NEW l \in Scalars, NEW r \in Scalars, NEW op \in Operators, NEW t \in Scalars,
         BinaryTyped(op, l, r, t), NEW a, NEW b, a.tag \in Admits(l.kind), b.tag \in Admits(r.kind)
  PROVE  Failed(PyBinary(op, a, b)) \/ PyBinary(op, a, b).tag \in Admits(t.kind)
<1> DEFINE w == PyBinary(op, a, b)
<1>1. \A k \in ScalarKinds : of(k).kind = k
  BY ScalarOf
<1>2. CASE "Str" \in {a.tag, b.tag}
  <2>1. w = PyText(op, a, b)
    BY <1>2 DEF PyBinary
  <2>2. w.tag = "Str"
    BY <2>1, TagsOfResults DEF PyText, str
  <2>3. ~(l.kind \in Numbers /\ r.kind \in Numbers)
    BY <1>2, AdmitsIs DEF Numbers
  <2>4. t = of("Str")
    BY <2>3 DEF BinaryTyped
  <2>5. t.kind = "Str"
    BY <1>1, <2>4 DEF ScalarKinds
  <2> QED
    BY <2>2, <2>5, AdmitsIs
<1>3. CASE "Str" \notin {a.tag, b.tag}
  <2>1. /\ l.kind \in Numbers /\ r.kind \in Numbers
        /\ t.kind = (IF op = "/" \/ "Float" \in {l.kind, r.kind} THEN "Float" ELSE "Int")
    <3>1. /\ l.kind \in Numbers /\ r.kind \in Numbers
          /\ t = of(IF op = "/" \/ "Float" \in {l.kind, r.kind} THEN "Float" ELSE "Int")
      BY <1>3, AdmitsIs DEF BinaryTyped
    <3> QED
      BY <1>1, <3>1 DEF ScalarKinds
  <2>2. /\ a.tag \in Numbers /\ b.tag \in Numbers
        /\ t.kind = "Int" => BothIntegral(a, b) /\ op # "/"
    BY <2>1, AdmitsIs DEF Numbers, BothIntegral, holds_int
  <2>3. CASE op \in {"/", "//", "%"} /\ b.n = 0
    <3>1. w = fail("ZeroDivisionError")
      BY <1>3, <2>3 DEF PyBinary
    <3> QED
      BY <3>1, TagsOfResults
  <2>4. CASE ~(op \in {"/", "//", "%"} /\ b.n = 0)
    <3>1. w = PyArithmetic(op, a, b)
      BY <1>3, <2>4 DEF PyBinary
    <3> DEFINE x == as_double(a)
               y == as_double(b)
    <3>2. /\ double_add(x, y).tag = "Float" /\ double_add(x, double_neg(y)).tag = "Float"
          /\ double_mul(x, y).tag = "Float" /\ double_div(x, y).tag = "Float"
      BY TagsOfResults DEF double_add, double_mul, double_div
    <3>3. FloatFloorDiv(x, y).tag = "Float"
      <4>1. \A p, q : double_add(p, q).tag = "Float"
        BY TagsOfResults DEF double_add
      <4>2. \A p : floor(p).tag = "Float"
        BY TagsOfResults DEF floor
      <4>3. \A p, q : \E g, h, i : FloatFloorDiv(p, q) = double_add(h, i) \/ FloatFloorDiv(p, q) = floor(g)
        BY DEF FloatFloorDiv
      <4> QED
        BY <4>1, <4>2, <4>3
    <3>4. Failed(double_mod(x, y)) \/ double_mod(x, y).tag = "Float"
      BY TagsOfResults DEF double_mod, double_add, fmod
    <3>5. Failed(IntFloorDiv(a.n, b.n)) \/ IntFloorDiv(a.n, b.n).tag = "Int"
      BY TagsOfResults DEF IntFloorDiv, Dividing
    <3>6. Failed(IntModulo(a.n, b.n)) \/ IntModulo(a.n, b.n).tag = "Int"
      BY TagsOfResults DEF IntModulo, Dividing
    <3>7. \A n : Failed(checked(n)) \/ checked(n).tag = "Int"
      BY TagsOfResults
    <3>8. \A n, d : Round(n, d).tag = "Float"
      BY TagsOfResults
    <3> HIDE DEF x, y, w
    <3>9. CASE BothIntegral(a, b) /\ op # "/"
      <4>1. w = (CASE op = "+" -> checked(a.n + b.n) [] op = "-" -> checked(a.n - b.n)
                   [] op = "*" -> checked(a.n * b.n) [] op = "//" -> IntFloorDiv(a.n, b.n)
                   [] op = "%" -> IntModulo(a.n, b.n) [] op = "**" -> checked(Power(a.n, b.n)))
        BY <3>1, <3>9 DEF PyArithmetic, Operators, BothIntegral
      <4>2. Failed(w) \/ w.tag = "Int"
        BY <3>5, <3>6, <3>7, <3>9, <4>1 DEF Operators
      <4> QED
        BY <2>1, <4>2, AdmitsIs DEF w
    <3>10. CASE ~(BothIntegral(a, b) /\ op # "/")
      <4>1. Failed(w) \/ w.tag \in {"Float", "Int"}
        BY <3>1, <3>2, <3>3, <3>4, <3>7, <3>8, <3>10 DEF PyArithmetic, Operators, x, y
      <4>2. t.kind = "Float"
        BY <2>1, <2>2, <3>10
      <4> QED
        BY <4>1, <4>2, AdmitsIs DEF w
    <3> QED
      BY <3>9, <3>10
  <2> QED
    BY <2>3, <2>4
<1> QED
  BY <1>2, <1>3

(***************************************************************************)
(* The stack of operands.                                                  *)
(***************************************************************************)
IsStack == operands \in Seq(Operands)

\* A sequence is over its own elements.
LEMMA OwnElements ==
  ASSUME NEW S, NEW s \in Seq(S)
  PROVE  s \in Seq({s[i] : i \in DOMAIN s})
<1> DEFINE R == {s[i] : i \in DOMAIN s}
<1>1. DOMAIN s = 1..Len(s) /\ Len(s) \in Nat
  OBVIOUS
<1>2. s = [i \in 1..Len(s) |-> s[i]]
  OBVIOUS
<1>3. \A i \in 1..Len(s) : s[i] \in R
  BY <1>1
<1> HIDE DEF R
<1>4. s \in [1..Len(s) -> R]
  BY <1>2, <1>3
<1> QED
  BY <1>1, <1>4 DEF R

\* An operand near the top is one of the stack's.
LEMMA TopIs ==
  ASSUME IsStack, NEW k \in Nat, k < Len(operands)
  PROVE  Top(k) \in Operands
BY DEF IsStack, Operands, Top

\* What replacing the top operands does.
LEMMA Replaced ==
  ASSUME IsStack, NEW count \in Nat, count <= Len(operands), NEW e, Replace(count, e)
  PROVE  /\ IsStack' /\ \A f \in Operands' : f = e \/ f \in Operands
         /\ slots' = slots /\ phase' = phase
         /\ Abs(e.py.value.n) <= MaxNumerator /\ e.py.value.d <= MaxDenominator
<1> DEFINE S == Operands \union {e}
           n == Len(operands) - count
           below == SubSeq(operands, 1, n)
<1>1. operands' = Append(below, e) /\ slots' = slots /\ phase' = phase
      /\ Abs(e.py.value.n) <= MaxNumerator /\ e.py.value.d <= MaxDenominator
  BY DEF Replace
<1>2. operands \in Seq(S) /\ e \in S /\ n \in 0..Len(operands) /\ Len(operands) \in Nat
  BY DEF IsStack
<1> HIDE DEF S
<1>3. below \in Seq(S)
  <2>1. \A i \in 1..n : i \in 1..Len(operands)
    BY <1>2
  <2> QED
    BY <1>2, <2>1, SubSeqProperties
<1>4. operands' \in Seq(S)
  BY <1>1, <1>2, <1>3, AppendProperties
<1>5. operands' \in Seq(Operands')
  BY <1>4, OwnElements DEF Operands
<1>6. \A f \in Operands' : f \in S
  BY <1>4 DEF Operands
<1> QED
  BY <1>1, <1>5, <1>6 DEF IsStack, S

(***************************************************************************)
(* What the types say of an operand and of a slot: a name that no          *)
(* assignment has narrowed has the C++ type its type spells, the object    *)
(* has a class the type admits, and a text of type py::bool_ is a bool.    *)
(***************************************************************************)
OperandShape(e) ==
  e = [type |-> e.type, cpp |-> e.cpp, py |-> e.py, runs |-> e.runs, bare_int |-> e.bare_int,
       marks |-> e.marks]

\* The strengthening, of an operand: its type is a scalar, which admits its object and spells
\* its text's C++ type unless a narrowed name was read; a C++ bool holds a bool.
TypedOperand(e) ==
  /\ OperandShape(e)
  /\ e.type \in Scalars
  /\ Failed(e.py.value) \/ e.py.value.tag \in Admits(e.type.kind)
  /\ e.cpp = "py::bool_" => Failed(e.py.value) \/ e.py.value.tag = "Bool"
  /\ "narrowed" \notin e.marks => e.cpp = cpp_type_name(e.type)
  /\ e.bare_int => e.type = of("Int")
  /\ "limit" \in e.marks => e.marks = {"limit"}

\* And of a slot: each of the three types admits the next.
TypedSlot(s) ==
  /\ s.declared \in Scalars /\ s.read \in Scalars /\ s.read.kind \in Admits(s.declared.kind)
  /\ s.py.tag \in Admits(s.read.kind) /\ ~Failed(s.py)
  /\ "narrowed" \notin s.marks => s.compiles
  /\ "limit" \notin s.marks

\* The inductive invariant of the types.
TypedInv ==
  /\ IsStack
  /\ slots \in [Names -> {slots[x] : x \in Names}]
  /\ \A e \in Operands : TypedOperand(e)
  /\ \A s \in SetSlots : TypedSlot(s)

\* A typed node in place of its operands keeps the invariant.
LEMMA TypedPush ==
  ASSUME TypedInv, NEW count \in Nat, count <= Len(operands), NEW e, Replace(count, e),
         TypedOperand(e)
  PROVE  TypedInv'
<1>1. IsStack /\ slots \in [Names -> {slots[x] : x \in Names}]
      /\ (\A f \in Operands : TypedOperand(f)) /\ (\A s \in SetSlots : TypedSlot(s))
  BY DEF TypedInv
<1>2. IsStack' /\ (\A f \in Operands' : f = e \/ f \in Operands) /\ slots' = slots
  BY <1>1, Replaced
<1>3. SetSlots' = SetSlots
  BY <1>2 DEF SetSlots, IsBound
<1>4. \A f \in Operands' : TypedOperand(f)
  BY <1>1, <1>2
<1> QED
  BY <1>1, <1>2, <1>3, <1>4 DEF TypedInv

\* An operand near the top is typed.
LEMMA TypedTop ==
  ASSUME TypedInv, NEW k \in Nat, k < Len(operands)
  PROVE  Top(k) \in Operands /\ TypedOperand(Top(k))
BY TopIs DEF TypedInv

\* When a node is typed.
LEMMA TypedNode ==
  ASSUME NEW type \in Scalars, NEW cpp, NEW py, NEW runs, NEW marks,
         NEW e, e = Node(type, cpp, py, runs, marks),
         Failed(py.value) \/ py.value.tag \in Admits(type.kind),
         cpp = "py::bool_" => Failed(py.value) \/ py.value.tag = "Bool",
         "narrowed" \notin marks => cpp = cpp_type_name(type),
         "limit" \notin marks
  PROVE  TypedOperand(e)
<1>1. /\ OperandShape(e) /\ e.type = type /\ e.cpp = cpp /\ e.py = py /\ e.runs = runs
      /\ e.marks = marks /\ e.bare_int = FALSE
  BY DEF Node, OperandShape
<1> QED
  BY <1>1 DEF TypedOperand

(***************************************************************************)
(* A text in a call that widens it.                                        *)
(***************************************************************************)
LEMMA WrappedIs ==
  ASSUME NEW e, OperandShape(e)
  PROVE  /\ LET w == Wrapped(e, "py::to_int") IN
            /\ w.cpp = (IF e.cpp \in {"py::bool_", "py::int_"} THEN "py::int_" ELSE IllFormed)
            /\ w.runs = {Mapped(r, to_int) : r \in e.runs}
         /\ LET w == Wrapped(e, "py::to_float") IN
            /\ w.cpp = (IF e.cpp \in Comparable THEN "py::float_" ELSE IllFormed)
            /\ w.runs = {Mapped(r, to_float) : r \in e.runs}
         /\ Wrapped(e, "nullptr") = e
BY DEF Wrapped, OperandShape

\* The operand of an arithmetic operator: only a bool is converted.
LEMMA OperandWidenedIs ==
  ASSUME NEW e, TypedOperand(e), NEW t \in Scalars
  PROVE  LET w == OperandWidened(e, t)
             widens == e.type.kind = "Bool" /\ t.kind # "Bool"
         IN /\ ~widens => w = e
            /\ "narrowed" \notin e.marks /\ widens => w.cpp = "py::int_"
            /\ widens => w.runs = {Mapped(r, to_int) : r \in e.runs}
<1>1. OperandShape(e) /\ e.type \in Scalars /\ ("narrowed" \notin e.marks => e.cpp = cpp_type_name(e.type))
  BY DEF TypedOperand
<1> DEFINE v == Wrapped(e, "py::to_int")
<1>2. /\ v.cpp = (IF e.cpp \in {"py::bool_", "py::int_"} THEN "py::int_" ELSE IllFormed)
      /\ v.runs = {Mapped(r, to_int) : r \in e.runs}
  BY <1>1, WrappedIs
<1>3. OperandWidened(e, t) = IF e.type.kind = "Bool" /\ t.kind # "Bool" THEN v ELSE e
  BY DEF OperandWidened
<1>4. e.type.kind = "Bool" => cpp_type_name(e.type) = "py::bool_"
  BY <1>1, ScalarIs, NamesOfTypes
<1> HIDE DEF v
<1> QED
  BY <1>1, <1>2, <1>3, <1>4

\* The C++ types, which tell the scalars apart.
LEMMA NumberNames ==
  ASSUME NEW t \in Scalars
  PROVE  /\ t.kind = "Bool" => cpp_type_name(t) = "py::bool_"
         /\ t.kind = "Int" => cpp_type_name(t) = "py::int_"
         /\ t.kind = "Float" => cpp_type_name(t) = "py::float_"
         /\ t.kind = "Str" => cpp_type_name(t) = "py::str"
         /\ t.kind = "NoneType" => cpp_type_name(t) = "py::none_t"
         /\ cpp_type_name(t) = "py::bool_" => t.kind = "Bool"
         /\ cpp_type_name(t) # IllFormed
<1>1. t.kind \in ScalarKinds /\ t = of(t.kind)
  BY ScalarIs
<1> QED
  BY <1>1, NamesOfTypes DEF ScalarKinds, IllFormed

\* The C++ type of an operand once it stands under an operator with a result of type t.
UnderOperator(kind) == IF kind = "Float" THEN "py::float_" ELSE IF kind = "Str" THEN "py::str" ELSE "py::int_"

\* The C++ type of that operand.
LEMMA WidenedName ==
  ASSUME NEW e, TypedOperand(e), NEW t \in Scalars, t.kind # "Bool", "narrowed" \notin e.marks,
         e.type.kind # "NoneType"
  PROVE  OperandWidened(e, t).cpp = UnderOperator(e.type.kind)
<1>1. e.type \in Scalars /\ e.cpp = cpp_type_name(e.type)
  BY DEF TypedOperand
<1>2. e.type.kind \in ScalarKinds
  BY <1>1, ScalarIs
<1> QED
  BY <1>1, <1>2, OperandWidenedIs, NumberNames DEF UnderOperator, ScalarKinds

\* The step of a literal.
LEMMA TypedConstant ==
  ASSUME TypedInv, Constant
  PROVE  TypedInv'
<1>1. PICK v \in Literals : Replace(0, Literal(v))
  BY DEF Constant
<1> DEFINE e == Literal(v)
           fits == v.tag # "Int" \/ v.n <= MaxInt
<1>2. /\ e.type = of(v.tag) /\ e.cpp = cpp_type_name(of(v.tag)) /\ e.py = Outcome(<<>>, v)
      /\ e.bare_int = (v.tag = "Int") /\ OperandShape(e) /\ e.marks = (IF fits THEN {} ELSE {"limit"})
  BY DEF Literal, OperandShape
<1>3. v.tag \in ScalarKinds
  <2>1. \/ v \in {bool_(TRUE), bool_(FALSE), none}
        \/ v.n \in Nat /\ v \in {int_(v.n), str(v.n)}
        \/ v.n \in Nat /\ v.d \in Nat \ {0} /\ v = Round(v.n, v.d)
    BY LiteralsAssumption
  <2> QED
    BY <2>1, TagsOfResults DEF bool_, none, int_, str, ScalarKinds
<1>4. of(v.tag) \in Scalars /\ of(v.tag).kind = v.tag /\ v.tag \in Admits(v.tag)
  BY <1>3, ScalarOf, AdmitsIs DEF ScalarKinds
<1>5. e.py.value = v
  BY <1>2 DEF Outcome
<1> HIDE DEF e
<1>6. TypedOperand(e)
  BY <1>2, <1>4, <1>5, NumberNames DEF TypedOperand
<1>7. 0 <= Len(operands)
  BY DEF TypedInv, IsStack
<1> QED
  BY <1>1, <1>6, <1>7, TypedPush DEF e

\* The step of a name: the slot's declared type is the text's, its narrowed type the checker's.
LEMMA TypedName ==
  ASSUME TypedInv, Name
  PROVE  TypedInv'
<1>1. PICK x \in Names :
        /\ IsBound(x)
        /\ Replace(0, [type |-> slots[x].read, cpp |-> cpp_type_name(slots[x].declared),
                       py |-> Outcome(<<>>, slots[x].py), runs |-> {Outcome(<<>>, slots[x].cpp)},
                       bare_int |-> FALSE,
                       marks |-> slots[x].marks \union
                                   (IF slots[x].read = slots[x].declared THEN {}
                                    ELSE {"narrowed"})])
  BY DEF Name
<1> DEFINE s == slots[x]
           e == [type |-> s.read, cpp |-> cpp_type_name(s.declared), py |-> Outcome(<<>>, s.py),
                 runs |-> {Outcome(<<>>, s.cpp)}, bare_int |-> FALSE,
                 marks |-> s.marks \union (IF s.read = s.declared THEN {} ELSE {"narrowed"})]
<1>2. Replace(0, e)
  BY <1>1
<1>3. TypedSlot(s)
  BY <1>1 DEF TypedInv, SetSlots
<1>4. /\ e.type = s.read /\ e.cpp = cpp_type_name(s.declared) /\ e.py.value = s.py
      /\ e.bare_int = FALSE /\ OperandShape(e)
      /\ e.marks = s.marks \union (IF s.read = s.declared THEN {} ELSE {"narrowed"})
  BY DEF Outcome, OperandShape
<1> HIDE DEF s, e
<1>5. /\ s.declared \in Scalars /\ s.read \in Scalars /\ s.read.kind \in Admits(s.declared.kind)
      /\ s.py.tag \in Admits(s.read.kind) /\ "limit" \notin s.marks
  BY <1>3 DEF TypedSlot
<1>6. e.cpp = "py::bool_" => s.py.tag = "Bool"
  BY <1>4, <1>5, NumberNames, AdmitsIs
<1>7. "narrowed" \notin e.marks => s.read = s.declared
  BY <1>4
<1>8. TypedOperand(e)
  BY <1>4, <1>5, <1>6, <1>7 DEF TypedOperand
<1>9. 0 <= Len(operands)
  BY DEF TypedInv, IsStack
<1> QED
  BY <1>2, <1>8, <1>9, TypedPush

\* The step of a unary operator.
LEMMA TypedUnaryOp ==
  ASSUME TypedInv, UnaryOp
  PROVE  TypedInv'
<1> DEFINE e == Top(0)
<1>1. PICK op \in {"+", "-", "not"} :
        LET result == unary_result(op, e.type)
            operand == IF op = "not" THEN e ELSE OperandWidened(e, result.type)
        IN /\ result.status = "Ok"
           /\ Replace(1, Node(result.type, UnaryOverload(op, operand.cpp),
                              Mapped(e.py, LAMBDA v : PyUnary(op, v)),
                              {Mapped(r, LAMBDA v : UnaryRun(op, v)) : r \in operand.runs},
                              IF "limit" \in e.marks THEN {"trapped"} ELSE e.marks))
  BY DEF UnaryOp
<1>2. IsStack /\ Len(operands) \in Nat /\ 0 < Len(operands) /\ 1 <= Len(operands)
  BY DEF TypedInv, IsStack, UnaryOp
<1>3. TypedOperand(e)
  BY <1>2, TypedTop
<1> DEFINE result == unary_result(op, e.type)
           operand == IF op = "not" THEN e ELSE OperandWidened(e, result.type)
           py == Mapped(e.py, LAMBDA v : PyUnary(op, v))
           runs == {Mapped(r, LAMBDA v : UnaryRun(op, v)) : r \in operand.runs}
           marks == IF "limit" \in e.marks THEN {"trapped"} ELSE e.marks
           new == Node(result.type, UnaryOverload(op, operand.cpp), py, runs, marks)
<1>4. Replace(1, new) /\ result.status = "Ok"
  BY <1>1
<1> HIDE DEF e
<1>5. e.type \in Scalars /\ (Failed(e.py.value) \/ e.py.value.tag \in Admits(e.type.kind))
      /\ ("narrowed" \notin e.marks => e.cpp = cpp_type_name(e.type))
  BY <1>3 DEF TypedOperand
<1>6. /\ result.type \in Scalars
      /\ op = "not" => result.type = of("Bool")
      /\ op # "not" => e.type.kind \in Numbers /\ result.type = of(IF e.type.kind = "Float" THEN "Float" ELSE "Int")
  BY <1>4, <1>5, UnaryTypes
<1>7. Failed(py.value) \/ py.value.tag \in Admits(result.type.kind)
  <2>1. CASE Failed(e.py.value)
    <3>1. py = e.py
      BY <2>1 DEF Mapped
    <3> QED
      BY <2>1, <3>1
  <2>2. CASE ~Failed(e.py.value)
    <3>1. py.value = PyUnary(op, e.py.value)
      BY <2>2 DEF Mapped, Outcome
    <3> QED
      BY <1>4, <1>5, <2>2, <3>1, UnaryClass
  <2> QED
    BY <2>1, <2>2
<1>8. \A k \in ScalarKinds : of(k) \in Scalars /\ of(k).kind = k
  BY ScalarOf
<1>9. "narrowed" \notin e.marks => UnaryOverload(op, operand.cpp) = cpp_type_name(result.type)
  <2>1. CASE op = "not"
    BY <1>6, <2>1, NamesOfTypes DEF UnaryOverload
  <2>2. CASE op # "not" /\ "narrowed" \notin e.marks
    <3>1. result.type.kind = (IF e.type.kind = "Float" THEN "Float" ELSE "Int")
      BY <1>6, <1>8, <2>2 DEF ScalarKinds
    <3>2. operand.cpp = UnderOperator(e.type.kind)
      BY <1>3, <1>6, <2>2, <3>1, WidenedName DEF Numbers
    <3> HIDE DEF operand, result
    <3>3. operand.cpp = (IF e.type.kind = "Float" THEN "py::float_" ELSE "py::int_")
      BY <1>6, <2>2, <3>2 DEF UnderOperator, Numbers
    <3>4. cpp_type_name(result.type) = (IF e.type.kind = "Float" THEN "py::float_" ELSE "py::int_")
      BY <1>6, <2>2, NamesOfTypes
    <3> QED
      BY <2>2, <3>3, <3>4 DEF UnaryOverload, Numeric
  <2> QED
    BY <2>1, <2>2
<1>10. UnaryOverload(op, operand.cpp) = "py::bool_" => op = "not"
  BY DEF UnaryOverload, Numeric, IllFormed
<1> HIDE DEF result, operand, py, runs
<1>11. marks = (IF "limit" \in e.marks THEN {"trapped"} ELSE e.marks)
  OBVIOUS
<1> HIDE DEF marks
<1>12. TypedOperand(new)
  <2> DEFINE type == result.type
             cpp == UnaryOverload(op, operand.cpp)
  <2>1. new = Node(type, cpp, py, runs, marks) /\ type \in Scalars
    BY <1>6
  <2>2. cpp = "py::bool_" => Failed(py.value) \/ py.value.tag = "Bool"
    BY <1>6, <1>7, <1>8, <1>10, AdmitsIs DEF ScalarKinds
  <2>3. "limit" \in e.marks => e.marks = {"limit"}
    BY <1>3 DEF TypedOperand
  <2>4. "limit" \notin marks /\ ("narrowed" \notin marks => cpp = cpp_type_name(type))
    BY <1>9, <1>11, <2>3
  <2>5. Failed(py.value) \/ py.value.tag \in Admits(type.kind)
    BY <1>7
  <2> HIDE DEF new, type, cpp
  <2> QED
    BY <2>1, <2>2, <2>4, <2>5, TypedNode
<1> QED
  BY <1>2, <1>4, <1>12, TypedPush

(***************************************************************************)
(* Which values the outcomes of CPython's side are made from.              *)
(***************************************************************************)
LEMMA ComparedIsBool ==
  ASSUME NEW op \in {"<", "=="}, NEW a, NEW b
  PROVE  PyCompare(op, a, b).tag = "Bool"
BY TagsOfResults DEF PyCompare, bool_

\* A comparison's operands are ready.
LEMMA ReadyIs ==
  ASSUME TypedInv, NEW count \in Nat, Ready(count), NEW k \in Nat, k < count
  PROVE  /\ TypedOperand(Top(k)) /\ "limit" \notin Top(k).marks /\ Top(k) \in Operands
         /\ count <= Len(operands)
<1>1. IsStack /\ Len(operands) \in Nat /\ count <= Len(operands) /\ k < Len(operands)
  BY DEF TypedInv, IsStack, Ready
<1>2. Top(k) \in Operands /\ TypedOperand(Top(k))
  BY <1>1, TypedTop
<1>3. "limit" \notin Top(k).marks
  BY <1>1 DEF Ready, Top, IsStack
<1> QED
  BY <1>1, <1>2, <1>3

\* The overload chosen for two numbers.
LEMMA OverloadOfNumbers ==
  ASSUME NEW op \in Operators, NEW c \in Numeric, NEW d \in Numeric, op = "**" => d = "py::int_"
  PROVE  BinaryOverload(op, c, d) =
           (IF op = "/" \/ "py::float_" \in {c, d} THEN "py::float_" ELSE "py::int_")
<1>1. {c, d} \subseteq Numeric /\ ("py::float_" \notin {c, d} => c = "py::int_")
  BY DEF Numeric
<1>2. CASE op = "**"
  <2>1. BinaryOverload(op, c, d) = c
    BY <1>2 DEF BinaryOverload
  <2> QED
    BY <1>1, <1>2, <2>1
<1>3. CASE op = "/"
  <2>1. BinaryOverload(op, c, d) = "py::float_"
    BY <1>1, <1>3 DEF BinaryOverload
  <2> QED
    BY <1>3, <2>1
<1>4. CASE op \notin {"**", "/"}
  <2>1. ~(op = "**" /\ c \in Numeric /\ d = "py::int_") /\ ~(op = "/" /\ {c, d} \subseteq Numeric)
    BY <1>4
  <2>2. ~(op = "+" /\ {c, d} = {"py::str"}) /\ ~(op = "*" /\ {c, d} = {"py::str", "py::int_"})
    BY <1>1 DEF Numeric
  <2>3. BinaryOverload(op, c, d) = IF "py::float_" \in {c, d} THEN "py::float_" ELSE "py::int_"
    BY <1>1, <1>4, <2>1, <2>2 DEF BinaryOverload
  <2> QED
    BY <1>4, <2>3
<1> QED
  BY <1>2, <1>3, <1>4

\* No arithmetic overload returns a bool_.
LEMMA OverloadIsNoBool ==
  ASSUME NEW op \in Operators, NEW c, NEW d
  PROVE  BinaryOverload(op, c, d) # "py::bool_"
BY DEF BinaryOverload, Numeric, IllFormed

\* The overload chosen returns the C++ type of the checker's type.
LEMMA BinaryName ==
  ASSUME NEW op \in Operators, NEW l \in Scalars, NEW r \in Scalars, NEW t \in Scalars,
         BinaryTyped(op, l, r, t), op = "**" => r.kind = "Int"
  PROVE  /\ t.kind # "Bool" /\ l.kind # "NoneType" /\ r.kind # "NoneType"
         /\ BinaryOverload(op, UnderOperator(l.kind), UnderOperator(r.kind)) = cpp_type_name(t)
         /\ \A c, d : BinaryOverload(op, c, d) # "py::bool_"
<1> DEFINE c == UnderOperator(l.kind)
           d == UnderOperator(r.kind)
<1>1. \A k \in ScalarKinds : of(k).kind = k
  BY ScalarOf
<1>2. t.kind # "Bool" /\ l.kind # "NoneType" /\ r.kind # "NoneType"
  BY <1>1 DEF BinaryTyped, ScalarKinds, Numbers
<1>3. ASSUME l.kind \in Numbers, r.kind \in Numbers
      PROVE  BinaryOverload(op, c, d) = cpp_type_name(t)
  <2>1. /\ c = (IF l.kind = "Float" THEN "py::float_" ELSE "py::int_")
        /\ d = (IF r.kind = "Float" THEN "py::float_" ELSE "py::int_")
    BY <1>3 DEF UnderOperator, Numbers
  <2>2. t = of(IF op = "/" \/ "Float" \in {l.kind, r.kind} THEN "Float" ELSE "Int")
    BY <1>3 DEF BinaryTyped, Numbers
  <2> HIDE DEF c, d
  <2>3. c \in Numeric /\ d \in Numeric
    BY <2>1 DEF Numeric
  <2>4. op = "**" => d = "py::int_"
    BY <2>1
  <2>5. BinaryOverload(op, c, d) =
          (IF op = "/" \/ "py::float_" \in {c, d} THEN "py::float_" ELSE "py::int_")
    BY <2>3, <2>4, OverloadOfNumbers
  <2>6. ("py::float_" \in {c, d}) <=> ("Float" \in {l.kind, r.kind})
    BY <2>1
  <2>7. op = "/" \/ "Float" \in {l.kind, r.kind} => BinaryOverload(op, c, d) = cpp_type_name(t)
    BY <2>2, <2>5, <2>6, NamesOfTypes
  <2>8. ~(op = "/" \/ "Float" \in {l.kind, r.kind}) => BinaryOverload(op, c, d) = cpp_type_name(t)
    BY <2>2, <2>5, <2>6, NamesOfTypes
  <2> QED
    BY <2>7, <2>8 DEF c, d
<1>4. ASSUME ~(l.kind \in Numbers /\ r.kind \in Numbers)
      PROVE  BinaryOverload(op, c, d) = cpp_type_name(t)
  <2>1. /\ t = of("Str") /\ op \in {"+", "*"}
        /\ op = "+" => c = "py::str" /\ d = "py::str"
        /\ op = "*" => {c, d} = {"py::str", "py::int_"}
    BY <1>4 DEF BinaryTyped, UnderOperator, Numbers
  <2> HIDE DEF c, d
  <2>2. ~({c, d} \subseteq Numeric)
    BY <2>1 DEF Numeric
  <2>3. BinaryOverload(op, c, d) = "py::str"
    <3>1. CASE op = "+"
      BY <2>1, <2>2, <3>1 DEF BinaryOverload
    <3>2. CASE op = "*"
      BY <2>1, <2>2, <3>2 DEF BinaryOverload
    <3> QED
      BY <2>1, <3>1, <3>2
  <2> QED
    BY <2>1, <2>3, NamesOfTypes
<1>5. \A g, h : BinaryOverload(op, g, h) # "py::bool_"
  BY OverloadIsNoBool
<1> QED
  BY <1>2, <1>3, <1>4, <1>5

\* The step of a binary operator.
LEMMA TypedBinOp ==
  ASSUME TypedInv, BinOp
  PROVE  TypedInv'
<1> DEFINE l == Top(1)
           r == Top(0)
<1>1. PICK op \in Operators :
        LET result == binary_result(op, l.type, r.type)
            lw == OperandWidened(l, result.type)
            rw == OperandWidened(r, result.type)
            marks == IF RoundedTwice(op, l.py.value, r.py.value) THEN {"rounded"} ELSE {}
        IN /\ result.status = "Ok" /\ Representable(result.type)
           /\ op = "%" => l.type.kind # "Str"
           /\ op = "**" => /\ r.bare_int /\ r.py.value.n <= MaxExponent
                           /\ Representable(l.type)
           /\ Replace(2, Node(result.type, BinaryOverload(op, lw.cpp, rw.cpp),
                              Then(l.py, r.py, LAMBDA a, b : PyBinary(op, a, b)),
                              AsArguments(lw.runs, rw.runs, LAMBDA a, b : BinaryRun(op, a, b)),
                              PairMarks(l, r) \union marks))
  BY DEF BinOp, Operators
<1>2. /\ TypedOperand(l) /\ "limit" \notin l.marks /\ TypedOperand(r) /\ "limit" \notin r.marks
      /\ 2 <= Len(operands)
  <2>1. Ready(2)
    BY Zenon DEF BinOp
  <2>2. TypedOperand(Top(1)) /\ "limit" \notin Top(1).marks /\ 2 <= Len(operands)
    BY <2>1, ReadyIs
  <2>3. TypedOperand(Top(0)) /\ "limit" \notin Top(0).marks
    BY <2>1, ReadyIs
  <2> QED
    BY <2>2, <2>3
<1> DEFINE result == binary_result(op, l.type, r.type)
           lw == OperandWidened(l, result.type)
           rw == OperandWidened(r, result.type)
           rounded == IF RoundedTwice(op, l.py.value, r.py.value) THEN {"rounded"} ELSE {}
           py == Then(l.py, r.py, LAMBDA a, b : PyBinary(op, a, b))
           runs == AsArguments(lw.runs, rw.runs, LAMBDA a, b : BinaryRun(op, a, b))
           marks == PairMarks(l, r) \union rounded
           type == result.type
           cpp == BinaryOverload(op, lw.cpp, rw.cpp)
           new == Node(type, cpp, py, runs, marks)
<1>3. /\ Replace(2, new) /\ result.status = "Ok"
      /\ op = "%" => l.type.kind # "Str"
      /\ op = "**" => r.bare_int
  BY <1>1
<1>4. "limit" \notin marks /\ ("narrowed" \notin marks => "narrowed" \notin l.marks /\ "narrowed" \notin r.marks)
  BY <1>2 DEF PairMarks
<1>5. ~Failed(py.value) => /\ ~Failed(l.py.value) /\ ~Failed(r.py.value)
                           /\ py.value = PyBinary(op, l.py.value, r.py.value)
  BY DEF Then, Outcome
<1> HIDE DEF l, r, py, runs, marks
<1>6. /\ l.type \in Scalars /\ (Failed(l.py.value) \/ l.py.value.tag \in Admits(l.type.kind))
      /\ r.type \in Scalars /\ (Failed(r.py.value) \/ r.py.value.tag \in Admits(r.type.kind))
      /\ (r.bare_int => r.type = of("Int"))
  BY <1>2 DEF TypedOperand
<1>7. type \in Scalars /\ BinaryTyped(op, l.type, r.type, type)
  BY <1>3, <1>6, BinaryTypes
<1>8. op = "**" => r.type.kind = "Int"
  BY <1>3, <1>6, ScalarOf DEF ScalarKinds
<1> HIDE DEF result, type
<1>9. /\ type.kind # "Bool" /\ l.type.kind # "NoneType" /\ r.type.kind # "NoneType"
      /\ BinaryOverload(op, UnderOperator(l.type.kind), UnderOperator(r.type.kind)) = cpp_type_name(type)
      /\ cpp # "py::bool_"
  BY <1>6, <1>7, <1>8, BinaryName
<1>10. "narrowed" \notin marks => cpp = cpp_type_name(type)
  <2>1. lw = OperandWidened(l, type) /\ rw = OperandWidened(r, type)
    BY DEF type
  <2>2. "narrowed" \notin marks => lw.cpp = UnderOperator(l.type.kind) /\ rw.cpp = UnderOperator(r.type.kind)
    BY <1>2, <1>4, <1>7, <1>9, <2>1, WidenedName
  <2> QED
    BY <1>9, <2>2
<1>11. Failed(py.value) \/ py.value.tag \in Admits(type.kind)
  BY <1>5, <1>6, <1>7, BinaryClass
<1>12. TypedOperand(new)
  <2>1. new = Node(type, cpp, py, runs, marks)
    OBVIOUS
  <2> HIDE DEF new, cpp
  <2> QED
    BY <1>4, <1>7, <1>9, <1>10, <1>11, <2>1, TypedNode
<1> QED
  BY <1>2, <1>3, <1>12, TypedPush

\* Two comparable operands have a comparison.
LEMMA CompareName ==
  ASSUME NEW l \in Scalars, NEW r \in Scalars, comparison_operands_are_runtime_comparable(l, r)
  PROVE  CompareOverload(cpp_type_name(l), cpp_type_name(r)) = "py::bool_"
<1>1. CASE l.kind \in Numbers /\ r.kind \in Numbers
  <2>1. cpp_type_name(l) \in Comparable /\ cpp_type_name(r) \in Comparable
    BY <1>1, NumberNames DEF Numbers, Comparable, Numeric
  <2> QED
    BY <2>1 DEF CompareOverload
<1>2. CASE l.kind = "Str" /\ r.kind = "Str"
  <2>1. cpp_type_name(l) = "py::str" /\ cpp_type_name(r) = "py::str"
    BY <1>2, NumberNames
  <2> QED
    BY <2>1 DEF CompareOverload
<1> QED
  BY <1>1, <1>2, ComparableTypes

\* The step of a comparison.
LEMMA TypedCompare ==
  ASSUME TypedInv, Compare
  PROVE  TypedInv'
<1> DEFINE l == Top(1)
           r == Top(0)
<1>1. PICK op \in {"<", "=="} :
        LET result == comparison_result(op, l.type, r.type)
        IN /\ result.status = "Ok"
           /\ comparison_operands_are_runtime_comparable(l.type, r.type)
           /\ Replace(2, Node(result.type, CompareOverload(l.cpp, r.cpp),
                              Then(l.py, r.py, LAMBDA a, b : PyCompare(op, a, b)),
                              AsArguments(l.runs, r.runs, LAMBDA a, b : CompareRun(op, l, r, a, b)),
                              PairMarks(l, r)))
  BY DEF Compare
<1>2. /\ TypedOperand(l) /\ "limit" \notin l.marks /\ TypedOperand(r) /\ "limit" \notin r.marks
      /\ 2 <= Len(operands)
  <2>1. Ready(2)
    BY Zenon DEF Compare
  <2>2. TypedOperand(Top(1)) /\ "limit" \notin Top(1).marks /\ 2 <= Len(operands)
    BY <2>1, ReadyIs
  <2>3. TypedOperand(Top(0)) /\ "limit" \notin Top(0).marks
    BY <2>1, ReadyIs
  <2> QED
    BY <2>2, <2>3
<1> DEFINE type == comparison_result(op, l.type, r.type).type
           cpp == CompareOverload(l.cpp, r.cpp)
           py == Then(l.py, r.py, LAMBDA a, b : PyCompare(op, a, b))
           runs == AsArguments(l.runs, r.runs, LAMBDA a, b : CompareRun(op, l, r, a, b))
           marks == PairMarks(l, r)
           new == Node(type, cpp, py, runs, marks)
<1>3. /\ Replace(2, new) /\ comparison_result(op, l.type, r.type).status = "Ok"
      /\ comparison_operands_are_runtime_comparable(l.type, r.type)
  BY <1>1
<1>4. "limit" \notin marks /\ ("narrowed" \notin marks => "narrowed" \notin l.marks /\ "narrowed" \notin r.marks)
  BY <1>2 DEF PairMarks
<1>5. Failed(py.value) \/ py.value.tag = "Bool"
  <2>1. \/ py = l.py /\ Failed(l.py.value)
        \/ py.value = r.py.value /\ Failed(r.py.value)
        \/ py.value = PyCompare(op, l.py.value, r.py.value)
    BY DEF Then, Outcome
  <2> HIDE DEF py
  <2> QED
    BY <2>1, ComparedIsBool
<1> HIDE DEF l, r, py, runs
<1>6. l.type \in Scalars /\ r.type \in Scalars
      /\ ("narrowed" \notin l.marks => l.cpp = cpp_type_name(l.type))
      /\ ("narrowed" \notin r.marks => r.cpp = cpp_type_name(r.type))
  BY <1>2 DEF TypedOperand
<1>7. type = of("Bool") /\ type \in Scalars /\ type.kind = "Bool"
  BY <1>3, <1>6, ComparisonTypes, ScalarOf DEF ScalarKinds
<1>8. "narrowed" \notin marks => cpp = "py::bool_"
  BY <1>3, <1>4, <1>6, CompareName
<1>9. TypedOperand(new)
  <2>1. new = Node(type, cpp, py, runs, marks)
    OBVIOUS
  <2>2. "narrowed" \notin marks => cpp = cpp_type_name(type)
    BY <1>7, <1>8, NamesOfTypes
  <2>3. Failed(py.value) \/ py.value.tag \in Admits(type.kind)
    BY <1>5, <1>7, AdmitsIs
  <2> HIDE DEF new, cpp, type, marks
  <2> QED
    BY <1>4, <1>5, <1>7, <2>1, <2>2, <2>3, TypedNode
<1> HIDE DEF new
<1> QED
  BY <1>2, <1>3, <1>9, TypedPush

\* The step of a chain of two.
LEMMA TypedCompareChain ==
  ASSUME TypedInv, CompareChain
  PROVE  TypedInv'
<1> DEFINE a == Top(2)
           b == Top(1)
           c == Top(0)
           overloads == {CompareOverload(a.cpp, b.cpp), CompareOverload(b.cpp, c.cpp)}
           cpp == IF IllFormed \in overloads THEN IllFormed ELSE "py::bool_"
           py == Links(a.py, b.py, c.py, LAMBDA v, w : PyCompare("<", v, w),
                       LAMBDA v, w : PyCompare("==", v, w))
           runs == {Links(run[1], run[2], run[3],
                          LAMBDA v, w : CompareRun("<", a, b, v, w),
                          LAMBDA v, w : CompareRun("==", b, c, v, w))
                      : run \in a.runs \X b.runs \X c.runs}
           marks == a.marks \union b.marks \union c.marks
           new == Node(of("Bool"), cpp, py, runs, marks)
<1>1. /\ Replace(3, new) /\ comparison_operands_are_runtime_comparable(a.type, b.type)
      /\ comparison_operands_are_runtime_comparable(b.type, c.type)
  BY Zenon DEF CompareChain
<1>2. /\ TypedOperand(a) /\ "limit" \notin a.marks /\ TypedOperand(b) /\ "limit" \notin b.marks
      /\ TypedOperand(c) /\ "limit" \notin c.marks /\ 3 <= Len(operands)
  <2>1. Ready(3)
    BY Zenon DEF CompareChain
  <2>2. TypedOperand(Top(2)) /\ "limit" \notin Top(2).marks /\ 3 <= Len(operands)
    BY <2>1, ReadyIs
  <2>3. TypedOperand(Top(1)) /\ "limit" \notin Top(1).marks
    BY <2>1, ReadyIs
  <2>4. TypedOperand(Top(0)) /\ "limit" \notin Top(0).marks
    BY <2>1, ReadyIs
  <2> QED
    BY <2>2, <2>3, <2>4
<1>3. Failed(py.value) \/ py.value.tag = "Bool"
  <2> DEFINE link == Then(a.py, b.py, LAMBDA v, w : PyCompare("<", v, w))
             rest == Then(Outcome(link.trace, b.py.value), c.py, LAMBDA v, w : PyCompare("==", v, w))
  <2>1. py = IF Failed(link.value) \/ ~truthy(link.value) THEN link ELSE rest
    BY DEF Links
  <2>2. \/ link = a.py /\ Failed(a.py.value)
        \/ link.value = b.py.value /\ Failed(b.py.value)
        \/ link.value = PyCompare("<", a.py.value, b.py.value)
    BY DEF Then, Outcome
  <2>3. \/ rest.value = b.py.value /\ Failed(b.py.value)
        \/ rest.value = c.py.value /\ Failed(c.py.value)
        \/ rest.value = PyCompare("==", b.py.value, c.py.value)
    BY DEF Then, Outcome
  <2>6. py = link \/ py = rest
    BY <2>1
  <2> HIDE DEF link, rest, py
  <2>4. Failed(link.value) \/ link.value.tag = "Bool"
    BY <2>2, ComparedIsBool
  <2>5. Failed(rest.value) \/ rest.value.tag = "Bool"
    BY <2>3, ComparedIsBool
  <2> QED
    BY <2>4, <2>5, <2>6
<1> HIDE DEF a, b, c, py, runs
<1>4. /\ a.type \in Scalars /\ b.type \in Scalars /\ c.type \in Scalars
      /\ ("narrowed" \notin a.marks => a.cpp = cpp_type_name(a.type))
      /\ ("narrowed" \notin b.marks => b.cpp = cpp_type_name(b.type))
      /\ ("narrowed" \notin c.marks => c.cpp = cpp_type_name(c.type))
  BY <1>2 DEF TypedOperand
<1>5. "narrowed" \notin marks => cpp = "py::bool_"
  <2> SUFFICES ASSUME "narrowed" \notin marks PROVE cpp = "py::bool_"
    OBVIOUS
  <2>1. CompareOverload(a.cpp, b.cpp) = "py::bool_"
    BY <1>1, <1>4, CompareName
  <2>2. CompareOverload(b.cpp, c.cpp) = "py::bool_"
    BY <1>1, <1>4, CompareName
  <2> QED
    BY <2>1, <2>2 DEF IllFormed
<1>6. "limit" \notin marks
  BY <1>2
<1> HIDE DEF overloads, cpp, marks
<1>7. TypedOperand(new)
  <2>1. new = Node(of("Bool"), cpp, py, runs, marks)
    OBVIOUS
  <2> HIDE DEF new
  <2>2. of("Bool") \in Scalars /\ of("Bool").kind = "Bool"
    BY ScalarOf DEF ScalarKinds
  <2>3. "narrowed" \notin marks => cpp = cpp_type_name(of("Bool"))
    BY <1>5, NamesOfTypes
  <2>4. Failed(py.value) \/ py.value.tag \in Admits(of("Bool").kind)
    BY <1>3, <2>2, AdmitsIs
  <2> QED
    BY <1>3, <1>6, <2>1, <2>2, <2>3, <2>4, TypedNode
<1> HIDE DEF new
<1> QED
  BY <1>1, <1>2, <1>7, TypedPush

\* The step of and/or.
LEMMA TypedBoolOp ==
  ASSUME TypedInv, BoolOp
  PROVE  TypedInv'
<1> DEFINE l == Top(1)
           r == Top(0)
<1>1. PICK op \in {"and", "or"} :
        LET result == boolop_result(<<l.type, r.type>>)
        IN /\ result.status = "Ok" /\ Representable(result.type)
           /\ Replace(2, Node(result.type, LogicOverload(l.cpp, r.cpp), PyLogic(op, l.py, r.py),
                              {Logic(op, pair[1], pair[2]) : pair \in l.runs \X r.runs},
                              l.marks \union r.marks))
  BY DEF BoolOp
<1>2. /\ TypedOperand(l) /\ "limit" \notin l.marks /\ TypedOperand(r) /\ "limit" \notin r.marks
      /\ 2 <= Len(operands)
  <2>1. Ready(2)
    BY Zenon DEF BoolOp
  <2>2. TypedOperand(Top(1)) /\ "limit" \notin Top(1).marks /\ 2 <= Len(operands)
    BY <2>1, ReadyIs
  <2>3. TypedOperand(Top(0)) /\ "limit" \notin Top(0).marks
    BY <2>1, ReadyIs
  <2> QED
    BY <2>2, <2>3
<1> DEFINE type == boolop_result(<<l.type, r.type>>).type
           cpp == LogicOverload(l.cpp, r.cpp)
           py == PyLogic(op, l.py, r.py)
           runs == {Logic(op, pair[1], pair[2]) : pair \in l.runs \X r.runs}
           marks == l.marks \union r.marks
           new == Node(type, cpp, py, runs, marks)
<1>3. Replace(2, new) /\ Representable(type)
  BY <1>1
<1>4. "limit" \notin marks /\ ("narrowed" \notin marks => "narrowed" \notin l.marks /\ "narrowed" \notin r.marks)
  BY <1>2
<1>5. py.value = l.py.value \/ py.value = r.py.value
  BY DEF PyLogic, Outcome
<1> HIDE DEF l, r, py, runs
<1>6. /\ l.type \in Scalars /\ (Failed(l.py.value) \/ l.py.value.tag \in Admits(l.type.kind))
      /\ r.type \in Scalars /\ (Failed(r.py.value) \/ r.py.value.tag \in Admits(r.type.kind))
      /\ ("narrowed" \notin l.marks => l.cpp = cpp_type_name(l.type))
      /\ ("narrowed" \notin r.marks => r.cpp = cpp_type_name(r.type))
      /\ l.cpp = "py::bool_" => Failed(l.py.value) \/ l.py.value.tag = "Bool"
      /\ r.cpp = "py::bool_" => Failed(r.py.value) \/ r.py.value.tag = "Bool"
  BY <1>2 DEF TypedOperand
<1>7. l.type = r.type /\ type = l.type
  BY <1>3, <1>6, BoolopTypes
<1>8. "narrowed" \notin marks => cpp = cpp_type_name(type)
  BY <1>4, <1>6, <1>7 DEF LogicOverload
<1>9. cpp = "py::bool_" => l.cpp = "py::bool_" /\ r.cpp = "py::bool_"
  BY DEF LogicOverload, IllFormed
<1> HIDE DEF type, cpp, marks
<1>10. TypedOperand(new)
  <2>1. new = Node(type, cpp, py, runs, marks)
    OBVIOUS
  <2> HIDE DEF new
  <2>2. cpp = "py::bool_" => Failed(py.value) \/ py.value.tag = "Bool"
    BY <1>5, <1>6, <1>9
  <2>3. type \in Scalars /\ (Failed(py.value) \/ py.value.tag \in Admits(type.kind))
    BY <1>5, <1>6, <1>7
  <2> QED
    BY <1>4, <1>8, <2>1, <2>2, <2>3, TypedNode
<1> HIDE DEF new
<1> QED
  BY <1>2, <1>3, <1>10, TypedPush

\* The widening between two scalar types.
LEMMA WideningIs ==
  ASSUME NEW s \in Scalars, NEW t \in Scalars
  PROVE  numeric_widening_function(s, t) =
           IF s.kind = "Bool" /\ t.kind = "Int" THEN "py::to_int"
           ELSE IF s.kind \in {"Bool", "Int"} /\ t.kind = "Float" THEN "py::to_float"
           ELSE "nullptr"
<1> DEFINE a == numeric_rank(s.kind)
           b == numeric_rank(t.kind)
<1>1. numeric_widening_function(s, t) =
        IF 0 \in {a, b} \/ a >= b THEN "nullptr"
        ELSE IF t.kind = "Int" THEN "py::to_int" ELSE "py::to_float"
  BY DEF numeric_widening_function
<1>2. s.kind \in ScalarKinds /\ t.kind \in ScalarKinds
  BY ScalarIs
<1>3. /\ a = (IF s.kind = "Bool" THEN 1 ELSE IF s.kind = "Int" THEN 2 ELSE IF s.kind = "Float" THEN 3 ELSE 0)
      /\ b = (IF t.kind = "Bool" THEN 1 ELSE IF t.kind = "Int" THEN 2 ELSE IF t.kind = "Float" THEN 3 ELSE 0)
  BY <1>2, RankIs DEF ScalarKinds
<1> HIDE DEF a, b
<1> QED
  BY <1>1, <1>2, <1>3 DEF ScalarKinds

\* What a slot or a parameter is passed is of its type, unless the name read is narrowed.
LEMMA StoresIs ==
  ASSUME NEW e, TypedOperand(e), NEW t \in Scalars, ValueFits(e, t), "narrowed" \notin e.marks
  PROVE  Stores(e, t)
<1>1. e.type \in Scalars /\ OperandShape(e) /\ e.cpp = cpp_type_name(e.type)
  BY DEF TypedOperand
<1> DEFINE w == numeric_widening_function(e.type, t)
<1>2. w = IF e.type.kind = "Bool" /\ t.kind = "Int" THEN "py::to_int"
          ELSE IF e.type.kind \in {"Bool", "Int"} /\ t.kind = "Float" THEN "py::to_float"
          ELSE "nullptr"
  BY <1>1, WideningIs
<1>3. w # "nullptr" \/ e.cpp = cpp_type_name(t)
  BY <1>1 DEF ValueFits
<1>4. ValueWidened(e, t) = Wrapped(e, w)
  BY DEF ValueWidened
<1> HIDE DEF w
<1> SUFFICES Wrapped(e, w).cpp = cpp_type_name(t)
  BY <1>4 DEF Stores
<1>5. CASE e.type.kind = "Bool" /\ t.kind = "Int"
  <2>1. w = "py::to_int" /\ e.cpp = "py::bool_" /\ cpp_type_name(t) = "py::int_"
    BY <1>1, <1>2, <1>5, NumberNames
  <2>2. Wrapped(e, "py::to_int").cpp = IF e.cpp \in {"py::bool_", "py::int_"} THEN "py::int_" ELSE IllFormed
    BY <1>1, WrappedIs
  <2> QED
    BY <2>1, <2>2
<1>6. CASE e.type.kind \in {"Bool", "Int"} /\ t.kind = "Float"
  <2>1. w = "py::to_float" /\ e.cpp \in {"py::bool_", "py::int_"} /\ cpp_type_name(t) = "py::float_"
    BY <1>1, <1>2, <1>6, NumberNames
  <2>2. Wrapped(e, "py::to_float").cpp = IF e.cpp \in Comparable THEN "py::float_" ELSE IllFormed
    BY <1>1, WrappedIs
  <2>3. e.cpp \in Comparable
    BY <2>1 DEF Comparable, Numeric
  <2> QED
    BY <2>1, <2>2, <2>3
<1>7. CASE w = "nullptr"
  <2>1. Wrapped(e, "nullptr") = e
    BY <1>1, WrappedIs
  <2> QED
    BY <1>3, <1>7, <2>1
<1> QED
  BY <1>2, <1>5, <1>6, <1>7

\* The step of a call: the argument is checked against the parameter, the result is the object
\* of a type below.
LEMMA TypedCall ==
  ASSUME TypedInv, Call
  PROVE  TypedInv'
<1> DEFINE e == Top(0)
           Calls(f, o) == IF Failed(o.value) THEN o ELSE Outcome(Append(o.trace, f), o.value)
<1>1. PICK f \in DOMAIN Defs :
        /\ is_subtype(e.type, Defs[f][1], NoClasses)
        /\ ValueFits(e, Defs[f][1])
        /\ Replace(1, Node(Defs[f][2],
                           IF Stores(e, Defs[f][1]) THEN cpp_type_name(Defs[f][2]) ELSE IllFormed,
                           Calls(f, e.py), {Calls(f, r) : r \in ValueWidened(e, Defs[f][1]).runs}, e.marks))
  BY DEF Call
<1>2. TypedOperand(e) /\ "limit" \notin e.marks /\ 1 <= Len(operands)
  <2>1. Ready(1)
    BY Zenon DEF Call
  <2> QED
    BY <2>1, ReadyIs
<1> DEFINE S == Defs[f][1]
           T == Defs[f][2]
           cpp == IF Stores(e, S) THEN cpp_type_name(T) ELSE IllFormed
           py == Calls(f, e.py)
           runs == {Calls(f, r) : r \in ValueWidened(e, S).runs}
           new == Node(T, cpp, py, runs, e.marks)
<1>3. Replace(1, new) /\ is_subtype(e.type, S, NoClasses) /\ ValueFits(e, S)
  BY <1>1
<1>4. S \in Scalars /\ T \in Scalars /\ is_subtype(S, T, NoClasses)
  BY DefsAssumption
<1>5. py.value = e.py.value
  BY DEF Outcome
<1> HIDE DEF e, S, T, py, runs
<1>6. e.type \in Scalars /\ (Failed(e.py.value) \/ e.py.value.tag \in Admits(e.type.kind))
  BY <1>2 DEF TypedOperand
<1>7. e.type.kind \in Admits(S.kind) /\ S.kind \in Admits(T.kind)
  BY <1>3, <1>4, <1>6, ScalarSubtype
<1>8. Failed(py.value) \/ py.value.tag \in Admits(T.kind)
  <2>1. e.type.kind \in Admits(T.kind)
    BY <1>4, <1>6, <1>7, AdmitsTransitive
  <2> QED
    BY <1>4, <1>5, <1>6, <2>1, AdmitsTransitive
<1>9. "narrowed" \notin e.marks => cpp = cpp_type_name(T)
  BY <1>2, <1>3, <1>4, StoresIs
<1>10. cpp = "py::bool_" => Failed(py.value) \/ py.value.tag = "Bool"
  <2>1. cpp = "py::bool_" => T.kind = "Bool"
    BY <1>4, NumberNames DEF IllFormed
  <2> QED
    BY <1>8, <2>1, AdmitsIs
<1> HIDE DEF cpp
<1>11. TypedOperand(new)
  <2>1. new = Node(T, cpp, py, runs, e.marks)
    OBVIOUS
  <2> HIDE DEF new
  <2> QED
    BY <1>2, <1>4, <1>8, <1>9, <1>10, <2>1, TypedNode
<1> HIDE DEF new
<1> QED
  BY <1>2, <1>3, <1>11, TypedPush

\* A slot takes what it is declared for.
LEMMA TypedStore ==
  ASSUME TypedInv, NEW x \in Names, NEW e, e = Top(0), NEW declared \in Scalars, NEW read \in Scalars,
         ValueFits(e, declared), e.type.kind \in Admits(read.kind), read.kind \in Admits(declared.kind),
         Store(x, e, declared, read)
  PROVE  TypedInv'
<1> DEFINE stored == {r.value : r \in ValueWidened(e, declared).runs}
           stops == Failed(e.py.value) \/ \E v \in stored : Failed(v)
           slot(v) == [declared |-> declared, read |-> read, py |-> e.py.value, cpp |-> v,
                       compiles |-> Stores(e, declared), marks |-> e.marks \ {"unsequenced"}]
<1>1. /\ Ready(1) /\ operands' = <<>>
      /\ IF stops THEN slots' = slots
         ELSE \E v \in stored : slots' = [slots EXCEPT ![x] = slot(v)]
  BY DEF Store
<1>2. TypedOperand(e) /\ "limit" \notin e.marks
  BY <1>1, ReadyIs
<1>3. IsStack' /\ Operands' = {}
  BY <1>1 DEF IsStack, Operands
<1>4. (\A s \in SetSlots : TypedSlot(s)) /\ slots \in [Names -> {slots[y] : y \in Names}]
  BY DEF TypedInv
<1>5. CASE stops
  <2>1. slots' = slots
    BY <1>1, <1>5
  <2>2. SetSlots' = SetSlots
    BY <2>1 DEF SetSlots, IsBound
  <2> QED
    BY <1>3, <1>4, <2>1, <2>2 DEF TypedInv
<1>6. CASE ~stops
  <2>1. PICK v \in stored : slots' = [slots EXCEPT ![x] = slot(v)]
    BY <1>1, <1>6
  <2>2. ~Failed(e.py.value)
    BY <1>6
  <2> DEFINE s == slot(v)
  <2>3. /\ s.declared = declared /\ s.read = read /\ s.py = e.py.value /\ s.compiles = Stores(e, declared)
        /\ s.marks = e.marks \ {"unsequenced"}
    OBVIOUS
  <2>4. slots' = [slots EXCEPT ![x] = s]
    BY <2>1
  <2> HIDE DEF s, stored, stops
  <2>5. TypedSlot(s)
    <3>1. e.type \in Scalars /\ e.py.value.tag \in Admits(e.type.kind)
      BY <1>2, <2>2 DEF TypedOperand
    <3>2. e.py.value.tag \in Admits(read.kind)
      BY <3>1, AdmitsTransitive
    <3>3. "narrowed" \notin e.marks => Stores(e, declared)
      BY <1>2, StoresIs
    <3> QED
      BY <1>2, <2>2, <2>3, <3>2, <3>3 DEF TypedSlot
  <2>6. \A y \in Names : slots'[y] = IF y = x THEN s ELSE slots[y]
    BY <1>4, <2>4
  <2>7. slots' \in [Names -> {slots'[y] : y \in Names}]
    BY <1>4, <2>4
  <2>8. \A t \in SetSlots' : t = s \/ t \in SetSlots
    BY <2>6 DEF SetSlots, IsBound
  <2> QED
    BY <1>3, <1>4, <2>5, <2>7, <2>8 DEF TypedInv
<1> QED
  BY <1>5, <1>6

\* The step of an annotated assignment.
LEMMA TypedAnnAssign ==
  ASSUME TypedInv, AnnAssign
  PROVE  TypedInv'
<1>1. PICK x \in Names, T \in Declarable :
        /\ Len(operands) = 1 /\ is_subtype(Top(0).type, T, NoClasses) /\ ValueFits(Top(0), T)
        /\ Store(x, Top(0), T, T)
  BY DEF AnnAssign
<1> DEFINE e == Top(0)
<1>2. TypedOperand(e)
  BY <1>1, TypedTop
<1>3. e.type \in Scalars /\ T \in Scalars
  BY <1>2, DefsAssumption DEF TypedOperand
<1>4. e.type.kind \in Admits(T.kind)
  BY <1>1, <1>3, ScalarSubtype
<1>5. T.kind \in Admits(T.kind)
  BY <1>3, ScalarIs, AdmitsIs DEF ScalarKinds
<1>6. e = Top(0) /\ ValueFits(e, T) /\ Store(x, e, T, T)
  BY <1>1
<1> HIDE DEF e
<1> QED
  BY <1>3, <1>4, <1>5, <1>6, TypedStore

\* The step of an assignment, to a slot that it declares or that is there.
LEMMA TypedAssign ==
  ASSUME TypedInv, Assign
  PROVE  TypedInv'
<1> DEFINE e == Top(0)
           declared(x) == IF IsBound(x) THEN slots[x].declared ELSE e.type
<1>1. PICK x \in Names :
        /\ Len(operands) = 1 /\ is_subtype(e.type, declared(x), NoClasses) /\ ValueFits(e, declared(x))
        /\ Store(x, e, declared(x), e.type)
  BY DEF Assign
<1>2. TypedOperand(e)
  BY <1>1, TypedTop
<1>3. e.type \in Scalars
  BY <1>2 DEF TypedOperand
<1> DEFINE T == declared(x)
<1>4. T \in Scalars
  <2>1. IsBound(x) => TypedSlot(slots[x])
    BY DEF TypedInv, SetSlots
  <2> QED
    BY <1>3, <2>1 DEF TypedSlot
<1>5. is_subtype(e.type, T, NoClasses) /\ ValueFits(e, T) /\ Store(x, e, T, e.type) /\ e = Top(0)
  BY <1>1
<1> HIDE DEF e, T
<1>6. e.type.kind \in Admits(T.kind)
  BY <1>3, <1>4, <1>5, ScalarSubtype
<1>7. e.type.kind \in Admits(e.type.kind)
  BY <1>3, ScalarIs, AdmitsIs DEF ScalarKinds
<1> QED
  BY <1>3, <1>4, <1>5, <1>6, <1>7, TypedStore

\* The step of an expression on a line of its own.
LEMMA TypedExprStmt ==
  ASSUME TypedInv, ExprStmt
  PROVE  TypedInv'
<1>1. operands' = <<>> /\ slots' = slots
  BY DEF ExprStmt
<1>2. IsStack' /\ Operands' = {} /\ SetSlots' = SetSlots
  BY <1>1 DEF IsStack, Operands, SetSlots, IsBound
<1> QED
  BY <1>1, <1>2 DEF TypedInv

\* TypedInv is inductive.
THEOREM TypesOfOperands == Spec => []TypedInv
<1>1. Init => TypedInv
  <2> SUFFICES ASSUME Init PROVE TypedInv
    OBVIOUS
  <2>1. IsStack /\ Operands = {} /\ SetSlots = {}
    BY DEF Init, IsStack, Operands, SetSlots, IsBound
  <2>2. slots \in [Names -> {slots[x] : x \in Names}]
    BY DEF Init
  <2> QED
    BY <2>1, <2>2 DEF TypedInv
<1>2. TypedInv /\ [Next]_vars => TypedInv'
  <2> SUFFICES ASSUME TypedInv, [Next]_vars PROVE TypedInv'
    OBVIOUS
  <2>1. CASE UNCHANGED vars
    BY <2>1 DEF vars, TypedInv, IsStack, Operands, SetSlots, IsBound
  <2>2. CASE Next
    BY <2>2, TypedConstant, TypedName, TypedUnaryOp, TypedBinOp, TypedCompare, TypedCompareChain,
       TypedBoolOp, TypedCall, TypedAnnAssign, TypedAssign, TypedExprStmt DEF Next
  <2> QED
    BY <2>1, <2>2
<1> QED
  BY <1>1, <1>2, PTL DEF Spec

\* The text written for an expression has the C++ type that the checker's type spells, and a
\* slot takes what is stored in it, unless a narrowed name is read: expression_emitter.cpp
\* picks every overload the runtime library has, for every set of names, functions and
\* literals.
THEOREM TextsHaveTheirTypes == Spec => []CompilesUnlessNarrowed
<1>1. TypedInv => CompilesUnlessNarrowed
  BY DEF TypedInv, TypedOperand, TypedSlot, CompilesUnlessNarrowed
<1> QED
  BY <1>1, TypesOfOperands, PTL

\* The checker's type of every expression and of every slot admits the class of the object
\* CPython computes there, through every widening, narrowing assignment, short circuit and
\* call.
THEOREM TypesAdmitTheObject == Spec => []TypesTellTheClass
<1>1. TypedInv => TypesTellTheClass
  <2> SUFFICES ASSUME TypedInv PROVE TypesTellTheClass
    OBVIOUS
  <2>1. ASSUME NEW k, NEW t \in Scalars, k \in Admits(t.kind)
        PROVE  is_subtype(of(k), t, NoClasses)
    <3>1. k \in ScalarKinds
      BY <2>1, ScalarIs, AdmitsIs DEF ScalarKinds
    <3>2. of(k) \in Scalars /\ of(k).kind = k
      BY <3>1, ScalarOf
    <3> QED
      BY <2>1, <3>2, ScalarSubtype
  <2>2. ASSUME NEW e \in Operands PROVE Failed(e.py.value) \/ is_subtype(of(e.py.value.tag), e.type, NoClasses)
    <3>1. e.type \in Scalars /\ (Failed(e.py.value) \/ e.py.value.tag \in Admits(e.type.kind))
      BY DEF TypedInv, TypedOperand
    <3> QED
      BY <2>1, <3>1
  <2>3. ASSUME NEW s \in SetSlots
        PROVE  is_subtype(of(s.py.tag), s.read, NoClasses) /\ is_subtype(s.read, s.declared, NoClasses)
    <3>1. /\ s.declared \in Scalars /\ s.read \in Scalars /\ s.read.kind \in Admits(s.declared.kind)
          /\ s.py.tag \in Admits(s.read.kind)
      BY DEF TypedInv, TypedSlot
    <3> QED
      BY <2>1, <3>1, ScalarSubtype
  <2> QED
    BY <2>2, <2>3 DEF TypesTellTheClass
<1> QED
  BY <1>1, TypesOfOperands, PTL

(***************************************************************************)
(* The objects a program holds.                                            *)
(***************************************************************************)
IsValue(v) ==
  \/ v \in {bool_(TRUE), bool_(FALSE), none}
  \/ v.n \in Int64 /\ v = int_(v.n)
  \/ v.n \in Nat /\ v = str(v.n)
  \/ IsDouble(v)

\* An object within the bounds of the model.
Held(v) == IsValue(v) /\ Abs(v.n) <= MaxNumerator /\ v.d <= MaxDenominator

\* What the class of a value says of it.
LEMMA ValueIs ==
  ASSUME NEW v, IsValue(v)
  PROVE  /\ v.tag \in ScalarKinds /\ ~Failed(v)
         /\ v = value(v.tag, v.n, v.d) /\ v.n \in Int /\ v.d \in Nat \ {0}
         /\ v.tag # "Float" => v.d = 1
         /\ v.tag = "Float" => IsDouble(v)
         /\ v.tag = "Bool" => v.n \in {0, 1}
         /\ v.tag \in {"Bool", "Int"} => v.n \in Int64
         /\ v.tag = "Str" => v.n \in Nat
         /\ v.tag = "NoneType" => v.n = 0
<1>1. 0 \in Int64 /\ 1 \in Int64 /\ \A n \in Int64 : n \in Int
  BY NumbersAssumption DEF Int64, MinInt
<1>2. CASE v \in {bool_(TRUE), bool_(FALSE), none}
  BY <1>1, <1>2 DEF bool_, none, value, ScalarKinds, Failed
<1>3. CASE v.n \in Int64 /\ v = int_(v.n)
  <2>1. v.tag = "Int" /\ v.d = 1
    BY <1>3 DEF int_, value
  <2> QED
    BY <1>1, <1>3, <2>1 DEF int_, ScalarKinds, Failed
<1>4. CASE v.n \in Nat /\ v = str(v.n)
  <2>1. v.tag = "Str" /\ v.d = 1
    BY <1>4 DEF str, value
  <2> QED
    BY <1>4, <2>1 DEF str, ScalarKinds, Failed
<1>5. CASE IsDouble(v)
  <2>1. v.tag = "Float"
    BY <1>5, TagsOfResults DEF IsDouble
  <2> QED
    BY <1>5, <2>1 DEF IsDouble, ScalarKinds, Failed
<1> QED
  BY <1>2, <1>3, <1>4, <1>5 DEF IsValue

\* What is computed is a value or one of the two failures.
IsResult(v) == Failed(v) \/ IsValue(v)

\* The failures, the checked ints, the texts and the bools are results.
LEMMA ResultsAre ==
  /\ \A e \in {"OverflowError", "ZeroDivisionError"} : IsResult(fail(e))
  /\ \A n \in Int : IsResult(checked(n))
  /\ \A n \in Nat : IsResult(str(n))
  /\ \A b \in BOOLEAN : IsResult(bool_(b))
<1>1. \A e \in {"OverflowError", "ZeroDivisionError"} : IsResult(fail(e))
  BY TagsOfResults DEF IsResult
<1>2. \A n \in Int : IsResult(checked(n))
  <2> TAKE n \in Int
  <2>1. CASE n \in Int64
    <3>1. checked(n) = int_(n) /\ int_(n).n = n
      BY <2>1, TagsOfResults DEF checked, int_
    <3> QED
      BY <2>1, <3>1 DEF IsResult, IsValue
  <2>2. CASE n \notin Int64
    <3>1. checked(n) = fail("OverflowError")
      BY <2>2 DEF checked
    <3> QED
      BY <1>1, <3>1
  <2> QED
    BY <2>1, <2>2
<1>3. \A n \in Nat : IsResult(str(n))
  <2> TAKE n \in Nat
  <2>1. str(n).n = n
    BY TagsOfResults DEF str
  <2> QED
    BY <2>1 DEF IsResult, IsValue
<1>4. \A b \in BOOLEAN : IsResult(bool_(b))
  BY DEF IsResult, IsValue
<1> QED
  BY <1>1, <1>2, <1>3, <1>4

(***************************************************************************)
(* The range of the doubles.                                               *)
(***************************************************************************)
Far == TwoTo[Significand] * Power(2, ExponentRange)
\* A denominator whose quotients are not too small for a double.
Near(d) == d \in Nat \ {0} /\ TwoTo[Significand - 1] * d <= Power(2, ExponentRange)

\* Powers grow with the base and with the exponent.
LEMMA PowerOfPositive ==
  ASSUME NEW n \in Nat \ {0}
  PROVE  \A k \in Nat : Power(n, k) \in Nat \ {0}
<1> DEFINE T == {k \in Nat : Power(n, k) \in Nat \ {0}}
<1>1. Power(n, 0) = 1 /\ \A k \in Nat : Power(n, k) \in Int /\ Power(n, k + 1) = n * Power(n, k)
  BY PowerIs
<1>2. 0 \in T
  BY <1>1
<1>3. ASSUME NEW k \in Nat, k \in T PROVE k + 1 \in T
  <2> DEFINE p == Power(n, k)
  <2>1. p \in Nat \ {0} /\ Power(n, k + 1) = n * p
    BY <1>1, <1>3
  <2> HIDE DEF p
  <2>2. n * p \in Nat \ {0}
    BY <2>1, SMT
  <2> QED
    BY <2>1, <2>2
<1> HIDE DEF T
<1>4. \A k \in Nat : k \in T
  BY <1>2, <1>3, Induction
<1> QED
  BY <1>4 DEF T

\* A power grows with the size of its base and with its exponent.
LEMMA PowerGrows ==
  ASSUME NEW n \in Int, NEW m \in Nat \ {0}, Abs(n) <= m
  PROVE  \A k \in Nat : /\ Power(n, k) \in Int /\ Abs(Power(n, k)) <= Power(m, k)
                       /\ \A j \in Nat : Power(m, k) <= Power(m, k + j)
<1>1. Power(n, 0) = 1 /\ \A k \in Nat : Power(n, k) \in Int /\ Power(n, k + 1) = n * Power(n, k)
  BY PowerIs
<1>2. m \in Int /\ Power(m, 0) = 1 /\ \A k \in Nat : Power(m, k) \in Nat \ {0} /\ Power(m, k + 1) = m * Power(m, k)
  <2>1. m \in Int
    OBVIOUS
  <2>2. Power(m, 0) = 1 /\ \A k \in Nat : Power(m, k + 1) = m * Power(m, k)
    BY <2>1, PowerIs
  <2> QED
    BY <2>1, <2>2, PowerOfPositive
<1> DEFINE T == {k \in Nat : Abs(Power(n, k)) <= Power(m, k)}
<1>3. 0 \in T
  BY <1>1, <1>2 DEF Abs
<1>4. ASSUME NEW k \in Nat, k \in T PROVE k + 1 \in T
  <2> DEFINE p == Power(n, k)
             q == Power(m, k)
  <2>1. p \in Int /\ q \in Nat /\ Abs(p) <= q /\ Power(n, k + 1) = n * p /\ Power(m, k + 1) = m * q
    BY <1>1, <1>2, <1>4
  <2> HIDE DEF p, q
  <2>2. Abs(n * p) = Abs(n) * Abs(p) /\ Abs(n) \in Nat /\ Abs(p) \in Nat
    BY <2>1, AbsOf
  <2>3. Abs(n) * Abs(p) <= m * q
    BY <2>1, <2>2, ProductGrows
  <2> QED
    BY <2>1, <2>2, <2>3
<1> DEFINE U(k) == {j \in Nat : Power(m, k) <= Power(m, k + j)}
<1>5. ASSUME NEW k \in Nat PROVE \A j \in Nat : j \in U(k)
  <2>1. 0 \in U(k)
    BY <1>2
  <2>2. ASSUME NEW j \in Nat, j \in U(k) PROVE j + 1 \in U(k)
    <3> DEFINE p == Power(m, k)
               q == Power(m, k + j)
    <3>1. p \in Nat /\ q \in Nat /\ p <= q /\ k + j \in Nat /\ k + (j + 1) = (k + j) + 1
      BY <1>2, <2>2
    <3>2. Power(m, k + (j + 1)) = m * q
      BY <1>2, <3>1
    <3> HIDE DEF p, q
    <3>3. q <= m * q /\ m * q \in Nat
      BY <3>1, SMT
    <3>4. p <= Power(m, k + (j + 1))
      BY <3>1, <3>2, <3>3
    <3> QED
      BY <3>4 DEF p
  <2> HIDE DEF U
  <2> QED
    BY <2>1, <2>2, Induction
<1> HIDE DEF T
<1>6. \A k \in Nat : k \in T
  BY <1>3, <1>4, Induction
<1> QED
  BY <1>1, <1>5, <1>6 DEF T

\* What the assumption on the bounds says of the products the operators make.
LEMMA RangeIs ==
  LET N == MaxNumerator
      D == MaxDenominator
  IN /\ N \in Nat \ {0} /\ D \in Nat \ {0} /\ MaxExponent \in Nat /\ Far \in Nat
     /\ 4 * (N * N) < Far /\ 4 * (N * D) < Far /\ Power(N, MaxExponent) < Far
     /\ Near(2 * (N * D)) /\ Near(D * D) /\ Near(Power(D, MaxExponent))
     /\ N * N \in Nat \ {0} /\ N * D \in Nat \ {0} /\ D * D \in Nat \ {0}
<1> DEFINE N == MaxNumerator
           D == MaxDenominator
           digits == TwoTo[Significand]
           half == TwoTo[Significand - 1]
           most == TwoTo[ExponentRange]
<1>1. N \in Nat \ {0} /\ D \in Nat \ {0} /\ MaxExponent \in Nat
  BY BoundsAssumption
<1>2. /\ 4 * (N * N) < digits * most
      /\ 4 * (N * D) < digits * most
      /\ digits * (N * D) <= most
      /\ digits * (D * D) <= most
      /\ Power(N, MaxExponent) < digits * most
      /\ digits * Power(D, MaxExponent) <= most
  BY RangeAssumption
<1>3. /\ digits = 2 * half /\ half \in Nat \ {0} /\ digits \in Nat \ {0}
      /\ most = Power(2, ExponentRange) /\ most \in Nat \ {0}
  <2>1. ExponentRange \in 0..(ExponentRange + Significand) /\ ExponentRange \in Nat
    BY NumbersAssumption
  <2> QED
    BY <2>1, TwoToIs, PowersOfTwo
<1>4. Power(D, MaxExponent) \in Nat \ {0}
  BY <1>1, PowerOfPositive
<1> DEFINE p == Power(D, MaxExponent)
           nn == N * N
           nd == N * D
           dd == D * D
<1>5. nn \in Nat \ {0} /\ nd \in Nat \ {0} /\ dd \in Nat \ {0}
  BY <1>1, SMT
<1>6. Far = digits * most /\ Far \in Nat
  BY <1>3 DEF Far
<1> HIDE DEF digits, half, most, N, D, p, nn, nd, dd
<1>7. half * (2 * nd) = digits * nd
  BY <1>3, <1>5, SMT
<1>8. half * dd <= digits * dd
  BY <1>3, <1>5, SMT
<1>9. half * p <= digits * p
  BY <1>3, <1>4, SMT DEF p
<1>10. half * dd \in Int /\ digits * dd \in Int /\ half * p \in Int /\ digits * p \in Int
  BY <1>3, <1>4, <1>5, SMT DEF p
<1>11. half * (2 * nd) <= most /\ half * dd <= most /\ half * p <= most
  BY <1>2, <1>3, <1>7, <1>8, <1>9, <1>10 DEF nn, nd, dd, p
<1> QED
  BY <1>1, <1>2, <1>3, <1>4, <1>5, <1>6, <1>11 DEF Near, digits, half, most, N, D, nn, nd, dd, p

\* What is rounded within these bounds is a double.
LEMMA RoundedIsDouble ==
  ASSUME NEW n \in Int, NEW d \in Nat \ {0}, NEW A \in Nat, NEW B \in Nat, Abs(n) <= A, d <= B, A < Far, Near(B)
  PROVE  Roundable(n, d) /\ IsDouble(Round(n, d)) /\ IsValue(Round(n, d)) /\ IsResult(Round(n, d))
<1>1. Roundable(n, d)
  BY RoundableWithin DEF Far, Near
<1> QED
  BY <1>1, RoundFacts DEF IsValue, IsResult

\* And of the denominators below.
LEMMA NearBelow ==
  ASSUME NEW B, Near(B), NEW b \in Nat \ {0}, b <= B
  PROVE  Near(b)
<1> DEFINE h == TwoTo[Significand - 1]
           m == Power(2, ExponentRange)
<1>1. h \in Nat \ {0} /\ m \in Nat \ {0} /\ B \in Nat \ {0} /\ h * B <= m
  BY TwoToIs, NumbersAssumption, PowersOfTwo DEF Near
<1> HIDE DEF h, m
<1>2. h * b <= h * B /\ h * b \in Nat /\ h * B \in Nat
  BY <1>1, ProductGrows
<1>3. h * b <= m
  BY <1>1, <1>2
<1> QED
  BY <1>3 DEF Near, h, m

\* The doubles a program computes with, and those its ints round to.
Numbered(x) == Within(x, 2 * MaxNumerator, MaxDenominator)

\* The quotients of held numbers are in the range.
LEMMA ClearRange ==
  Clear(2 * MaxNumerator, MaxDenominator)
<1> DEFINE N == MaxNumerator
           D == MaxDenominator
           nn == N * N
           nd == N * D
           dd == D * D
           h == TwoTo[Significand - 1]
           m == Power(2, ExponentRange)
<1>1. N \in Nat \ {0} /\ D \in Nat \ {0} /\ nn \in Nat \ {0} /\ nd \in Nat \ {0} /\ dd \in Nat \ {0}
  BY RangeIs
<1>2. 4 * nn < Far /\ 4 * nd < Far /\ Far \in Nat
  BY RangeIs
<1>3. h * (2 * nd) <= m /\ h * dd <= m
  BY RangeIs DEF Near
<1> HIDE DEF N, D, h, m
<1>4. (2 * N) * D = 2 * nd /\ (2 * N) * (2 * N) = 4 * nn
  BY <1>1, SMT
<1> HIDE DEF nn, nd
<1> DEFINE A == 2 * N
<1>5. A \in Nat /\ A * D = 2 * nd /\ A * A = 4 * nn
  BY <1>1, <1>4
<1> HIDE DEF A
<1>6. A * D + 1 < Far /\ A * A < Far /\ 2 * (A * D) < Far
  BY <1>1, <1>2, <1>5
<1>7. h * (A * D) <= m
  BY <1>3, <1>5
<1> QED
  BY <1>1, <1>3, <1>5, <1>6, <1>7 DEF Clear, Far, A, N, D, h, m

\* An int and its nearest double are on the same side of -1, 0 and 1.
LEMMA DoubleOf ==
  ASSUME NEW v, Held(v), v.tag \in Numbers
  PROVE  LET x == as_double(v) IN
         /\ Numbered(x) /\ (x.n = 0 <=> v.n = 0) /\ (x.n < 0 <=> v.n < 0)
         /\ ~holds_int(v) => x = v
         /\ holds_int(v) =>
              /\ x.d = 1 /\ v.d = 1 /\ (Exact(v.n, 1) => x.n = v.n)
              /\ (Abs(v.n) >= 2 => Abs(x.n) >= 2) /\ (Abs(v.n) <= 1 => x.n = v.n)
<1> DEFINE N == MaxNumerator
           D == MaxDenominator
<1>1. N \in Nat \ {0} /\ D \in Nat \ {0} /\ N * N \in Nat \ {0} /\ Far \in Nat /\ 4 * (N * N) < Far
      /\ Near(D * D) /\ D * D \in Nat \ {0}
  BY RangeIs
<1>2. v.n \in Int /\ v.d \in Nat \ {0} /\ Abs(v.n) <= N /\ v.d <= D /\ (v.tag # "Float" => v.d = 1)
      /\ (v.tag = "Float" => IsDouble(v))
  BY ValueIs DEF Held
<1> HIDE DEF N, D
<1>3. CASE holds_int(v)
  <2> DEFINE x == as_double(v)
  <2>1. x = Round(v.n, 1) /\ v.d = 1
    BY <1>2, <1>3 DEF as_double, holds_int
  <2>2. N <= N * N
    BY <1>1, SMT
  <2>3. N < Far
    BY <1>1, <2>2
  <2>4. Near(1)
    BY <1>1, NearBelow
  <2>5. Roundable(v.n, 1)
    BY <1>1, <1>2, <2>3, <2>4, RoundedIsDouble
  <2>6. /\ Round(v.n, 1).n \in Int /\ Round(v.n, 1).d = 1 /\ IsDouble(Round(v.n, 1))
        /\ (Round(v.n, 1).n < 0 <=> v.n < 0) /\ (Round(v.n, 1).n = 0 <=> v.n = 0)
        /\ Abs(Round(v.n, 1).n) <= 2 * Abs(v.n)
        /\ Abs(v.n) >= 2 => Abs(Round(v.n, 1).n) >= 2
        /\ Abs(v.n) <= 1 => Round(v.n, 1).n = v.n
        /\ Exact(v.n, 1) => Round(v.n, 1).n = v.n
    BY <1>2, <2>5, RoundInt
  <2> HIDE DEF x
  <2>7. Abs(v.n) \in Nat /\ Abs(x.n) \in Nat
    BY <1>2, <2>1, <2>6, AbsOf
  <2>8. Abs(x.n) <= 2 * N /\ x.d <= D
    BY <1>1, <1>2, <2>1, <2>6, <2>7
  <2> QED
    BY <1>3, <2>1, <2>6, <2>8 DEF Numbered, Within, x, N, D
<1>4. CASE ~holds_int(v)
  <2>1. as_double(v) = v /\ v.tag = "Float"
    BY <1>4 DEF as_double, holds_int, Numbers
  <2>2. Abs(v.n) \in Nat /\ Abs(v.n) <= 2 * N
    BY <1>1, <1>2 DEF Abs
  <2> QED
    BY <1>2, <1>4, <2>1, <2>2 DEF Numbered, Within, N, D
<1> QED
  BY <1>3, <1>4

\* The parts of a held number, taken as a double.
LEMMA NumberedIs ==
  ASSUME NEW x, Numbered(x)
  PROVE  /\ x.n \in Int /\ x.d \in Nat \ {0} /\ x = value("Float", x.n, x.d) /\ Rep(x.n, x.d)
         /\ Abs(x.n) \in Nat /\ Abs(x.n) <= 2 * MaxNumerator /\ x.d <= MaxDenominator
BY AbsOf DEF Numbered, Within, IsDouble

\* The negation of a double is one.
LEMMA Negated ==
  ASSUME NEW x, IsDouble(x)
  PROVE  LET z == double_neg(x) IN
         IsDouble(z) /\ IsResult(z) /\ z.n = -x.n /\ z.d = x.d /\ Abs(z.n) = Abs(x.n)
<1> DEFINE z == double_neg(x)
<1>1. x.n \in Int /\ x.d \in Nat \ {0} /\ Rep(x.n, x.d)
  BY DEF IsDouble
<1>2. z = value("Float", -x.n, x.d) /\ z.n = -x.n /\ z.d = x.d
  BY TagsOfResults DEF double_neg
<1>3. Abs(-x.n) = Abs(x.n)
  BY <1>1 DEF Abs
<1>4. Rep(-x.n, x.d)
  BY <1>1, <1>3, RepOfAbs
<1> HIDE DEF z
<1>5. IsDouble(z)
  BY <1>1, <1>2, <1>4 DEF IsDouble
<1>6. IsResult(z) /\ Abs(z.n) = Abs(x.n)
  BY <1>2, <1>3, <1>5 DEF IsResult, IsValue
<1> QED
  BY <1>2, <1>5, <1>6 DEF z

\* The size of a sum.
LEMMA AbsOfSum ==
  ASSUME NEW a \in Int, NEW b \in Int
  PROVE  Abs(a + b) <= Abs(a) + Abs(b) /\ Abs(a) \in Nat /\ Abs(b) \in Nat
BY DEF Abs

\* The sum, the product and the quotient of two such doubles can be rounded.
LEMMA CrossedIs ==
  ASSUME NEW x, NEW y, Numbered(x), Numbered(y)
  PROVE  /\ x.n * y.d \in Int /\ y.n * x.d \in Int /\ x.d * y.d \in Nat \ {0} /\ x.n * y.n \in Int
         /\ Abs(x.n * y.d) <= 2 * (MaxNumerator * MaxDenominator)
         /\ Abs(y.n * x.d) <= 2 * (MaxNumerator * MaxDenominator)
         /\ Abs(x.n * y.n) <= 4 * (MaxNumerator * MaxNumerator)
         /\ x.d * y.d <= MaxDenominator * MaxDenominator
<1> DEFINE N == MaxNumerator
           D == MaxDenominator
           n == x.n
           d == x.d
           m == y.n
           e == y.d
<1>1. N \in Nat \ {0} /\ D \in Nat \ {0}
  BY RangeIs
<1>2. n \in Int /\ d \in Nat \ {0} /\ Abs(n) \in Nat /\ Abs(n) <= 2 * N /\ d <= D
  BY NumberedIs
<1>3. m \in Int /\ e \in Nat \ {0} /\ Abs(m) \in Nat /\ Abs(m) <= 2 * N /\ e <= D
  BY NumberedIs
<1> HIDE DEF N, D, n, d, m, e
<1>4. /\ n * e \in Int /\ m * d \in Int /\ n * m \in Int /\ d * e \in Nat \ {0}
  BY <1>2, <1>3, SMT
<1>5. 2 * N \in Nat /\ D \in Nat /\ (2 * N) * D = 2 * (N * D) /\ (2 * N) * (2 * N) = 4 * (N * N)
  BY <1>1, SMT
<1>6. Abs(e) = e /\ Abs(d) = d /\ e \in Int /\ d \in Int
  BY <1>2, <1>3 DEF Abs
<1>7. Abs(n * e) = Abs(n) * e /\ Abs(m * d) = Abs(m) * d /\ Abs(n * m) = Abs(n) * Abs(m)
  <2>1. Abs(n * e) = Abs(n) * Abs(e)
    BY <1>2, <1>6, AbsOf
  <2>2. Abs(m * d) = Abs(m) * Abs(d)
    BY <1>3, <1>6, AbsOf
  <2>3. Abs(n * m) = Abs(n) * Abs(m)
    BY <1>2, <1>3, AbsOf
  <2> QED
    BY <1>6, <2>1, <2>2, <2>3
<1> DEFINE A == 2 * N
           i == Abs(n)
           j == Abs(m)
<1>8. A \in Nat /\ i \in Nat /\ j \in Nat /\ i <= A /\ j <= A
  BY <1>2, <1>3, <1>5
<1> HIDE DEF A, i, j
<1>9. i * e <= A * D /\ j * d <= A * D /\ i * j <= A * A /\ d * e <= D * D
  BY <1>2, <1>3, <1>5, <1>8, ProductGrows
<1>10. Abs(n * e) <= 2 * (N * D) /\ Abs(m * d) <= 2 * (N * D) /\ Abs(n * m) <= 4 * (N * N) /\ d * e <= D * D
  BY <1>5, <1>7, <1>9 DEF A, i, j
<1> QED
  BY <1>4, <1>10 DEF N, D, n, d, m, e

\* A sum of held numbers is a double.
LEMMA SumOfDoubles ==
  ASSUME NEW x, NEW y, Numbered(x), Numbered(y)
  PROVE  IsDouble(double_add(x, y)) /\ IsResult(double_add(x, y))
<1> DEFINE a == x.n * y.d
           b == y.n * x.d
           c == x.d * y.d
           nd == MaxNumerator * MaxDenominator
           dd == MaxDenominator * MaxDenominator
<1>1. a \in Int /\ b \in Int /\ c \in Nat \ {0} /\ Abs(a) <= 2 * nd /\ Abs(b) <= 2 * nd /\ c <= dd
  BY CrossedIs
<1>2. nd \in Nat \ {0} /\ dd \in Nat \ {0} /\ 4 * nd < Far /\ Near(dd)
  BY RangeIs
<1>3. double_add(x, y) = Round(a + b, c)
  BY DEF double_add
<1> HIDE DEF a, b, c, nd, dd
<1>4. Abs(a + b) <= 4 * nd /\ a + b \in Int /\ 4 * nd \in Nat
  <2>1. Abs(a + b) <= Abs(a) + Abs(b) /\ Abs(a) \in Nat /\ Abs(b) \in Nat
    BY <1>1, AbsOfSum
  <2>2. Abs(a + b) \in Nat /\ a + b \in Int
    BY <1>1 DEF Abs
  <2> QED
    BY <1>1, <1>2, <2>1, <2>2
<1> QED
  BY <1>1, <1>2, <1>3, <1>4, RoundedIsDouble

\* So is a product,
LEMMA ProductOfDoubles ==
  ASSUME NEW x, NEW y, Numbered(x), Numbered(y)
  PROVE  IsResult(double_mul(x, y))
<1> DEFINE a == x.n * y.n
           c == x.d * y.d
           nn == MaxNumerator * MaxNumerator
           dd == MaxDenominator * MaxDenominator
<1>1. a \in Int /\ c \in Nat \ {0} /\ Abs(a) <= 4 * nn /\ c <= dd
  BY CrossedIs
<1>2. nn \in Nat \ {0} /\ dd \in Nat \ {0} /\ 4 * nn < Far /\ Near(dd)
  BY RangeIs
<1>3. double_mul(x, y) = Round(a, c)
  BY DEF double_mul
<1> HIDE DEF a, c, nn, dd
<1>4. 4 * nn \in Nat
  BY <1>2
<1> QED
  BY <1>1, <1>2, <1>3, <1>4, RoundedIsDouble

\* a quotient,
LEMMA QuotientOfDoubles ==
  ASSUME NEW x, NEW y, Numbered(x), Numbered(y), y.n # 0
  PROVE  IsResult(double_div(x, y))
<1> DEFINE s == IF y.n < 0 THEN -1 ELSE 1
           a == x.n * y.d
           b == y.n * x.d
           c == x.d * Abs(y.n)
           nd == MaxNumerator * MaxDenominator
<1>1. /\ a \in Int /\ b \in Int /\ Abs(a) <= 2 * nd /\ Abs(b) <= 2 * nd
      /\ x.d \in Nat \ {0} /\ y.n \in Int /\ x.d \in Int /\ Abs(x.d) = x.d
  BY CrossedIs, NumberedIs DEF Abs
<1>2. nd \in Nat \ {0} /\ 4 * nd < Far /\ Near(2 * nd)
  BY RangeIs
<1>3. Abs(y.n) \in Nat \ {0}
  BY <1>1 DEF Abs
<1>4. c \in Nat \ {0} /\ c = Abs(b)
  <2>1. Abs(b) = Abs(y.n) * Abs(x.d)
    BY <1>1, AbsOf
  <2> DEFINE k == Abs(y.n)
             d == x.d
  <2>2. k \in Nat \ {0} /\ d \in Nat \ {0} /\ Abs(b) = k * d /\ c = d * k
    BY <1>1, <1>3, <2>1
  <2> HIDE DEF k, d, b, c
  <2>3. k * d = d * k /\ d * k \in Nat \ {0}
    BY <2>2, SMT
  <2> QED
    BY <2>2, <2>3
<1>5. double_div(x, y) = Round(a * s, c)
  BY DEF double_div
<1>6. s \in {1, -1}
  OBVIOUS
<1> HIDE DEF a, b, c, s, nd
<1>7. a * s \in Int /\ Abs(a * s) = Abs(a)
  BY <1>1, <1>6 DEF Abs
<1>8. 2 * nd \in Nat /\ 2 * nd < Far
  BY <1>2, RangeIs
<1> QED
  BY <1>1, <1>2, <1>4, <1>5, <1>7, <1>8, RoundedIsDouble

\* A sum with the remainder of a division, over the denominator of its operands.
LEMMA AddedRemainder ==
  ASSUME NEW r \in Int, NEW k \in Int, NEW e \in Nat \ {0}, NEW g \in Nat \ {0},
         NEW i \in Int, NEW j \in Nat \ {0}, i * (e * g) = r * j
  PROVE  /\ (r + k * e) * (j * g) = (i * g + k * j) * (e * g)
         /\ r + k * e \in Int /\ i * g + k * j \in Int /\ j * g \in Nat \ {0} /\ e * g \in Nat \ {0}
<1> DEFINE c == e * g
           f == j * g
<1>1. c \in Nat \ {0} /\ f \in Nat \ {0} /\ k * e \in Int /\ i * g \in Int /\ k * j \in Int
  BY SMT
<1>2. r * f = (r * j) * g /\ (k * e) * f = (k * j) * c /\ (i * g) * c = (i * c) * g
  BY SMT
<1>3. i * c = r * j /\ r * j \in Int
  BY SMT
<1> DEFINE u == k * e
           v == i * g
           w == k * j
<1> HIDE DEF c, f, u, v, w
<1>4. (r + u) * f = r * f + u * f /\ (v + w) * c = v * c + w * c
  BY <1>1, SMT DEF u, v, w
<1>5. u * f = w * c /\ r * f = v * c
  <2>1. u * f = w * c
    BY <1>2 DEF u, w
  <2>2. r * f = v * c
    BY <1>2, <1>3 DEF v
  <2> QED
    BY <2>1, <2>2
<1>6. (r + u) * f = (v + w) * c
  BY <1>4, <1>5
<1> QED
  BY <1>1, <1>6 DEF c, f, u, v, w

\* a remainder,
LEMMA RemainderOfDoubles ==
  ASSUME NEW x, NEW y, Numbered(x), Numbered(y), y.n # 0
  PROVE  IsResult(double_mod(x, y))
<1> DEFINE m == fmod(x, y)
           a == x.n * y.d
           b == y.n * x.d
           r == Remainder(a, b)
           nd == MaxNumerator * MaxDenominator
           dd == MaxDenominator * MaxDenominator
<1>1. /\ x.n \in Int /\ x.d \in Nat \ {0} /\ y.n \in Int /\ y.d \in Nat \ {0}
      /\ IsDouble(x) /\ IsDouble(y)
  BY NumberedIs DEF Numbered, Within
<1>2. /\ a \in Int /\ b \in Int /\ Abs(a) <= 2 * nd /\ Abs(b) <= 2 * nd
      /\ x.d * y.d \in Nat \ {0} /\ x.d * y.d <= dd
  BY CrossedIs
<1>3. nd \in Nat \ {0} /\ dd \in Nat \ {0} /\ 4 * nd < Far /\ Near(dd) /\ Far \in Nat
  BY RangeIs
<1>4. x.d * y.d <= Power(2, ExponentRange)
  <2> DEFINE h == TwoTo[Significand - 1]
             c == x.d * y.d
             p == Power(2, ExponentRange)
  <2>1. h \in Nat \ {0} /\ h * dd <= p /\ p \in Nat /\ c \in Nat \ {0} /\ c <= dd
    BY <1>2, <1>3, TwoToIs, PowersOfTwo, NumbersAssumption DEF Near
  <2> HIDE DEF h, c, dd, p
  <2>2. dd <= h * dd /\ h * dd \in Nat
    BY <1>3, <2>1, SMT
  <2>3. c <= p
    BY <1>3, <2>1, <2>2
  <2> QED
    BY <2>3 DEF c, p
<1>5. IsDouble(m) /\ r \in Int /\ m.n * (x.d * y.d) = r * m.d
  BY <1>1, <1>4, FmodIs
<1>6. m.n \in Int /\ m.d \in Nat \ {0}
  BY <1>5 DEF IsDouble
<1>7. double_mod(x, y) = m \/ double_mod(x, y) = double_add(m, y)
  BY DEF double_mod
<1>8. IsResult(m)
  BY <1>5 DEF IsResult, IsValue
<1>9. IsResult(double_add(m, y))
  <2>1. b # 0
    <3> DEFINE k == y.n
               e == x.d
    <3>1. k \in Int /\ k # 0 /\ e \in Nat \ {0} /\ b = k * e
      BY <1>1
    <3> HIDE DEF k, e, b
    <3>2. k * e # 0
      BY <3>1, SMT
    <3> QED
      BY <3>1, <3>2
  <2> HIDE DEF m, r, nd, dd
  <2>2. Abs(r) <= Abs(a)
    <3> DEFINE q == Abs(a) % Abs(b)
    <3>1. r = IF a < 0 THEN -q ELSE q
      BY <1>2, <2>1, Truncation DEF r
    <3>2. Abs(a) \in Nat /\ Abs(b) \in Nat \ {0}
      BY <1>2, <2>1 DEF Abs
    <3>3. q \in Nat /\ q <= Abs(a)
      <4> DEFINE A == Abs(a)
                 B == Abs(b)
                 t == A \div B
      <4>1. A \in Nat /\ B \in Nat \ {0}
        BY <3>2
      <4> HIDE DEF A, B
      <4>2. t \in Int /\ A % B \in 0..(B - 1) /\ A = B * t + (A % B)
        BY <4>1, Euclid
      <4> DEFINE s == A % B
      <4> HIDE DEF t, s
      <4>3. t >= 0
        BY <4>1, SMT DEF t
      <4>4. B * t >= 0 /\ B * t \in Int
        BY <4>1, <4>2, <4>3, SMT
      <4>5. s \in Nat /\ s <= A
        BY <4>1, <4>2, <4>4 DEF s
      <4> QED
        BY <4>5 DEF s, A, B
    <3> HIDE DEF q
    <3>4. Abs(r) = q
      BY <3>1, <3>3 DEF Abs
    <3> QED
      BY <3>3, <3>4
  <2>3. Abs(r + b) <= 4 * nd /\ 4 * nd \in Nat
    <3> HIDE DEF a, b
    <3>1. Abs(r + b) <= Abs(r) + Abs(b) /\ Abs(r) \in Nat /\ Abs(b) \in Nat
      BY <1>2, <1>5, AbsOfSum
    <3>2. Abs(r + b) \in Nat /\ Abs(a) \in Nat
      BY <1>2, <1>5 DEF Abs
    <3> QED
      BY <1>2, <1>3, <2>2, <3>1, <3>2
  <2> DEFINE n == r + y.n * x.d
             d == x.d * y.d
             i == m.n * y.d + y.n * m.d
             c == m.d * y.d
  <2>4. n * c = i * d /\ n \in Int /\ i \in Int /\ c \in Nat \ {0} /\ d \in Nat \ {0}
    <3> DEFINE k == y.n
               e == x.d
               g == y.d
               u == m.n
               v == m.d
    <3>1. k \in Int /\ e \in Nat \ {0} /\ g \in Nat \ {0} /\ u \in Int /\ v \in Nat \ {0}
          /\ r \in Int /\ u * (e * g) = r * v
      BY <1>1, <1>5, <1>6
    <3>2. n = r + k * e /\ d = e * g /\ i = u * g + k * v /\ c = v * g
      OBVIOUS
    <3> HIDE DEF k, e, g, u, v, n, d, i, c
    <3>3. /\ (r + k * e) * (v * g) = (u * g + k * v) * (e * g)
          /\ r + k * e \in Int /\ u * g + k * v \in Int /\ v * g \in Nat \ {0} /\ e * g \in Nat \ {0}
      BY <3>1, AddedRemainder
    <3> QED
      BY <3>2, <3>3
  <2>5. Abs(n) <= 4 * nd /\ d <= dd /\ double_add(m, y) = Round(i, c)
    BY <1>2, <2>3 DEF double_add
  <2> HIDE DEF n, d, i, c
  <2>6. Roundable(n, d)
    BY <1>3, <2>3, <2>4, <2>5, RoundedIsDouble
  <2>7. Roundable(i, c)
    BY <2>4, <2>6, RoundableSame
  <2>8. IsDouble(Round(i, c))
    BY <2>4, <2>7, RoundFacts
  <2> QED
    BY <2>5, <2>8 DEF IsResult, IsValue
<1> QED
  BY <1>7, <1>8, <1>9

\* a floored quotient, which is CPython's where the quotient in between is exact,
LEMMA FloorOfDoubles ==
  ASSUME NEW x, NEW y, Numbered(x), Numbered(y), y.n # 0,
         Exact(x.n * y.d * Sign(y.n), x.d * Abs(y.n))
  PROVE  double_floordiv(x, y) = FloatFloorDiv(x, y) /\ IsResult(FloatFloorDiv(x, y))
<1> DEFINE A == 2 * MaxNumerator
           B == MaxDenominator
           T == Quotient(x.n * y.d, y.n * x.d)
           corrects == Corrects(x.n * y.d, y.n * x.d)
           L == T - (IF corrects THEN 1 ELSE 0)
<1>1. Clear(A, B) /\ Within(x, A, B) /\ Within(y, A, B)
  BY ClearRange DEF Numbered
<1> HIDE DEF A, B
<1>2. double_floordiv(x, y) = FloatFloorDiv(x, y)
  BY <1>1, ExactFloorDivision
<1>3. T \in Int /\ Rep(T, 1) /\ (corrects => Rep(T - 1, 1)) /\ double_floordiv(x, y) = value("Float", L, 1)
  BY <1>1, ExactQuotient
<1> HIDE DEF T, corrects
<1>4. L \in Int /\ Rep(L, 1)
  <2>1. CASE corrects
    BY <1>3, <2>1
  <2>2. CASE ~corrects
    <3>1. L = T
      BY <1>3, <2>2
    <3> QED
      BY <1>3, <3>1
  <2> QED
    BY <2>1, <2>2
<1> HIDE DEF L
<1> DEFINE z == value("Float", L, 1)
<1>5. z.n = L /\ z.d = 1 /\ z = value("Float", L, 1)
  BY TagsOfResults
<1> HIDE DEF z
<1>6. IsDouble(z)
  BY <1>4, <1>5 DEF IsDouble
<1> QED
  BY <1>2, <1>3, <1>5, <1>6 DEF IsResult, IsValue

\* and a power.
LEMMA PowerOfDouble ==
  ASSUME NEW x, Held(x), x.tag = "Float", NEW k \in 0..MaxExponent
  PROVE  IsResult(Round(Power(x.n, k), Power(x.d, k)))
<1> DEFINE N == MaxNumerator
           D == MaxDenominator
<1>1. x.n \in Int /\ x.d \in Nat \ {0} /\ Abs(x.n) <= N /\ x.d <= D
  BY ValueIs DEF Held
<1>2. N \in Nat \ {0} /\ D \in Nat \ {0} /\ MaxExponent \in Nat /\ Power(N, MaxExponent) < Far
      /\ Near(Power(D, MaxExponent))
  BY RangeIs
<1> HIDE DEF N, D
<1>3. k \in Nat /\ MaxExponent - k \in Nat /\ k + (MaxExponent - k) = MaxExponent
  BY <1>2
<1>4. Abs(x.d) = x.d /\ x.d \in Int
  BY <1>1 DEF Abs
<1>5. Power(x.n, k) \in Int /\ Abs(Power(x.n, k)) <= Power(N, k) /\ Power(N, k) <= Power(N, k + (MaxExponent - k))
  BY <1>1, <1>2, <1>3, PowerGrows
<1>6. Power(x.d, k) \in Int /\ Abs(Power(x.d, k)) <= Power(D, k) /\ Power(D, k) <= Power(D, k + (MaxExponent - k))
  BY <1>1, <1>2, <1>3, <1>4, PowerGrows
<1>7. Power(x.d, k) \in Nat \ {0} /\ Power(N, k) \in Nat \ {0} /\ Power(D, k) \in Nat \ {0}
      /\ Power(N, MaxExponent) \in Nat \ {0} /\ Power(D, MaxExponent) \in Nat \ {0}
  BY <1>1, <1>2, <1>3, PowerOfPositive
<1> DEFINE n == Power(x.n, k)
           d == Power(x.d, k)
           A == Power(N, MaxExponent)
           B == Power(D, MaxExponent)
<1>8. Abs(d) = d
  BY <1>7 DEF Abs
<1>9. n \in Int /\ d \in Nat \ {0} /\ A \in Nat /\ B \in Nat /\ Abs(n) <= A /\ d <= B /\ A < Far /\ Near(B)
  <2>1. Abs(n) \in Nat
    BY <1>5 DEF Abs
  <2> QED
    BY <1>2, <1>3, <1>5, <1>6, <1>7, <1>8, <2>1
<1> HIDE DEF n, d, A, B
<1>10. IsResult(Round(n, d))
  BY <1>9, RoundedIsDouble
<1> QED
  BY <1>10 DEF n, d

\* What an operator computes of numbers, from the doubles they round to.
NumbersHeld(a, b) == Held(a) /\ Held(b) /\ a.tag \in Numbers /\ b.tag \in Numbers

\* What is known of two held numbers and of their doubles.
LEMMA HeldNumbers ==
  ASSUME NEW a, NEW b, NumbersHeld(a, b)
  PROVE  /\ a.n \in Int /\ b.n \in Int /\ (holds_int(a) => a.n \in Int64) /\ (holds_int(b) => b.n \in Int64)
         /\ a.tag # "Str" /\ b.tag # "Str"
         /\ Numbered(as_double(a)) /\ Numbered(as_double(b))
         /\ (as_double(b).n = 0 <=> b.n = 0) /\ (as_double(b).n < 0 <=> b.n < 0)
         /\ ~holds_int(a) => a.tag = "Float"
<1>1. IsValue(a) /\ IsValue(b) /\ a.tag \in Numbers /\ b.tag \in Numbers /\ Held(a) /\ Held(b)
  BY DEF NumbersHeld, Held
<1>2. a.n \in Int /\ b.n \in Int /\ (holds_int(a) => a.n \in Int64) /\ (holds_int(b) => b.n \in Int64)
  BY <1>1, ValueIs DEF holds_int
<1>3. a.tag # "Str" /\ b.tag # "Str" /\ (~holds_int(a) => a.tag = "Float")
  BY <1>1 DEF Numbers, holds_int
<1>4. Numbered(as_double(a)) /\ Numbered(as_double(b))
      /\ (as_double(b).n = 0 <=> b.n = 0) /\ (as_double(b).n < 0 <=> b.n < 0)
  BY <1>1, DoubleOf
<1> QED
  BY <1>2, <1>3, <1>4

\* The runtime library's + - and * of two numbers are CPython's.
LEMMA AdditionAgrees ==
  ASSUME NEW a, NEW b, NumbersHeld(a, b), NEW op \in {"+", "-", "*"}
  PROVE  BinaryRun(op, a, b) = PyBinary(op, a, b) /\ IsResult(PyBinary(op, a, b))
<1> DEFINE x == as_double(a)
           y == as_double(b)
<1>1. a.n \in Int /\ b.n \in Int /\ a.tag # "Str" /\ b.tag # "Str" /\ Numbered(x) /\ Numbered(y)
  BY HeldNumbers
<1>2. PyBinary(op, a, b) = PyArithmetic(op, a, b)
  BY <1>1 DEF PyBinary
<1>3. a.n + b.n \in Int /\ a.n - b.n \in Int /\ a.n * b.n \in Int
  BY <1>1, SMT
<1>4. IsResult(checked(a.n + b.n)) /\ IsResult(checked(a.n - b.n)) /\ IsResult(checked(a.n * b.n))
  BY <1>3, ResultsAre
<1>5. Numbered(double_neg(y))
  <2>1. IsDouble(y) /\ Abs(y.n) <= 2 * MaxNumerator /\ y.d <= MaxDenominator
    BY <1>1 DEF Numbered, Within
  <2> HIDE DEF y
  <2> QED
    BY <2>1, Negated DEF Numbered, Within
<1>6. IsResult(double_add(x, y)) /\ IsResult(double_add(x, double_neg(y))) /\ IsResult(double_mul(x, y))
  <2> HIDE DEF x, y
  <2> QED
    BY <1>1, <1>5, SumOfDoubles, ProductOfDoubles
<1>7. /\ add(a, b) = IF BothIntegral(a, b) THEN checked(a.n + b.n) ELSE double_add(x, y)
      /\ sub(a, b) = IF BothIntegral(a, b) THEN checked(a.n - b.n) ELSE double_add(x, double_neg(y))
      /\ mul(a, b) = IF BothIntegral(a, b) THEN checked(a.n * b.n) ELSE double_mul(x, y)
  BY <1>1 DEF add, sub, mul, OnDoubles
<1> HIDE DEF x, y
<1>8. CASE op = "+"
  <2>1. BinaryRun(op, a, b) = add(a, b)
    BY <1>8 DEF BinaryRun
  <2>2. PyArithmetic(op, a, b) = IF BothIntegral(a, b) THEN checked(a.n + b.n) ELSE double_add(x, y)
    BY <1>8 DEF PyArithmetic, x, y
  <2> QED
    BY <1>2, <1>4, <1>6, <1>7, <2>1, <2>2
<1>9. CASE op = "-"
  <2>1. BinaryRun(op, a, b) = sub(a, b)
    BY <1>9 DEF BinaryRun
  <2>2. PyArithmetic(op, a, b) = IF BothIntegral(a, b) THEN checked(a.n - b.n) ELSE double_add(x, double_neg(y))
    BY <1>9 DEF PyArithmetic, x, y
  <2> QED
    BY <1>2, <1>4, <1>6, <1>7, <2>1, <2>2
<1>10. CASE op = "*"
  <2>1. BinaryRun(op, a, b) = mul(a, b)
    BY <1>10 DEF BinaryRun
  <2>2. PyArithmetic(op, a, b) = IF BothIntegral(a, b) THEN checked(a.n * b.n) ELSE double_mul(x, y)
    BY <1>10 DEF PyArithmetic, x, y
  <2> QED
    BY <1>2, <1>4, <1>6, <1>7, <2>1, <2>2
<1> QED
  BY <1>8, <1>9, <1>10

\* So is / where no operand is rounded first,
LEMMA DivisionAgrees ==
  ASSUME NEW a, NEW b, NumbersHeld(a, b), ~RoundedTwice("/", a, b), ~Failed(a), ~Failed(b)
  PROVE  BinaryRun("/", a, b) = PyBinary("/", a, b) /\ IsResult(PyBinary("/", a, b))
<1> DEFINE x == as_double(a)
           y == as_double(b)
           py == PyBinary("/", a, b)
<1>1. /\ a.n \in Int /\ b.n \in Int /\ a.tag # "Str" /\ b.tag # "Str" /\ Numbered(x) /\ Numbered(y)
      /\ (y.n = 0 <=> b.n = 0) /\ (y.n < 0 <=> b.n < 0)
  BY HeldNumbers
<1>2. BinaryRun("/", a, b) = truediv(a, b)
  BY DEF BinaryRun
<1>3. CASE b.n = 0
  <2>1. py = fail("ZeroDivisionError") /\ truediv(a, b) = fail("ZeroDivisionError")
    BY <1>1, <1>3 DEF PyBinary, truediv
  <2> QED
    BY <1>2, <2>1, ResultsAre
<1>4. CASE b.n # 0
  <2>1. truediv(a, b) = double_div(x, y) /\ IsResult(double_div(x, y))
    <3>1. truediv(a, b) = double_div(x, y)
      BY <1>4 DEF truediv, OnDoubles
    <3> HIDE DEF x, y
    <3> QED
      BY <1>1, <1>4, <3>1, QuotientOfDoubles
  <2>2. py = PyArithmetic("/", a, b)
    BY <1>1, <1>4 DEF PyBinary
  <2>3. PyArithmetic("/", a, b) =
          IF BothIntegral(a, b) THEN Round(a.n * (IF b.n < 0 THEN -1 ELSE 1), Abs(b.n)) ELSE double_div(x, y)
    BY DEF PyArithmetic
  <2>4. CASE BothIntegral(a, b)
    <3>1. Exact(a.n, 1) /\ Exact(b.n, 1)
      BY <1>4, <2>4 DEF RoundedTwice
    <3>2. x.n = a.n /\ x.d = 1 /\ y.n = b.n /\ y.d = 1
      BY <2>4, <3>1, DoubleOf DEF NumbersHeld, BothIntegral
    <3>3. double_div(x, y) = Round(x.n * y.d * (IF y.n < 0 THEN -1 ELSE 1), x.d * Abs(y.n))
      BY DEF double_div
    <3> HIDE DEF x, y
    <3>4. x.n * y.d = a.n /\ Abs(b.n) \in Nat /\ x.d * Abs(y.n) = Abs(b.n)
      BY <1>1, <3>2 DEF Abs
    <3>5. double_div(x, y) = Round(a.n * (IF b.n < 0 THEN -1 ELSE 1), Abs(b.n))
      BY <3>2, <3>3, <3>4
    <3> QED
      BY <1>2, <2>1, <2>2, <2>3, <2>4, <3>5
  <2>5. CASE ~BothIntegral(a, b)
    BY <1>2, <2>1, <2>2, <2>3, <2>5
  <2> QED
    BY <2>4, <2>5
<1> QED
  BY <1>3, <1>4

\* // where the quotient of two floats is exact,
LEMMA FloorAgrees ==
  ASSUME NEW a, NEW b, NumbersHeld(a, b), ~RoundedTwice("//", a, b), ~Failed(a), ~Failed(b)
  PROVE  BinaryRun("//", a, b) = PyBinary("//", a, b) /\ IsResult(PyBinary("//", a, b))
<1> DEFINE x == as_double(a)
           y == as_double(b)
           py == PyBinary("//", a, b)
<1>1. /\ a.n \in Int /\ b.n \in Int /\ a.tag # "Str" /\ b.tag # "Str" /\ Numbered(x) /\ Numbered(y)
      /\ (y.n = 0 <=> b.n = 0) /\ (holds_int(a) => a.n \in Int64) /\ (holds_int(b) => b.n \in Int64)
  BY HeldNumbers
<1>2. BinaryRun("//", a, b) = IF BothIntegral(a, b) THEN int_floordiv(a.n, b.n) ELSE double_floordiv(x, y)
  BY DEF BinaryRun, floordiv, OnDoubles
<1>3. py = IF b.n = 0 THEN fail("ZeroDivisionError")
           ELSE IF BothIntegral(a, b) THEN IntFloorDiv(a.n, b.n) ELSE FloatFloorDiv(x, y)
  BY <1>1 DEF PyBinary, PyArithmetic
<1>4. CASE BothIntegral(a, b)
  <2>1. a.n \in Int64 /\ b.n \in Int64
    BY <1>1, <1>4 DEF BothIntegral
  <2>2. int_floordiv(a.n, b.n) = IntFloorDiv(a.n, b.n)
    BY <2>1, FloorDivisionIsPythons
  <2>3. IntFloorDiv(a.n, b.n) = IF b.n = 0 THEN fail("ZeroDivisionError") ELSE checked(FloorDiv(a.n, b.n))
    BY DEF IntFloorDiv, Dividing
  <2>4. b.n # 0 => FloorDiv(a.n, b.n) \in Int
    BY <1>1, CorrectedQuotient
  <2> HIDE DEF py
  <2> QED
    BY <1>2, <1>3, <1>4, <2>2, <2>3, <2>4, ResultsAre DEF py
<1>5. CASE ~BothIntegral(a, b) /\ b.n = 0
  <2>1. double_floordiv(x, y) = fail("ZeroDivisionError")
    BY <1>1, <1>5 DEF double_floordiv
  <2> QED
    BY <1>2, <1>3, <1>5, <2>1, ResultsAre
<1>6. CASE ~BothIntegral(a, b) /\ b.n # 0
  <2>1. Exact(x.n * y.d * (IF y.n < 0 THEN -1 ELSE 1), x.d * Abs(y.n))
    BY <1>6 DEF RoundedTwice
  <2> HIDE DEF x, y
  <2>2. Exact(x.n * y.d * Sign(y.n), x.d * Abs(y.n))
    BY <2>1 DEF Sign
  <2>3. double_floordiv(x, y) = FloatFloorDiv(x, y) /\ IsResult(FloatFloorDiv(x, y))
    BY <1>1, <1>6, <2>2, FloorOfDoubles
  <2> QED
    BY <1>2, <1>3, <1>6, <2>3
<1> QED
  BY <1>4, <1>5, <1>6

\* % always,
LEMMA ModuloAgrees ==
  ASSUME NEW a, NEW b, NumbersHeld(a, b)
  PROVE  BinaryRun("%", a, b) = PyBinary("%", a, b) /\ IsResult(PyBinary("%", a, b))
<1> DEFINE x == as_double(a)
           y == as_double(b)
           py == PyBinary("%", a, b)
<1>1. /\ a.n \in Int /\ b.n \in Int /\ a.tag # "Str" /\ b.tag # "Str" /\ Numbered(x) /\ Numbered(y)
      /\ (y.n = 0 <=> b.n = 0) /\ (holds_int(a) => a.n \in Int64) /\ (holds_int(b) => b.n \in Int64)
  BY HeldNumbers
<1>2. BinaryRun("%", a, b) = IF BothIntegral(a, b) THEN int_mod(a.n, b.n) ELSE double_mod(x, y)
  BY DEF BinaryRun, mod, OnDoubles
<1>3. py = IF b.n = 0 THEN fail("ZeroDivisionError")
           ELSE IF BothIntegral(a, b) THEN IntModulo(a.n, b.n) ELSE double_mod(x, y)
  BY <1>1 DEF PyBinary, PyArithmetic
<1>4. CASE BothIntegral(a, b)
  <2>1. a.n \in Int64 /\ b.n \in Int64
    BY <1>1, <1>4 DEF BothIntegral
  <2>2. int_mod(a.n, b.n) = IntModulo(a.n, b.n)
    BY <2>1, ModuloIsPythons
  <2>3. IntModulo(a.n, b.n) = IF b.n = 0 THEN fail("ZeroDivisionError") ELSE checked(Modulo(a.n, b.n))
    BY DEF IntModulo, Dividing
  <2>4. b.n # 0 => Modulo(a.n, b.n) \in Int
    <3>1. b.n # 0 => Modulo(a.n, b.n) \in Int64
      BY <2>1, CorrectedRemainder
    <3>2. \A n \in Int64 : n \in Int
      BY NumbersAssumption DEF Int64, MinInt
    <3> QED
      BY <3>1, <3>2
  <2> HIDE DEF py
  <2> QED
    BY <1>2, <1>3, <1>4, <2>2, <2>3, <2>4, ResultsAre DEF py
<1>5. CASE ~BothIntegral(a, b) /\ b.n = 0
  <2>1. double_mod(x, y) = fail("ZeroDivisionError")
    BY <1>1, <1>5 DEF double_mod
  <2> QED
    BY <1>2, <1>3, <1>5, <2>1, ResultsAre
<1>6. CASE ~BothIntegral(a, b) /\ b.n # 0
  <2> HIDE DEF x, y
  <2>1. IsResult(double_mod(x, y))
    BY <1>1, <1>6, RemainderOfDoubles
  <2> QED
    BY <1>2, <1>3, <1>6, <2>1
<1> QED
  BY <1>4, <1>5, <1>6

\* and ** with a written exponent.
LEMMA PowerAgrees ==
  ASSUME NEW a, NEW b, NumbersHeld(a, b), b.n \in 0..MaxExponent
  PROVE  BinaryRun("**", a, b) = PyBinary("**", a, b) /\ IsResult(PyBinary("**", a, b))
<1>1. /\ a.n \in Int /\ a.tag # "Str" /\ b.tag # "Str"
      /\ (holds_int(a) => a.n \in Int64) /\ (~holds_int(a) => a.tag = "Float")
  BY HeldNumbers
<1>2. b.n \in Nat
  BY BoundsAssumption
<1> DEFINE x == Round(Power(a.n, b.n), Power(a.d, b.n))
           py == PyBinary("**", a, b)
<1>3. BinaryRun("**", a, b) = IF holds_int(a) THEN int_pow(a.n, b.n) ELSE x
  BY DEF BinaryRun, pow
<1>4. py = IF holds_int(a) THEN checked(Power(a.n, b.n)) ELSE x
  BY <1>1 DEF PyBinary, PyArithmetic
<1>5. CASE holds_int(a)
  <2>1. int_pow(a.n, b.n) = checked(Power(a.n, b.n))
    BY <1>1, <1>2, <1>5, IntPowIsPower
  <2>2. Power(a.n, b.n) \in Int
    BY <1>1, <1>2, PowerIs
  <2> QED
    BY <1>3, <1>4, <1>5, <2>1, <2>2, ResultsAre
<1>6. CASE ~holds_int(a)
  <2>1. IsResult(x)
    BY <1>1, <1>6, PowerOfDouble DEF NumbersHeld
  <2> QED
    BY <1>3, <1>4, <1>6, <2>1
<1> QED
  BY <1>5, <1>6

\* Joining and repeating a text.
LEMMA TextAgrees ==
  ASSUME NEW a, NEW b, Held(a), Held(b),
         NEW op, \/ op = "+" /\ a.tag = "Str" /\ b.tag = "Str"
                 \/ op = "*" /\ a.tag = "Str" /\ b.tag \in {"Bool", "Int"}
                 \/ op = "*" /\ b.tag = "Str" /\ a.tag \in {"Bool", "Int"}
  PROVE  BinaryRun(op, a, b) = PyBinary(op, a, b) /\ IsResult(PyBinary(op, a, b))
<1>1. a.n \in Int /\ b.n \in Int /\ (a.tag = "Str" => a.n \in Nat) /\ (b.tag = "Str" => b.n \in Nat)
  BY ValueIs DEF Held
<1>2. PyBinary(op, a, b) = PyText(op, a, b)
  BY DEF PyBinary
<1>3. CASE op = "+" /\ a.tag = "Str" /\ b.tag = "Str"
  <2>1. BinaryRun(op, a, b) = add(a, b)
    BY <1>3 DEF BinaryRun
  <2>2. add(a, b) = str(a.n + b.n)
    BY <1>3 DEF add, BothIntegral, holds_int
  <2>3. PyText(op, a, b) = str(a.n + b.n) /\ a.n + b.n \in Nat
    BY <1>1, <1>3 DEF PyText
  <2> QED
    BY <1>2, <2>1, <2>2, <2>3, ResultsAre
<1>4. CASE op = "*" /\ a.tag = "Str" /\ b.tag \in {"Bool", "Int"}
  <2> DEFINE length == a.n
             count == b.n
             long == length * count
  <2>1. BinaryRun(op, a, b) = mul(a, b)
    BY <1>4 DEF BinaryRun
  <2>2. mul(a, b) = str(IF count > 0 THEN long ELSE 0)
    BY <1>4 DEF mul, BothIntegral, holds_int, repeat
  <2>3. PyText(op, a, b) = str(IF count < 0 THEN 0 ELSE long)
    BY <1>4 DEF PyText
  <2>4. length \in Nat /\ count \in Int /\ (count > 0 => long \in Nat) /\ (count = 0 => long = 0)
    BY <1>1, <1>4, SMT
  <2> HIDE DEF length, count, long
  <2>5. (IF count < 0 THEN 0 ELSE long) \in Nat
        /\ (IF count < 0 THEN 0 ELSE long) = (IF count > 0 THEN long ELSE 0)
    BY <2>4
  <2> QED
    BY <1>2, <2>1, <2>2, <2>3, <2>5, ResultsAre
<1>5. CASE op = "*" /\ b.tag = "Str" /\ a.tag \in {"Bool", "Int"}
  <2> DEFINE length == b.n
             count == a.n
             long == length * count
  <2>1. BinaryRun(op, a, b) = mul(a, b)
    BY <1>5 DEF BinaryRun
  <2>2. mul(a, b) = str(IF count > 0 THEN long ELSE 0)
    BY <1>5 DEF mul, BothIntegral, holds_int, repeat
  <2>3. PyText(op, a, b) = str(IF count < 0 THEN 0 ELSE long)
    BY <1>5 DEF PyText
  <2>4. length \in Nat /\ count \in Int /\ (count > 0 => long \in Nat) /\ (count = 0 => long = 0)
    BY <1>1, <1>5, SMT
  <2> HIDE DEF length, count, long
  <2>5. (IF count < 0 THEN 0 ELSE long) \in Nat
        /\ (IF count < 0 THEN 0 ELSE long) = (IF count > 0 THEN long ELSE 0)
    BY <2>4
  <2> QED
    BY <1>2, <2>1, <2>2, <2>3, <2>5, ResultsAre
<1> QED
  BY <1>3, <1>4, <1>5

\* An operator of the runtime library computes what Python's does, for operands the
\* checker lets through.
LEMMA BinaryAgrees ==
  ASSUME NEW op \in Operators, NEW l \in Scalars, NEW r \in Scalars, NEW t \in Scalars,
         BinaryTyped(op, l, r, t), NEW a, NEW b, Held(a), Held(b),
         a.tag \in Admits(l.kind), b.tag \in Admits(r.kind),
         op = "**" => b.n \in 0..MaxExponent, ~RoundedTwice(op, a, b)
  PROVE  BinaryRun(op, a, b) = PyBinary(op, a, b) /\ IsResult(PyBinary(op, a, b))
<1>1. ~Failed(a) /\ ~Failed(b)
  BY ValueIs DEF Held
<1>2. CASE l.kind \in Numbers /\ r.kind \in Numbers
  <2>1. NumbersHeld(a, b)
    BY <1>2, AdmitsIs DEF NumbersHeld, Numbers
  <2>2. CASE op \in {"+", "-", "*"}
    BY <2>1, <2>2, AdditionAgrees
  <2>3. CASE op = "/"
    BY <1>1, <2>1, <2>3, DivisionAgrees
  <2>4. CASE op = "//"
    BY <1>1, <2>1, <2>4, FloorAgrees
  <2>5. CASE op = "%"
    BY <2>1, <2>5, ModuloAgrees
  <2>6. CASE op = "**"
    BY <2>1, <2>6, PowerAgrees
  <2> QED
    BY <2>2, <2>3, <2>4, <2>5, <2>6 DEF Operators
<1>3. CASE ~(l.kind \in Numbers /\ r.kind \in Numbers)
  <2>1. \/ op = "+" /\ a.tag = "Str" /\ b.tag = "Str"
        \/ op = "*" /\ a.tag = "Str" /\ b.tag \in {"Bool", "Int"}
        \/ op = "*" /\ b.tag = "Str" /\ a.tag \in {"Bool", "Int"}
    BY <1>3, AdmitsIs DEF BinaryTyped
  <2> QED
    BY <2>1, TextAgrees
<1> QED
  BY <1>2, <1>3

\* The unary operators.
LEMMA UnaryAgrees ==
  ASSUME NEW op \in {"+", "-", "not"}, NEW v, Held(v), op # "not" => v.tag \in Numbers
  PROVE  UnaryRun(op, v) = PyUnary(op, v) /\ IsResult(PyUnary(op, v))
<1>1. v.n \in Int /\ IsValue(v) /\ (holds_int(v) => v.n \in Int64)
      /\ (op # "not" /\ ~holds_int(v) => IsDouble(v))
  BY ValueIs DEF Held, holds_int, Numbers
<1>2. CASE op = "not"
  <2>1. PyUnary(op, v) = bool_(v.n = 0) /\ (v.n = 0) \in BOOLEAN
    BY <1>2 DEF PyUnary
  <2>2. UnaryRun(op, v) = bool_(~truthy(v))
    BY <1>2 DEF UnaryRun
  <2>3. bool_(~truthy(v)) = bool_(v.n = 0)
    BY DEF truthy, bool_
  <2> QED
    BY <2>1, <2>2, <2>3, ResultsAre
<1>3. CASE op = "-"
  <2>1. PyUnary(op, v) = IF holds_int(v) THEN checked(-v.n) ELSE double_neg(v)
    BY <1>3 DEF PyUnary
  <2>2. UnaryRun(op, v) = IF holds_int(v) THEN checked(-v.n) ELSE double_neg(v)
    BY <1>3 DEF UnaryRun, neg
  <2>3. IsResult(checked(-v.n))
    BY <1>1, ResultsAre
  <2>4. ~holds_int(v) => IsResult(double_neg(v))
    BY <1>1, <1>3, Negated
  <2> QED
    BY <2>1, <2>2, <2>3, <2>4
<1>4. CASE op = "+"
  <2>1. PyUnary(op, v) = IF holds_int(v) THEN int_(v.n) ELSE v
    BY <1>4 DEF PyUnary
  <2>2. UnaryRun(op, v) = IF holds_int(v) THEN int_(v.n) ELSE v
    BY <1>4 DEF UnaryRun, pos
  <2>3. holds_int(v) => IsResult(int_(v.n))
    <3>1. int_(v.n).n = v.n
      BY TagsOfResults DEF int_
    <3> QED
      BY <1>1, <3>1 DEF IsResult, IsValue
  <2>4. IsResult(v)
    BY <1>1 DEF IsResult
  <2> QED
    BY <2>1, <2>2, <2>3, <2>4
<1> QED
  BY <1>2, <1>3, <1>4

(***************************************************************************)
(* Comparison: whatever the slots' types, by the exact values.             *)
(***************************************************************************)
LEMMA OrderIs ==
  ASSUME NEW i \in Int, NEW j \in Int
  PROVE  /\ (Order(i, j) = -1) <=> i < j
         /\ (Order(i, j) = 0) <=> i = j
         /\ -Order(i, j) = Order(j, i)
<1>1. (Order(i, j) = -1) <=> i < j
  BY DEF Order
<1>2. (Order(i, j) = 0) <=> i = j
  BY DEF Order
<1>3. -Order(i, j) = Order(j, i)
  BY DEF Order
<1> QED
  BY <1>1, <1>2, <1>3

\* A truth value against an int that is far from it, or is the same as its double.
LEMMA BoolAgainst ==
  ASSUME NEW a \in {0, 1}, NEW n \in Int, NEW x \in Int, (x < 0 <=> n < 0), (x = 0 <=> n = 0),
         Abs(n) >= 2 => Abs(x) >= 2, Abs(n) <= 1 => x = n
  PROVE  Order(a, x) = Order(a, n) /\ Order(x, a) = Order(n, a)
<1>1. (a < x <=> a < n) /\ (a = x <=> a = n) /\ (x < a <=> n < a)
  BY DEF Abs
<1> QED
  BY <1>1 DEF Order

\* The order of an int and a float, as an order of quotients.
LEMMA MixedIs ==
  ASSUME NEW i \in Int64, NEW x, IsDouble(x)
  PROVE  compare_int64_and_double(i, x) = Order(i * x.d, x.n)
<1>1. x.n \in Int /\ x.d \in Nat \ {0} /\ x = value("Float", x.n, x.d)
  BY DEF IsDouble
<1>2. compare_int64_and_double(i, value("Float", x.n, x.d)) = Order(i * x.d, x.n)
  BY <1>1, MixedComparisonIsExact
<1> QED
  BY <1>1, <1>2

\* Two slots of the types bool and float have only the template, on the raw doubles.
LEMMA RawComparison ==
  ASSUME NEW a, NEW b, NumbersHeld(a, b), "Bool" \in {a.tag, b.tag}
  PROVE  OnDoubles(compare_doubles, a, b) = Order(a.n * b.d, b.n * a.d)
<1> DEFINE x == as_double(a)
           y == as_double(b)
<1>1. /\ (x.n = 0 <=> a.n = 0) /\ (x.n < 0 <=> a.n < 0) /\ (~holds_int(a) => x = a)
      /\ holds_int(a) => x.d = 1 /\ a.d = 1
      /\ holds_int(a) => (Abs(a.n) >= 2 => Abs(x.n) >= 2) /\ (Abs(a.n) <= 1 => x.n = a.n)
      /\ Numbered(x)
  BY DoubleOf DEF NumbersHeld
<1>2. /\ (y.n = 0 <=> b.n = 0) /\ (y.n < 0 <=> b.n < 0) /\ (~holds_int(b) => y = b)
      /\ holds_int(b) => y.d = 1 /\ b.d = 1
      /\ holds_int(b) => (Abs(b.n) >= 2 => Abs(y.n) >= 2) /\ (Abs(b.n) <= 1 => y.n = b.n)
      /\ Numbered(y)
  BY DoubleOf DEF NumbersHeld
<1>3. OnDoubles(compare_doubles, a, b) = Order(x.n * y.d, y.n * x.d)
  BY DEF OnDoubles, compare_doubles
<1> HIDE DEF x, y
<1>4. x.n \in Int /\ x.d \in Nat \ {0} /\ y.n \in Int /\ y.d \in Nat \ {0}
  BY <1>1, <1>2, NumberedIs
<1>5. a.n \in Int /\ b.n \in Int /\ a.d \in Nat \ {0} /\ b.d \in Nat \ {0}
      /\ (a.tag = "Bool" => a.n \in {0, 1}) /\ (b.tag = "Bool" => b.n \in {0, 1})
  BY ValueIs DEF NumbersHeld, Held
<1>6. CASE a.tag = "Bool"
  <2>1. a.n \in {0, 1} /\ holds_int(a)
    BY <1>5, <1>6 DEF holds_int
  <2>2. x.n = a.n /\ x.d = 1 /\ a.d = 1
    BY <1>1, <2>1 DEF Abs
  <2>3. y.n * x.d = y.n /\ b.n * a.d = b.n
    BY <1>4, <1>5, <2>2
  <2>4. CASE holds_int(b)
    <3>1. y.d = 1 /\ b.d = 1 /\ x.n * y.d = a.n /\ a.n * b.d = a.n
      BY <1>2, <1>4, <1>5, <2>2, <2>4
    <3>2. Order(a.n, y.n) = Order(a.n, b.n)
      BY <1>2, <1>4, <1>5, <2>1, <2>4, BoolAgainst
    <3> QED
      BY <1>3, <2>3, <3>1, <3>2
  <2>5. CASE ~holds_int(b)
    BY <1>2, <1>3, <2>2, <2>3, <2>5
  <2> QED
    BY <2>4, <2>5
<1>7. CASE b.tag = "Bool"
  <2>1. b.n \in {0, 1} /\ holds_int(b)
    BY <1>5, <1>7 DEF holds_int
  <2>2. y.n = b.n /\ y.d = 1 /\ b.d = 1
    BY <1>2, <2>1 DEF Abs
  <2>3. x.n * y.d = x.n /\ a.n * b.d = a.n
    BY <1>4, <1>5, <2>2
  <2>4. CASE holds_int(a)
    <3>1. x.d = 1 /\ a.d = 1 /\ y.n * x.d = b.n /\ b.n * a.d = b.n
      BY <1>1, <1>4, <1>5, <2>2, <2>4
    <3>2. Order(x.n, b.n) = Order(a.n, b.n)
      BY <1>1, <1>4, <1>5, <2>1, <2>4, BoolAgainst
    <3> QED
      BY <1>3, <2>3, <3>1, <3>2
  <2>5. CASE ~holds_int(a)
    BY <1>1, <1>3, <2>2, <2>3, <2>5
  <2> QED
    BY <2>4, <2>5
<1> QED
  BY <1>6, <1>7

\* Whatever overload of compare is chosen, the order is the one of the quotients.
LEMMA CompareIs ==
  ASSUME NEW a, NEW b, NEW s, NEW t, Held(a), Held(b),
         NumbersHeld(a, b) \/ (a.tag = "Str" /\ b.tag = "Str"),
         s = "py::bool_" => a.tag = "Bool", t = "py::bool_" => b.tag = "Bool"
  PROVE  compare(a, s, b, t) = Order(a.n * b.d, b.n * a.d) /\ a.n * b.d \in Int /\ b.n * a.d \in Int
<1>1. /\ a.n \in Int /\ b.n \in Int /\ a.d \in Nat \ {0} /\ b.d \in Nat \ {0}
      /\ (a.tag # "Float" => a.d = 1) /\ (b.tag # "Float" => b.d = 1)
      /\ (a.tag = "Float" => IsDouble(a)) /\ (b.tag = "Float" => IsDouble(b))
      /\ (holds_int(a) => a.n \in Int64) /\ (holds_int(b) => b.n \in Int64)
  BY ValueIs DEF Held, holds_int
<1> DEFINE i == a.n * b.d
           j == b.n * a.d
<1>2. i \in Int /\ j \in Int
  BY <1>1, SMT
<1>3. CASE {s, t} = {"py::bool_", "py::float_"}
  <2>1. "Bool" \in {a.tag, b.tag}
    BY <1>3
  <2>2. NumbersHeld(a, b)
    BY <2>1
  <2>3. compare(a, s, b, t) = OnDoubles(compare_doubles, a, b)
    BY <1>3 DEF compare
  <2> QED
    BY <1>2, <2>1, <2>2, <2>3, RawComparison
<1>4. CASE {s, t} # {"py::bool_", "py::float_"}
  <2>1. compare(a, s, b, t) =
          IF a.tag = "Str" \/ BothIntegral(a, b) THEN Order(a.n, b.n)
          ELSE IF holds_int(a) THEN compare_int64_and_double(a.n, b)
          ELSE IF holds_int(b) THEN -compare_int64_and_double(b.n, a)
          ELSE compare_doubles(a, b)
    BY <1>4 DEF compare
  <2>2. CASE a.tag = "Str" \/ BothIntegral(a, b)
    <3>1. a.d = 1 /\ b.d = 1
      BY <1>1, <2>2 DEF NumbersHeld, Numbers, BothIntegral, holds_int
    <3>2. i = a.n /\ j = b.n
      BY <1>1, <3>1
    <3> QED
      BY <1>2, <2>1, <2>2, <3>2
  <2>3. CASE NumbersHeld(a, b) /\ holds_int(a) /\ ~holds_int(b)
    <3>1. a.d = 1 /\ IsDouble(b) /\ a.n \in Int64 /\ a.tag # "Str" /\ ~BothIntegral(a, b)
      BY <1>1, <2>3 DEF NumbersHeld, Numbers, BothIntegral, holds_int
    <3>2. compare(a, s, b, t) = Order(a.n * b.d, b.n)
      BY <2>1, <2>3, <3>1, MixedIs
    <3>3. j = b.n
      BY <1>1, <3>1
    <3> QED
      BY <1>2, <3>2, <3>3
  <2>4. CASE NumbersHeld(a, b) /\ ~holds_int(a) /\ holds_int(b)
    <3>1. b.d = 1 /\ IsDouble(a) /\ b.n \in Int64 /\ a.tag # "Str" /\ ~BothIntegral(a, b)
      BY <1>1, <2>4 DEF NumbersHeld, Numbers, BothIntegral, holds_int
    <3>2. compare(a, s, b, t) = -Order(b.n * a.d, a.n)
      BY <2>1, <2>4, <3>1, MixedIs
    <3>3. i = a.n
      BY <1>1, <3>1
    <3> HIDE DEF i, j
    <3>4. compare(a, s, b, t) = -Order(j, i)
      BY <3>2, <3>3 DEF j
    <3>5. -Order(j, i) = Order(i, j)
      BY <1>2, OrderIs
    <3> QED
      BY <1>2, <3>4, <3>5 DEF i, j
  <2>5. CASE NumbersHeld(a, b) /\ ~holds_int(a) /\ ~holds_int(b)
    <3>1. a.tag # "Str" /\ ~BothIntegral(a, b)
      BY <2>5 DEF NumbersHeld, Numbers, BothIntegral
    <3>2. compare_doubles(a, b) = Order(i, j)
      BY DEF compare_doubles
    <3> QED
      BY <1>2, <2>1, <2>5, <3>1, <3>2
  <2> QED
    BY <2>2, <2>3, <2>4, <2>5 DEF BothIntegral
<1> QED
  BY <1>3, <1>4

\* A comparison in the runtime library is CPython's.
LEMMA CompareAgrees ==
  ASSUME NEW op \in {"<", "=="}, NEW l, NEW r, NEW a, NEW b, Held(a), Held(b),
         comparison_operands_are_runtime_comparable(l.type, r.type), l.type \in Scalars, r.type \in Scalars,
         a.tag \in Admits(l.type.kind), b.tag \in Admits(r.type.kind),
         l.cpp = "py::bool_" => a.tag = "Bool", r.cpp = "py::bool_" => b.tag = "Bool"
  PROVE  CompareRun(op, l, r, a, b) = PyCompare(op, a, b) /\ IsResult(PyCompare(op, a, b))
<1>1. NumbersHeld(a, b) \/ (a.tag = "Str" /\ b.tag = "Str")
  <2>1. CASE l.type.kind \in Numbers /\ r.type.kind \in Numbers
    BY <2>1, AdmitsIs DEF NumbersHeld, Numbers
  <2>2. CASE l.type.kind = "Str" /\ r.type.kind = "Str"
    BY <2>2, AdmitsIs
  <2> QED
    BY <2>1, <2>2, ComparableTypes
<1> DEFINE i == a.n * b.d
           j == b.n * a.d
           c == compare(a, l.cpp, b, r.cpp)
<1>2. c = Order(i, j) /\ i \in Int /\ j \in Int
  BY <1>1, CompareIs
<1>3. /\ op = "<" => CompareRun(op, l, r, a, b) = bool_(c = -1) /\ PyCompare(op, a, b) = bool_(i < j)
      /\ op = "==" => CompareRun(op, l, r, a, b) = bool_(c = 0) /\ PyCompare(op, a, b) = bool_(i = j)
  BY DEF CompareRun, PyCompare
<1> HIDE DEF i, j, c
<1>4. (c = -1) = (i < j) /\ (c = 0) = (i = j)
  BY <1>2, OrderIs
<1>5. (i < j) \in BOOLEAN /\ (i = j) \in BOOLEAN
  BY <1>2
<1> QED
  BY <1>3, <1>4, <1>5, ResultsAre

(***************************************************************************)
(* Outcomes.                                                               *)
(***************************************************************************)
IsOutcome(o) == o = Outcome(o.trace, o.value) /\ o.trace \in Seq(DOMAIN Defs)

\* Two outcomes, the first one first, and the value made of both.
Joined(first, second, v) ==
  IF Failed(first.value) THEN first
  ELSE Outcome(first.trace \o second.trace, IF Failed(second.value) THEN second.value ELSE v)

\* The parts of an outcome.
LEMMA OutcomeIs ==
  ASSUME NEW t, NEW v
  PROVE  Outcome(t, v).trace = t /\ Outcome(t, v).value = v
BY DEF Outcome

\* Joining two outcomes gives one; its value is the first failure, or what is made of both.
LEMMA JoinedIs ==
  ASSUME NEW f, NEW s, NEW v, IsOutcome(f), IsOutcome(s)
  PROVE  LET q == Joined(f, s, v) IN
         /\ IsOutcome(q)
         /\ q.value = IF Failed(f.value) THEN f.value ELSE IF Failed(s.value) THEN s.value ELSE v
<1> DEFINE q == Joined(f, s, v)
           D == DOMAIN Defs
           t == f.trace \o s.trace
           w == IF Failed(s.value) THEN s.value ELSE v
<1>1. t \in Seq(D)
  <2>1. f.trace \in Seq(D) /\ s.trace \in Seq(D)
    BY DEF IsOutcome
  <2> HIDE DEF D
  <2> QED
    BY <2>1, ConcatProperties
<1>2. CASE Failed(f.value)
  BY <1>2 DEF Joined
<1>3. CASE ~Failed(f.value)
  <2>1. q = Outcome(t, w)
    BY <1>3 DEF Joined
  <2> HIDE DEF t, q, w
  <2>2. q.trace = t /\ q.value = w
    BY <2>1, OutcomeIs
  <2>3. IsOutcome(q)
    BY <1>1, <2>1, <2>2 DEF IsOutcome
  <2> QED
    BY <1>3, <2>2, <2>3 DEF q, w
<1> QED
  BY <1>2, <1>3

\* The order does not matter unless both have an effect.
LEMMA JoinedEither ==
  ASSUME NEW f, NEW s, NEW v, IsOutcome(f), IsOutcome(s), ~(Effects(f) /\ Effects(s))
  PROVE  Joined(f, s, v) = Joined(s, f, v)
<1> DEFINE D == DOMAIN Defs
<1>1. \A t \in Seq(D) : <<>> \o t = t /\ t \o <<>> = t
  <2> TAKE t \in Seq(D)
  <2> HIDE DEF D
  <2> QED
    BY ConcatEmptySeq
<1>2. f = Outcome(f.trace, f.value) /\ s = Outcome(s.trace, s.value) /\ f.trace \in Seq(D) /\ s.trace \in Seq(D)
  BY DEF IsOutcome
<1> HIDE DEF D
<1>3. CASE f.trace = <<>> /\ ~Failed(f.value)
  <2>1. Joined(f, s, v) = Outcome(s.trace, IF Failed(s.value) THEN s.value ELSE v)
    BY <1>1, <1>2, <1>3 DEF Joined
  <2>2. Joined(s, f, v) = IF Failed(s.value) THEN s ELSE Outcome(s.trace, v)
    BY <1>1, <1>2, <1>3 DEF Joined
  <2> QED
    BY <1>2, <2>1, <2>2
<1>4. CASE s.trace = <<>> /\ ~Failed(s.value)
  <2>1. Joined(s, f, v) = Outcome(f.trace, IF Failed(f.value) THEN f.value ELSE v)
    BY <1>1, <1>2, <1>4 DEF Joined
  <2>2. Joined(f, s, v) = IF Failed(f.value) THEN f ELSE Outcome(f.trace, v)
    BY <1>1, <1>2, <1>4 DEF Joined
  <2> QED
    BY <1>2, <2>1, <2>2
<1> QED
  BY <1>3, <1>4 DEF Effects

\* The value, of any two.
LEMMA JoinedValue ==
  ASSUME NEW f, NEW s, NEW v
  PROVE  Joined(f, s, v).value = IF Failed(f.value) THEN f.value ELSE IF Failed(s.value) THEN s.value ELSE v
BY OutcomeIs DEF Joined

\* Whichever order the outcomes of two arguments are joined in, the value is CPython's or a
\* failure.
LEMMA PairOfRuns ==
  ASSUME NEW l, NEW r, NEW v, NEW x, NEW y, NEW w, NEW q,
         Failed(x.value) \/ x.value = l.value, Failed(y.value) \/ y.value = r.value,
         ~Failed(l.value) /\ ~Failed(r.value) => w = v,
         q = Joined(x, y, w) \/ q = Joined(y, x, w)
  PROVE  Failed(q.value) \/ q.value = Joined(l, r, v).value
<1>1. /\ Joined(x, y, w).value = IF Failed(x.value) THEN x.value ELSE IF Failed(y.value) THEN y.value ELSE w
      /\ Joined(y, x, w).value = IF Failed(y.value) THEN y.value ELSE IF Failed(x.value) THEN x.value ELSE w
      /\ Joined(l, r, v).value = IF Failed(l.value) THEN l.value ELSE IF Failed(r.value) THEN r.value ELSE v
  BY JoinedValue
<1> QED
  BY <1>1

\* The same, of the outcomes themselves, where the order does not matter.
LEMMA PairOfOutcomes ==
  ASSUME NEW l, NEW r, NEW v, NEW w, IsOutcome(l), IsOutcome(r), ~(Effects(l) /\ Effects(r)),
         ~Failed(l.value) /\ ~Failed(r.value) => w = v
  PROVE  Joined(l, r, w) = Joined(l, r, v) /\ Joined(r, l, w) = Joined(l, r, v)
<1>1. Joined(r, l, w) = Joined(l, r, w)
  BY JoinedEither
<1>2. Joined(l, r, w) = Joined(l, r, v)
  BY DEF Joined
<1> QED
  BY <1>1, <1>2

(***************************************************************************)
(* Widening leaves the object alone.                                       *)
(***************************************************************************)
LEMMA WidenedValue ==
  ASSUME NEW v, Held(v)
  PROVE  to_float(v) = v /\ (v.tag # "Float" => to_int(v) = v)
<1>1. v = value(v.tag, v.n, v.d) /\ (v.tag # "Float" => v.d = 1)
  BY ValueIs DEF Held
<1> QED
  BY <1>1 DEF to_float, to_int

\* What is known of the outcomes of an operand, from its marks.
Faithful(marks) == "limit" \notin marks /\ "rounded" \notin marks
\* And where no text is known to differ.
Certain(marks) == Faithful(marks) /\ "trapped" \notin marks /\ "unsequenced" \notin marks

\* What holds of the outcomes of an operand: where every number is exact, each run ends in
\* CPython's value or fails; where the operand has none of the marks, each run is CPython's.
RightRuns(py, runs, marks) ==
  /\ IsOutcome(py)
  /\ Faithful(marks) => /\ Failed(py.value) \/ Held(py.value)
                        /\ \A q \in runs : Failed(q.value) \/ q.value = py.value
  /\ Certain(marks) => runs = {py}

\* A conversion of an outcome.
LEMMA MappedIs ==
  ASSUME NEW q
  PROVE  /\ Failed(q.value) => Mapped(q, to_int) = q /\ Mapped(q, to_float) = q
         /\ ~Failed(q.value) => /\ Mapped(q, to_int) = Outcome(q.trace, to_int(q.value))
                                /\ Mapped(q, to_float) = Outcome(q.trace, to_float(q.value))
BY DEF Mapped

\* Converting an operand keeps what holds of its outcomes.
LEMMA WidenedRuns ==
  ASSUME NEW py, NEW runs, NEW marks, RightRuns(py, runs, marks), NEW new,
         \/ new = {Mapped(q, to_float) : q \in runs}
         \/ new = {Mapped(q, to_int) : q \in runs} /\ (Failed(py.value) \/ py.value.tag = "Bool")
  PROVE  RightRuns(py, new, marks)
<1>1. IsOutcome(py) /\ py = Outcome(py.trace, py.value)
  BY DEF RightRuns, IsOutcome
<1>2. ASSUME NEW q, Failed(q.value) \/ q.value = py.value, Failed(py.value) \/ Held(py.value)
      PROVE  /\ Mapped(q, to_float).value = q.value
             /\ Failed(py.value) \/ py.value.tag = "Bool" => Mapped(q, to_int).value = q.value
             /\ q = py => Mapped(q, to_float) = py
             /\ (q = py) /\ (Failed(py.value) \/ py.value.tag = "Bool") => Mapped(q, to_int) = py
  <2>1. CASE Failed(q.value)
    BY <2>1, MappedIs
  <2>2. CASE ~Failed(q.value)
    <3>1. q.value = py.value /\ ~Failed(py.value) /\ Held(py.value)
      BY <1>2, <2>2
    <3>2. to_float(q.value) = q.value /\ (py.value.tag = "Bool" => to_int(q.value) = q.value)
      BY <3>1, WidenedValue
    <3>3. /\ Mapped(q, to_int) = Outcome(q.trace, to_int(q.value))
          /\ Mapped(q, to_float) = Outcome(q.trace, to_float(q.value))
      BY <2>2, MappedIs
    <3>4. /\ Mapped(q, to_float).value = q.value
          /\ py.value.tag = "Bool" => Mapped(q, to_int).value = q.value
      BY <3>2, <3>3, OutcomeIs
    <3> QED
      BY <1>1, <3>1, <3>2, <3>3, <3>4
  <2> QED
    BY <2>1, <2>2
<1>3. ASSUME Faithful(marks), NEW p \in new PROVE Failed(p.value) \/ p.value = py.value
  <2>1. /\ Failed(py.value) \/ Held(py.value)
        /\ \A q \in runs : Failed(q.value) \/ q.value = py.value
    BY <1>3 DEF RightRuns
  <2>2. \E q \in runs : \/ p = Mapped(q, to_float)
                        \/ (p = Mapped(q, to_int) /\ (Failed(py.value) \/ py.value.tag = "Bool"))
    OBVIOUS
  <2>3. PICK q \in runs : \/ p = Mapped(q, to_float)
                         \/ (p = Mapped(q, to_int) /\ (Failed(py.value) \/ py.value.tag = "Bool"))
    BY <2>2
  <2>4. Failed(q.value) \/ q.value = py.value
    BY <2>1
  <2>5. p.value = q.value
    BY <1>2, <2>1, <2>3, <2>4
  <2> QED
    BY <2>4, <2>5
<1>4. ASSUME Certain(marks) PROVE new = {py}
  <2>1. runs = {py} /\ (Failed(py.value) \/ Held(py.value))
    BY <1>4 DEF RightRuns, Certain
  <2>2. /\ Mapped(py, to_float) = py
        /\ (Failed(py.value) \/ py.value.tag = "Bool") => Mapped(py, to_int) = py
    BY <1>2, <2>1
  <2>3. new = {Mapped(py, to_float)} \/ (new = {Mapped(py, to_int)} /\ (Failed(py.value) \/ py.value.tag = "Bool"))
    BY <2>1
  <2> QED
    BY <2>2, <2>3
<1>5. Faithful(marks) => Failed(py.value) \/ Held(py.value)
  BY DEF RightRuns
<1> QED
  BY <1>1, <1>3, <1>4, <1>5 DEF RightRuns

(***************************************************************************)
(* The inductive invariant of the outcomes.                                *)
(***************************************************************************)
RightOperand(e) ==
  /\ RightRuns(e.py, e.runs, e.marks)
  /\ "limit" \in e.marks => e = Literal(int_(MaxInt + 1))
  /\ e.bare_int => e.py.value.n \in Nat

\* The strengthening, of a slot.
RightSlot(s) ==
  /\ "unsequenced" \notin s.marks
  /\ "rounded" \notin s.marks => Held(s.py) /\ s.cpp = s.py

\* The inductive invariant of the values.
RightInv ==
  /\ \A e \in Operands : RightOperand(e)
  /\ \A s \in SetSlots : RightSlot(s)

\* A right node in place of its operands keeps the invariant.
LEMMA RightPush ==
  ASSUME TypedInv, RightInv, NEW count \in Nat, count <= Len(operands), NEW e, Replace(count, e),
         RightOperand(e)
  PROVE  RightInv'
<1>1. IsStack /\ (\A f \in Operands : RightOperand(f)) /\ (\A s \in SetSlots : RightSlot(s))
  BY DEF TypedInv, RightInv
<1>2. (\A f \in Operands' : f = e \/ f \in Operands) /\ slots' = slots
  BY <1>1, Replaced
<1>3. SetSlots' = SetSlots
  BY <1>2 DEF SetSlots, IsBound
<1>4. \A f \in Operands' : RightOperand(f)
  BY <1>1, <1>2
<1> QED
  BY <1>1, <1>3, <1>4 DEF RightInv

\* Operands that are ready are right.
LEMMA RightReady ==
  ASSUME TypedInv, RightInv, NEW count \in Nat, Ready(count), NEW k \in Nat, k < count
  PROVE  /\ TypedOperand(Top(k)) /\ RightOperand(Top(k)) /\ "limit" \notin Top(k).marks
         /\ count <= Len(operands)
<1>1. Top(k) \in Operands /\ TypedOperand(Top(k)) /\ "limit" \notin Top(k).marks /\ count <= Len(operands)
  BY ReadyIs
<1> QED
  BY <1>1 DEF RightInv

\* A node, from what is known of its outcomes.
LEMMA RightNode ==
  ASSUME TypedInv, RightInv, NEW count \in Nat, count <= Len(operands),
         NEW type, NEW cpp, NEW py, NEW runs, NEW marks,
         Replace(count, Node(type, cpp, py, runs, marks)),
         "limit" \notin marks, IsOutcome(py),
         Faithful(marks) => /\ IsResult(py.value)
                            /\ \A q \in runs : Failed(q.value) \/ q.value = py.value,
         Certain(marks) => runs = {py}
  PROVE  RightInv'
<1> DEFINE e == Node(type, cpp, py, runs, marks)
<1>1. e.py = py /\ e.runs = runs /\ e.marks = marks /\ e.bare_int = FALSE
  BY DEF Node
<1>2. Abs(e.py.value.n) <= MaxNumerator /\ e.py.value.d <= MaxDenominator
  BY DEF Replace
<1> HIDE DEF e
<1>3. Faithful(marks) => Failed(py.value) \/ Held(py.value)
  BY <1>1, <1>2 DEF IsResult, Held
<1>4. RightRuns(py, runs, marks)
  BY <1>3 DEF RightRuns
<1>5. RightOperand(e)
  BY <1>1, <1>4 DEF RightOperand
<1>6. Replace(count, e)
  BY DEF e
<1> QED
  BY <1>5, <1>6, RightPush

\* The marks of a node with two operands.
LEMMA MarksOfPair ==
  ASSUME NEW l, NEW r
  PROVE  LET marks == PairMarks(l, r) IN
         /\ \A mark \in {"limit", "rounded", "trapped"} :
              mark \notin marks => mark \notin l.marks /\ mark \notin r.marks
         /\ "limit" \notin l.marks /\ "limit" \notin r.marks => "limit" \notin marks
         /\ "unsequenced" \notin marks =>
              "unsequenced" \notin l.marks /\ "unsequenced" \notin r.marks /\ ~(Effects(l.py) /\ Effects(r.py))
BY DEF PairMarks

\* Nothing has been printed.
LEMMA QuietOutcome ==
  ASSUME NEW v
  PROVE  IsOutcome(Outcome(<<>>, v))
<1> DEFINE D == DOMAIN Defs
<1>1. <<>> \in Seq(D)
  <2> HIDE DEF D
  <2> QED
    OBVIOUS
<1>2. Outcome(<<>>, v).trace = <<>> /\ Outcome(<<>>, v).value = v
  BY OutcomeIs
<1> QED
  BY <1>1, <1>2 DEF IsOutcome

\* The step of a literal: only one beyond int64_t differs from its text.
LEMMA RightConstant ==
  ASSUME TypedInv, RightInv, Constant
  PROVE  RightInv'
<1>1. PICK v \in Literals : (v.tag = "Int" => v.n <= MaxInt + 1) /\ Replace(0, Literal(v))
  BY DEF Constant
<1> DEFINE e == Literal(v)
           fits == v.tag # "Int" \/ v.n <= MaxInt
           run == Outcome(<<>>, IF fits THEN v ELSE int_(MinInt))
<1>2. /\ e.py = Outcome(<<>>, v) /\ e.runs = {run} /\ e.marks = (IF fits THEN {} ELSE {"limit"})
      /\ e.bare_int = (v.tag = "Int")
  BY DEF Literal
<1>3. Abs(e.py.value.n) <= MaxNumerator /\ e.py.value.d <= MaxDenominator
  BY <1>1 DEF Replace
<1>4. e.py.value = v /\ e.py.trace = <<>>
  BY <1>2, OutcomeIs
<1>5. \/ v \in {bool_(TRUE), bool_(FALSE), none}
      \/ v.n \in Nat /\ v = int_(v.n)
      \/ v.n \in Nat /\ v = str(v.n)
      \/ v.n \in Nat /\ v.d \in Nat \ {0} /\ v = Round(v.n, v.d)
  BY LiteralsAssumption
<1>6. v.tag = "Int" => v.n \in Nat /\ v = int_(v.n)
  BY <1>5, TagsOfResults DEF bool_, none, str
<1>7. fits => Held(v)
  <2> SUFFICES ASSUME fits PROVE Held(v)
    OBVIOUS
  <2>1. CASE v \in {bool_(TRUE), bool_(FALSE), none}
    BY <1>3, <1>4, <2>1 DEF Held, IsValue
  <2>2. CASE v.n \in Nat /\ v = int_(v.n)
    <3>1. v.tag = "Int"
      BY <2>2, TagsOfResults DEF int_
    <3>2. v.n \in Int64
      BY <2>2, <3>1, NumbersAssumption DEF Int64, MinInt
    <3> QED
      BY <1>3, <1>4, <2>2, <3>2 DEF Held, IsValue
  <2>3. CASE v.n \in Nat /\ v = str(v.n)
    BY <1>3, <1>4, <2>3 DEF Held, IsValue
  <2>4. CASE v.n \in Nat /\ v.d \in Nat \ {0} /\ v = Round(v.n, v.d)
    <3> DEFINE N == MaxNumerator
               D == MaxDenominator
    <3>1. N \in Nat \ {0} /\ D \in Nat \ {0} /\ N * N \in Nat \ {0} /\ D * D \in Nat \ {0}
          /\ 4 * (N * N) < Far /\ Near(D * D) /\ Far \in Nat
      BY RangeIs
    <3>2. Abs(v.n) <= N /\ v.d <= D
      BY <1>3, <1>4
    <3> HIDE DEF N, D
    <3>3. N <= N * N /\ D <= D * D
      BY <3>1, SMT
    <3>4. N < Far /\ Near(D)
      BY <3>1, <3>3, NearBelow
    <3>5. IsValue(Round(v.n, v.d))
      BY <2>4, <3>1, <3>2, <3>4, RoundedIsDouble
    <3> QED
      BY <2>4, <3>2, <3>5 DEF Held, N, D
  <2> QED
    BY <1>5, <2>1, <2>2, <2>3, <2>4
<1>8. "limit" \in e.marks => e = Literal(int_(MaxInt + 1))
  <2> SUFFICES ASSUME ~fits PROVE v = int_(MaxInt + 1)
    BY <1>2
  <2>1. v.n = MaxInt + 1
    BY <1>1, <1>6, NumbersAssumption
  <2> QED
    BY <1>6, <2>1
<1>9. RightRuns(e.py, e.runs, e.marks)
  <2>1. IsOutcome(e.py)
    BY <1>2, QuietOutcome
  <2>2. fits => run = e.py
    BY <1>2
  <2>3. ~fits => "limit" \in e.marks
    BY <1>2
  <2> HIDE DEF e, fits, run
  <2>4. Faithful(e.marks) => fits
    BY <2>3 DEF Faithful
  <2>5. fits => Held(e.py.value) /\ e.runs = {e.py}
    BY <1>2, <1>4, <1>7, <2>2
  <2> QED
    BY <2>1, <2>4, <2>5 DEF RightRuns, Certain
<1>10. e.bare_int => e.py.value.n \in Nat
  BY <1>2, <1>4, <1>6
<1> HIDE DEF e
<1>11. RightOperand(e)
  BY <1>8, <1>9, <1>10 DEF RightOperand
<1>12. Replace(0, e) /\ 0 <= Len(operands)
  BY <1>1 DEF e, TypedInv, IsStack
<1> QED
  BY <1>11, <1>12, RightPush

\* The step of a name: nothing is printed, the slot's object is read.
LEMMA RightName ==
  ASSUME TypedInv, RightInv, Name
  PROVE  RightInv'
<1>1. PICK x \in Names :
        /\ IsBound(x)
        /\ Replace(0, [type |-> slots[x].read, cpp |-> cpp_type_name(slots[x].declared),
                       py |-> Outcome(<<>>, slots[x].py), runs |-> {Outcome(<<>>, slots[x].cpp)},
                       bare_int |-> FALSE,
                       marks |-> slots[x].marks \union
                                   (IF slots[x].read = slots[x].declared THEN {}
                                    ELSE {"narrowed"})])
  BY DEF Name
<1> DEFINE s == slots[x]
           e == [type |-> s.read, cpp |-> cpp_type_name(s.declared), py |-> Outcome(<<>>, s.py),
                 runs |-> {Outcome(<<>>, s.cpp)}, bare_int |-> FALSE,
                 marks |-> s.marks \union (IF s.read = s.declared THEN {} ELSE {"narrowed"})]
<1>2. Replace(0, e)
  BY <1>1
<1>3. RightSlot(s) /\ TypedSlot(s)
  BY <1>1 DEF RightInv, TypedInv, SetSlots
<1>4. /\ e.py = Outcome(<<>>, s.py) /\ e.runs = {Outcome(<<>>, s.cpp)} /\ e.bare_int = FALSE
      /\ e.marks = s.marks \union (IF s.read = s.declared THEN {} ELSE {"narrowed"})
  OBVIOUS
<1> HIDE DEF s, e
<1>5. e.py.value = s.py /\ e.py.trace = <<>>
  BY <1>4, OutcomeIs
<1>6. "limit" \notin e.marks
  BY <1>3, <1>4 DEF TypedSlot
<1>7. IsOutcome(e.py)
  BY <1>4, QuietOutcome
<1>8. "rounded" \notin e.marks => Held(e.py.value) /\ e.runs = {e.py}
  BY <1>3, <1>4, <1>5 DEF RightSlot
<1>9. RightRuns(e.py, e.runs, e.marks)
  BY <1>7, <1>8 DEF RightRuns, Faithful, Certain
<1>10. RightOperand(e)
  BY <1>4, <1>6, <1>9 DEF RightOperand
<1>11. 0 <= Len(operands)
  BY DEF TypedInv, IsStack
<1> QED
  BY <1>2, <1>10, <1>11, RightPush

\* The operand of an arithmetic operator keeps its outcomes.
LEMMA OperandRuns ==
  ASSUME NEW e, TypedOperand(e), RightOperand(e), NEW t \in Scalars
  PROVE  RightRuns(e.py, OperandWidened(e, t).runs, e.marks)
<1> DEFINE w == OperandWidened(e, t)
           widens == e.type.kind = "Bool" /\ t.kind # "Bool"
<1>1. (~widens => w = e) /\ (widens => w.runs = {Mapped(r, to_int) : r \in e.runs})
  BY OperandWidenedIs
<1>2. RightRuns(e.py, e.runs, e.marks)
  BY DEF RightOperand
<1>3. widens => Failed(e.py.value) \/ e.py.value.tag = "Bool"
  BY AdmitsIs DEF TypedOperand
<1> HIDE DEF w, widens
<1>4. CASE widens
  <2> DEFINE new == w.runs
  <2>1. new = {Mapped(q, to_int) : q \in e.runs} /\ (Failed(e.py.value) \/ e.py.value.tag = "Bool")
    BY <1>1, <1>3, <1>4
  <2> HIDE DEF new
  <2>2. RightRuns(e.py, new, e.marks)
    BY <1>2, <2>1, WidenedRuns
  <2> QED
    BY <2>2 DEF new, w
<1>5. CASE ~widens
  BY <1>1, <1>2, <1>5 DEF w
<1> QED
  BY <1>4, <1>5

\* What a unary operator makes of outcomes.
LEMMA UnaryRuns ==
  ASSUME NEW op \in {"+", "-", "not"}, NEW o, IsOutcome(o)
  PROVE  LET p == Mapped(o, LAMBDA v : PyUnary(op, v)) IN
         /\ IsOutcome(p)
         /\ p.value = IF Failed(o.value) THEN o.value ELSE PyUnary(op, o.value)
<1> DEFINE p == Mapped(o, LAMBDA v : PyUnary(op, v))
<1>1. p = IF Failed(o.value) THEN o ELSE Outcome(o.trace, PyUnary(op, o.value))
  BY DEF Mapped
<1> HIDE DEF p
<1>2. CASE Failed(o.value)
  BY <1>1, <1>2 DEF p
<1>3. CASE ~Failed(o.value)
  <2>1. p.trace = o.trace /\ p.value = PyUnary(op, o.value)
    BY <1>1, <1>3, OutcomeIs
  <2>2. IsOutcome(p)
    BY <1>1, <1>3, <2>1 DEF IsOutcome
  <2> QED
    BY <1>3, <2>1, <2>2 DEF p
<1> QED
  BY <1>2, <1>3

\* The step of a unary operator: the minus of 2^63 fails where CPython has its int64_t, which
\* the mark says.
LEMMA RightUnaryOp ==
  ASSUME TypedInv, RightInv, UnaryOp
  PROVE  RightInv'
<1> DEFINE e == Top(0)
<1>1. PICK op \in {"+", "-", "not"} :
        LET result == unary_result(op, e.type)
            operand == IF op = "not" THEN e ELSE OperandWidened(e, result.type)
        IN /\ "limit" \in e.marks => op = "-"
           /\ result.status = "Ok"
           /\ Replace(1, Node(result.type, UnaryOverload(op, operand.cpp),
                              Mapped(e.py, LAMBDA v : PyUnary(op, v)),
                              {Mapped(r, LAMBDA v : UnaryRun(op, v)) : r \in operand.runs},
                              IF "limit" \in e.marks THEN {"trapped"} ELSE e.marks))
  BY DEF UnaryOp
<1>2. IsStack /\ Len(operands) \in Nat /\ 0 < Len(operands) /\ 1 <= Len(operands)
  BY DEF TypedInv, IsStack, UnaryOp
<1>3. TypedOperand(e) /\ RightOperand(e)
  BY <1>2, TypedTop DEF RightInv
<1> DEFINE result == unary_result(op, e.type)
           operand == IF op = "not" THEN e ELSE OperandWidened(e, result.type)
           cpp == UnaryOverload(op, operand.cpp)
           py == Mapped(e.py, LAMBDA v : PyUnary(op, v))
           old == operand.runs
           runs == {Mapped(r, LAMBDA v : UnaryRun(op, v)) : r \in old}
           marks == IF "limit" \in e.marks THEN {"trapped"} ELSE e.marks
<1>4. /\ Replace(1, Node(result.type, cpp, py, runs, marks)) /\ result.status = "Ok"
      /\ "limit" \in e.marks => op = "-"
  BY <1>1
<1> HIDE DEF e
<1>5. e.type \in Scalars /\ (Failed(e.py.value) \/ e.py.value.tag \in Admits(e.type.kind))
      /\ ("limit" \in e.marks => e.marks = {"limit"})
  BY <1>3 DEF TypedOperand
<1>6. /\ result.type \in Scalars
      /\ op # "not" => e.type.kind \in Numbers /\ result.type = of(IF e.type.kind = "Float" THEN "Float" ELSE "Int")
  BY <1>4, <1>5, UnaryTypes
<1>7. RightRuns(e.py, old, e.marks)
  <2>1. CASE op = "not"
    BY <1>3, <2>1 DEF RightOperand
  <2>2. CASE op # "not"
    BY <1>3, <1>6, <2>2, OperandRuns
  <2> QED
    BY <2>1, <2>2
<1>8. IsOutcome(e.py) /\ e.py = Outcome(e.py.trace, e.py.value)
  BY <1>7 DEF RightRuns, IsOutcome
<1>9. IsOutcome(py) /\ py.value = IF Failed(e.py.value) THEN e.py.value ELSE PyUnary(op, e.py.value)
  BY <1>8, UnaryRuns
<1>10. py = IF Failed(e.py.value) THEN e.py ELSE Outcome(e.py.trace, PyUnary(op, e.py.value))
  BY DEF Mapped
<1> DEFINE ran(q) == IF Failed(q.value) THEN q ELSE Outcome(q.trace, UnaryRun(op, q.value))
<1>11. runs = {ran(q) : q \in old}
  BY DEF Mapped
<1>12. \A q : ran(q).value = IF Failed(q.value) THEN q.value ELSE UnaryRun(op, q.value)
  BY OutcomeIs
<1> HIDE DEF result, operand, cpp, py, runs, old, marks
<1>13. CASE "limit" \in e.marks
  <2>1. e = Literal(int_(MaxInt + 1)) /\ op = "-" /\ marks = {"trapped"}
    BY <1>3, <1>4, <1>13 DEF RightOperand, marks
  <2>2. int_(MaxInt + 1).tag = "Int" /\ int_(MaxInt + 1).n = MaxInt + 1 /\ ~(MaxInt + 1 <= MaxInt)
        /\ int_(MinInt).tag = "Int" /\ int_(MinInt).n = MinInt /\ ~Failed(int_(MinInt)) /\ ~Failed(int_(MaxInt + 1))
    BY TagsOfResults, NumbersAssumption DEF int_, Failed
  <2>3. e.type = of("Int") /\ e.py = Outcome(<<>>, int_(MaxInt + 1)) /\ e.runs = {Outcome(<<>>, int_(MinInt))}
    BY <2>1, <2>2 DEF Literal
  <2>4. old = e.runs
    <3>1. of("Int").kind = "Int"
      BY ScalarOf DEF ScalarKinds
    <3>2. e.type.kind # "Bool"
      BY <2>3, <3>1
    <3>3. OperandWidened(e, result.type) = e
      BY <3>2 DEF OperandWidened
    <3> QED
      BY <2>1, <3>3 DEF old, operand
  <2>5. e.py.value = int_(MaxInt + 1)
    BY <2>3, OutcomeIs
  <2>6. PyUnary(op, e.py.value) = int_(MinInt) /\ IsResult(int_(MinInt))
    <3>1. -(MaxInt + 1) = MinInt /\ MinInt \in Int64
      BY NumbersAssumption DEF MinInt, Int64
    <3>2. PyUnary(op, e.py.value) = checked(MinInt)
      BY <2>1, <2>2, <2>5, <3>1 DEF PyUnary, holds_int
    <3> QED
      BY <2>2, <3>1, <3>2 DEF checked, IsResult, IsValue
  <2>7. UnaryRun(op, int_(MinInt)) = fail("OverflowError")
    <3>1. -MinInt \notin Int64
      BY NumbersAssumption DEF MinInt, Int64
    <3>2. UnaryRun(op, int_(MinInt)) = checked(-MinInt)
      BY <2>1, <2>2 DEF UnaryRun, neg, holds_int
    <3> QED
      BY <3>1, <3>2 DEF checked
  <2>8. \A p \in runs : Failed(p.value)
    <3> TAKE p \in runs
    <3>1. p = ran(Outcome(<<>>, int_(MinInt)))
      BY <1>11, <2>3, <2>4
    <3> DEFINE q == Outcome(<<>>, int_(MinInt))
    <3>2. q.value = int_(MinInt)
      BY OutcomeIs
    <3> HIDE DEF q
    <3>3. ran(q).value = fail("OverflowError")
      BY <1>12, <2>2, <2>7, <3>2
    <3> QED
      BY <3>1, <3>3, TagsOfResults DEF q
  <2>9. IsResult(py.value)
    BY <1>9, <2>2, <2>5, <2>6
  <2>10. "limit" \notin marks /\ ~Certain(marks)
    BY <2>1 DEF Certain
  <2> HIDE DEF ran
  <2> QED
    BY <1>2, <1>4, <1>9, <2>8, <2>9, <2>10, RightNode
<1>14. CASE "limit" \notin e.marks
  <2>1. marks = e.marks /\ "limit" \notin marks
    BY <1>14 DEF marks
  <2>2. ASSUME Faithful(marks), ~Failed(e.py.value)
        PROVE  UnaryRun(op, e.py.value) = PyUnary(op, e.py.value) /\ IsResult(PyUnary(op, e.py.value))
    <3>1. Held(e.py.value)
      BY <1>7, <2>1, <2>2 DEF RightRuns
    <3>2. op # "not" => e.py.value.tag \in Numbers
      BY <1>5, <1>6, <2>2, AdmitsIs DEF Numbers
    <3> QED
      BY <3>1, <3>2, UnaryAgrees
  <2>3. Faithful(marks) => IsResult(py.value)
    BY <1>9, <2>2 DEF IsResult
  <2>4. ASSUME Faithful(marks), NEW p \in runs PROVE Failed(p.value) \/ p.value = py.value
    <3>1. \E q \in old : p = ran(q)
      BY <1>11
    <3>2. PICK q \in old : p = ran(q)
      BY <3>1
    <3>3. Failed(q.value) \/ q.value = e.py.value
      BY <1>7, <2>1, <2>4 DEF RightRuns
    <3>4. p.value = IF Failed(q.value) THEN q.value ELSE UnaryRun(op, q.value)
      BY <1>12, <3>2
    <3> QED
      BY <1>9, <2>2, <2>4, <3>3, <3>4
  <2>5. ASSUME Certain(marks) PROVE runs = {py}
    <3>1. old = {e.py} /\ Faithful(marks)
      BY <1>7, <2>1, <2>5 DEF RightRuns, Certain
    <3>2. ran(e.py) = py
      BY <1>10, <2>2, <3>1
    <3> HIDE DEF ran
    <3> QED
      BY <1>11, <3>1, <3>2
  <2> HIDE DEF ran
  <2> QED
    BY <1>2, <1>4, <1>9, <2>1, <2>3, <2>4, <2>5, RightNode
<1> QED
  BY <1>13, <1>14

\* The step of a binary operator, whichever operand runs first.
LEMMA RightBinOp ==
  ASSUME TypedInv, RightInv, BinOp
  PROVE  RightInv'
<1> DEFINE l == Top(1)
           r == Top(0)
<1>1. PICK op \in Operators :
        LET result == binary_result(op, l.type, r.type)
            lw == OperandWidened(l, result.type)
            rw == OperandWidened(r, result.type)
            marks == IF RoundedTwice(op, l.py.value, r.py.value) THEN {"rounded"} ELSE {}
        IN /\ result.status = "Ok"
           /\ op = "%" => l.type.kind # "Str"
           /\ op = "**" => r.bare_int /\ r.py.value.n <= MaxExponent
           /\ Replace(2, Node(result.type, BinaryOverload(op, lw.cpp, rw.cpp),
                              Then(l.py, r.py, LAMBDA a, b : PyBinary(op, a, b)),
                              AsArguments(lw.runs, rw.runs, LAMBDA a, b : BinaryRun(op, a, b)),
                              PairMarks(l, r) \union marks))
  BY DEF BinOp, Operators
<1>2. /\ TypedOperand(l) /\ RightOperand(l) /\ "limit" \notin l.marks
      /\ TypedOperand(r) /\ RightOperand(r) /\ "limit" \notin r.marks
      /\ 2 <= Len(operands)
  <2>1. Ready(2)
    BY Zenon DEF BinOp
  <2>2. TypedOperand(Top(1)) /\ RightOperand(Top(1)) /\ "limit" \notin Top(1).marks /\ 2 <= Len(operands)
    BY <2>1, RightReady
  <2>3. TypedOperand(Top(0)) /\ RightOperand(Top(0)) /\ "limit" \notin Top(0).marks
    BY <2>1, RightReady
  <2> QED
    BY <2>2, <2>3
<1> DEFINE result == binary_result(op, l.type, r.type)
           type == result.type
           lw == OperandWidened(l, type)
           rw == OperandWidened(r, type)
           L == lw.runs
           R == rw.runs
           rounded == IF RoundedTwice(op, l.py.value, r.py.value) THEN {"rounded"} ELSE {}
           cpp == BinaryOverload(op, lw.cpp, rw.cpp)
           v == PyBinary(op, l.py.value, r.py.value)
           w == BinaryRun(op, l.py.value, r.py.value)
           py == Then(l.py, r.py, LAMBDA a, b : PyBinary(op, a, b))
           runs == AsArguments(L, R, LAMBDA a, b : BinaryRun(op, a, b))
           marks == PairMarks(l, r) \union rounded
<1>3. /\ Replace(2, Node(type, cpp, py, runs, marks)) /\ result.status = "Ok"
      /\ op = "%" => l.type.kind # "Str"
      /\ op = "**" => r.bare_int /\ r.py.value.n <= MaxExponent
  BY <1>1
<1>4. py = Joined(l.py, r.py, v)
  BY DEF Then, Joined
<1>5. /\ \A q \in runs : \E x \in L, y \in R :
           \/ q = Joined(x, y, BinaryRun(op, x.value, y.value))
           \/ q = Joined(y, x, BinaryRun(op, x.value, y.value))
      /\ \A x, y : L = {x} /\ R = {y} =>
           runs = {Joined(x, y, BinaryRun(op, x.value, y.value)), Joined(y, x, BinaryRun(op, x.value, y.value))}
  <2> DEFINE there(x, y) == Joined(x, y, BinaryRun(op, x.value, y.value))
             back(x, y) == Joined(y, x, BinaryRun(op, x.value, y.value))
  <2> HIDE DEF L, R, lw, rw, l, r
  <2>1. runs = {there(pair[1], pair[2]) : pair \in L \X R} \union {back(pair[1], pair[2]) : pair \in L \X R}
    BY DEF AsArguments, Then, Joined
  <2> HIDE DEF there, back, runs
  <2>2. \A q \in runs : \E x \in L, y \in R : q = there(x, y) \/ q = back(x, y)
    BY <2>1
  <2>3. ASSUME NEW x, NEW y, L = {x}, R = {y} PROVE runs = {there(x, y), back(x, y)}
    <3> DEFINE pair == <<x, y>>
    <3>1. pair \in L \X R /\ pair[1] = x /\ pair[2] = y
      BY <2>3
    <3> HIDE DEF pair
    <3>2. there(x, y) \in runs /\ back(x, y) \in runs
      BY <2>1, <3>1
    <3>3. \A q \in runs : q \in {there(x, y), back(x, y)}
      BY <2>2, <2>3
    <3> QED
      BY <3>2, <3>3
  <2> QED
    BY <2>2, <2>3 DEF there, back
<1> HIDE DEF l, r, py, runs, lw, rw, cpp
<1>6. /\ l.type \in Scalars /\ (Failed(l.py.value) \/ l.py.value.tag \in Admits(l.type.kind))
      /\ r.type \in Scalars /\ (Failed(r.py.value) \/ r.py.value.tag \in Admits(r.type.kind))
  BY <1>2 DEF TypedOperand
<1>7. type \in Scalars /\ BinaryTyped(op, l.type, r.type, type)
  BY <1>3, <1>6, BinaryTypes
<1> HIDE DEF result, type
<1>8. RightRuns(l.py, L, l.marks) /\ RightRuns(r.py, R, r.marks)
  BY <1>2, <1>7, OperandRuns DEF lw, rw
<1>9. op = "**" => r.py.value.n \in 0..MaxExponent
  BY <1>2, <1>3, BoundsAssumption DEF RightOperand
<1>10. /\ "limit" \notin marks
       /\ Faithful(marks) => Faithful(l.marks) /\ Faithful(r.marks) /\ ~RoundedTwice(op, l.py.value, r.py.value)
       /\ Certain(marks) => Certain(l.marks) /\ Certain(r.marks) /\ Faithful(marks) /\ ~(Effects(l.py) /\ Effects(r.py))
  BY <1>2, MarksOfPair DEF Faithful, Certain
<1> HIDE DEF marks, rounded, L, R
<1>11. IsOutcome(l.py) /\ IsOutcome(r.py)
  BY <1>8 DEF RightRuns
<1>12. IsOutcome(py) /\ py.value = IF Failed(l.py.value) THEN l.py.value
                                   ELSE IF Failed(r.py.value) THEN r.py.value ELSE v
  BY <1>4, <1>11, JoinedIs
<1>13. ASSUME Faithful(marks), ~Failed(l.py.value), ~Failed(r.py.value) PROVE w = v /\ IsResult(v)
  <2>1. Held(l.py.value) /\ Held(r.py.value)
    BY <1>8, <1>10, <1>13 DEF RightRuns
  <2>2. l.py.value.tag \in Admits(l.type.kind) /\ r.py.value.tag \in Admits(r.type.kind)
    BY <1>6, <1>13
  <2> QED
    BY <1>6, <1>7, <1>9, <1>10, <1>13, <2>1, <2>2, BinaryAgrees
<1> HIDE DEF v, w
<1>14. Faithful(marks) => IsResult(py.value)
  BY <1>12, <1>13 DEF IsResult
<1>15. ASSUME Faithful(marks), NEW q \in runs PROVE Failed(q.value) \/ q.value = py.value
  <2>1. PICK x \in L, y \in R :
          \/ q = Joined(x, y, BinaryRun(op, x.value, y.value))
          \/ q = Joined(y, x, BinaryRun(op, x.value, y.value))
    BY <1>5
  <2>2. (Failed(x.value) \/ x.value = l.py.value) /\ (Failed(y.value) \/ y.value = r.py.value)
    BY <1>8, <1>10, <1>15 DEF RightRuns
  <2> DEFINE u == BinaryRun(op, x.value, y.value)
  <2>3. CASE Failed(x.value) \/ Failed(y.value)
    <3>1. Failed(q.value)
      BY <2>1, <2>3, JoinedValue
    <3> QED
      BY <3>1
  <2>4. CASE ~Failed(x.value) /\ ~Failed(y.value)
    <3>1. u = w
      BY <2>2, <2>4 DEF w
    <3>2. u = v
      BY <1>13, <1>15, <2>2, <2>4, <3>1
    <3> HIDE DEF u
    <3>3. q = Joined(x, y, u) \/ q = Joined(y, x, u)
      BY <2>1 DEF u
    <3> QED
      BY <1>4, <2>2, <3>2, <3>3, PairOfRuns
  <2> QED
    BY <2>3, <2>4
<1>16. ASSUME Certain(marks) PROVE runs = {py}
  <2>1. L = {l.py} /\ R = {r.py} /\ ~(Effects(l.py) /\ Effects(r.py))
    BY <1>8, <1>10, <1>16 DEF RightRuns
  <2>2. runs = {Joined(l.py, r.py, w), Joined(r.py, l.py, w)}
    BY <1>5, <2>1 DEF w
  <2>3. Joined(l.py, r.py, w) = Joined(l.py, r.py, v) /\ Joined(r.py, l.py, w) = Joined(l.py, r.py, v)
    BY <1>10, <1>11, <1>13, <1>16, <2>1, PairOfOutcomes
  <2> QED
    BY <1>4, <2>2, <2>3
<1> QED
  BY <1>2, <1>3, <1>10, <1>12, <1>14, <1>15, <1>16, RightNode

\* The step of a comparison, whichever operand runs first.
LEMMA RightCompare ==
  ASSUME TypedInv, RightInv, Compare
  PROVE  RightInv'
<1> DEFINE l == Top(1)
           r == Top(0)
<1>1. PICK op \in {"<", "=="} :
        LET result == comparison_result(op, l.type, r.type)
        IN /\ comparison_operands_are_runtime_comparable(l.type, r.type)
           /\ Replace(2, Node(result.type, CompareOverload(l.cpp, r.cpp),
                              Then(l.py, r.py, LAMBDA a, b : PyCompare(op, a, b)),
                              AsArguments(l.runs, r.runs, LAMBDA a, b : CompareRun(op, l, r, a, b)),
                              PairMarks(l, r)))
  BY DEF Compare
<1>2. /\ TypedOperand(l) /\ RightOperand(l) /\ "limit" \notin l.marks
      /\ TypedOperand(r) /\ RightOperand(r) /\ "limit" \notin r.marks
      /\ 2 <= Len(operands)
  <2>1. Ready(2)
    BY Zenon DEF Compare
  <2>2. TypedOperand(Top(1)) /\ RightOperand(Top(1)) /\ "limit" \notin Top(1).marks /\ 2 <= Len(operands)
    BY <2>1, RightReady
  <2>3. TypedOperand(Top(0)) /\ RightOperand(Top(0)) /\ "limit" \notin Top(0).marks
    BY <2>1, RightReady
  <2> QED
    BY <2>2, <2>3
<1> DEFINE type == comparison_result(op, l.type, r.type).type
           L == l.runs
           R == r.runs
           cpp == CompareOverload(l.cpp, r.cpp)
           v == PyCompare(op, l.py.value, r.py.value)
           w == CompareRun(op, l, r, l.py.value, r.py.value)
           py == Then(l.py, r.py, LAMBDA a, b : PyCompare(op, a, b))
           runs == AsArguments(L, R, LAMBDA a, b : CompareRun(op, l, r, a, b))
           marks == PairMarks(l, r)
<1>3. /\ Replace(2, Node(type, cpp, py, runs, marks))
      /\ comparison_operands_are_runtime_comparable(l.type, r.type)
  BY <1>1
<1>4. py = Joined(l.py, r.py, v)
  BY DEF Then, Joined
<1>5. /\ \A q \in runs : \E x \in L, y \in R :
           \/ q = Joined(x, y, CompareRun(op, l, r, x.value, y.value))
           \/ q = Joined(y, x, CompareRun(op, l, r, x.value, y.value))
      /\ \A x, y : L = {x} /\ R = {y} =>
           runs = {Joined(x, y, CompareRun(op, l, r, x.value, y.value)),
                   Joined(y, x, CompareRun(op, l, r, x.value, y.value))}
  <2> DEFINE there(x, y) == Joined(x, y, CompareRun(op, l, r, x.value, y.value))
             back(x, y) == Joined(y, x, CompareRun(op, l, r, x.value, y.value))
  <2> HIDE DEF L, R, l, r
  <2>1. runs = {there(pair[1], pair[2]) : pair \in L \X R} \union {back(pair[1], pair[2]) : pair \in L \X R}
    BY DEF AsArguments, Then, Joined
  <2> HIDE DEF there, back, runs
  <2>2. \A q \in runs : \E x \in L, y \in R : q = there(x, y) \/ q = back(x, y)
    BY <2>1
  <2>3. ASSUME NEW x, NEW y, L = {x}, R = {y} PROVE runs = {there(x, y), back(x, y)}
    <3> DEFINE pair == <<x, y>>
    <3>1. pair \in L \X R /\ pair[1] = x /\ pair[2] = y
      BY <2>3
    <3> HIDE DEF pair
    <3>2. there(x, y) \in runs /\ back(x, y) \in runs
      BY <2>1, <3>1
    <3>3. \A q \in runs : q \in {there(x, y), back(x, y)}
      BY <2>2, <2>3
    <3> QED
      BY <3>2, <3>3
  <2> QED
    BY <2>2, <2>3 DEF there, back
<1> HIDE DEF l, r, py, runs, cpp, type
<1>6. /\ l.type \in Scalars /\ (Failed(l.py.value) \/ l.py.value.tag \in Admits(l.type.kind))
      /\ r.type \in Scalars /\ (Failed(r.py.value) \/ r.py.value.tag \in Admits(r.type.kind))
      /\ l.cpp = "py::bool_" => Failed(l.py.value) \/ l.py.value.tag = "Bool"
      /\ r.cpp = "py::bool_" => Failed(r.py.value) \/ r.py.value.tag = "Bool"
  BY <1>2 DEF TypedOperand
<1>8. RightRuns(l.py, L, l.marks) /\ RightRuns(r.py, R, r.marks)
  BY <1>2 DEF RightOperand
<1>10. /\ "limit" \notin marks
       /\ Faithful(marks) => Faithful(l.marks) /\ Faithful(r.marks)
       /\ Certain(marks) => Certain(l.marks) /\ Certain(r.marks) /\ Faithful(marks) /\ ~(Effects(l.py) /\ Effects(r.py))
  BY <1>2, MarksOfPair DEF Faithful, Certain
<1> HIDE DEF marks, L, R
<1>11. IsOutcome(l.py) /\ IsOutcome(r.py)
  BY <1>8 DEF RightRuns
<1>12. IsOutcome(py) /\ py.value = IF Failed(l.py.value) THEN l.py.value
                                   ELSE IF Failed(r.py.value) THEN r.py.value ELSE v
  BY <1>4, <1>11, JoinedIs
<1>13. ASSUME Faithful(marks), ~Failed(l.py.value), ~Failed(r.py.value) PROVE w = v /\ IsResult(v)
  <2>1. Held(l.py.value) /\ Held(r.py.value)
    BY <1>8, <1>10, <1>13 DEF RightRuns
  <2>2. l.py.value.tag \in Admits(l.type.kind) /\ r.py.value.tag \in Admits(r.type.kind)
        /\ (l.cpp = "py::bool_" => l.py.value.tag = "Bool") /\ (r.cpp = "py::bool_" => r.py.value.tag = "Bool")
    BY <1>6, <1>13
  <2> QED
    BY <1>3, <1>6, <2>1, <2>2, CompareAgrees
<1> HIDE DEF v, w
<1>14. Faithful(marks) => IsResult(py.value)
  BY <1>12, <1>13 DEF IsResult
<1>15. ASSUME Faithful(marks), NEW q \in runs PROVE Failed(q.value) \/ q.value = py.value
  <2>1. PICK x \in L, y \in R :
          \/ q = Joined(x, y, CompareRun(op, l, r, x.value, y.value))
          \/ q = Joined(y, x, CompareRun(op, l, r, x.value, y.value))
    BY <1>5
  <2>2. (Failed(x.value) \/ x.value = l.py.value) /\ (Failed(y.value) \/ y.value = r.py.value)
    BY <1>8, <1>10, <1>15 DEF RightRuns
  <2> DEFINE u == CompareRun(op, l, r, x.value, y.value)
  <2>3. CASE Failed(x.value) \/ Failed(y.value)
    <3>1. Failed(q.value)
      BY <2>1, <2>3, JoinedValue
    <3> QED
      BY <3>1
  <2>4. CASE ~Failed(x.value) /\ ~Failed(y.value)
    <3>1. u = w
      BY <2>2, <2>4 DEF w
    <3>2. u = v
      BY <1>13, <1>15, <2>2, <2>4, <3>1
    <3> HIDE DEF u
    <3>3. q = Joined(x, y, u) \/ q = Joined(y, x, u)
      BY <2>1 DEF u
    <3> QED
      BY <1>4, <2>2, <3>2, <3>3, PairOfRuns
  <2> QED
    BY <2>3, <2>4
<1>16. ASSUME Certain(marks) PROVE runs = {py}
  <2>1. L = {l.py} /\ R = {r.py} /\ ~(Effects(l.py) /\ Effects(r.py))
    BY <1>8, <1>10, <1>16 DEF RightRuns
  <2>2. runs = {Joined(l.py, r.py, w), Joined(r.py, l.py, w)}
    BY <1>5, <2>1 DEF w
  <2>3. Joined(l.py, r.py, w) = Joined(l.py, r.py, v) /\ Joined(r.py, l.py, w) = Joined(l.py, r.py, v)
    BY <1>10, <1>11, <1>13, <1>16, <2>1, PairOfOutcomes
  <2> QED
    BY <1>4, <2>2, <2>3
<1> QED
  BY <1>2, <1>3, <1>10, <1>12, <1>14, <1>15, <1>16, RightNode

(***************************************************************************)
(* A chain of two comparisons.                                             *)
(***************************************************************************)
Chained(a, b, c, first, second) ==
  LET link == Joined(a, b, first)
  IN IF Failed(link.value) \/ ~truthy(link.value) THEN link
     ELSE Joined(Outcome(link.trace, b.value), c, second)

\* The value of a chain: that of the first comparison unless it holds.
LEMMA ChainedValue ==
  ASSUME NEW a, NEW b, NEW c, NEW first, NEW second
  PROVE  Chained(a, b, c, first, second).value =
           IF Failed(a.value) THEN a.value ELSE IF Failed(b.value) THEN b.value
           ELSE IF Failed(first) \/ ~truthy(first) THEN first
           ELSE IF Failed(c.value) THEN c.value ELSE second
<1> DEFINE link == Joined(a, b, first)
           again == Outcome(link.trace, b.value)
           rest == Joined(again, c, second)
<1>1. Chained(a, b, c, first, second) = IF Failed(link.value) \/ ~truthy(link.value) THEN link ELSE rest
  BY DEF Chained
<1>2. link.value = IF Failed(a.value) THEN a.value ELSE IF Failed(b.value) THEN b.value ELSE first
  BY JoinedValue
<1>3. again.value = b.value
  BY OutcomeIs
<1> HIDE DEF link, again
<1>4. rest.value = IF Failed(b.value) THEN b.value ELSE IF Failed(c.value) THEN c.value ELSE second
  BY <1>3, JoinedValue
<1> HIDE DEF rest
<1> QED
  BY <1>1, <1>2, <1>4

\* A chain of outcomes is one.
LEMMA ChainedIs ==
  ASSUME NEW a, NEW b, NEW c, NEW first, NEW second, IsOutcome(a), IsOutcome(b), IsOutcome(c)
  PROVE  IsOutcome(Chained(a, b, c, first, second))
<1> DEFINE link == Joined(a, b, first)
           again == Outcome(link.trace, b.value)
           rest == Joined(again, c, second)
<1>1. Chained(a, b, c, first, second) = IF Failed(link.value) \/ ~truthy(link.value) THEN link ELSE rest
  BY DEF Chained
<1>2. IsOutcome(link)
  BY JoinedIs
<1>3. again = Outcome(link.trace, b.value) /\ again.value = b.value /\ again.trace = link.trace
  BY OutcomeIs
<1> HIDE DEF link, again
<1>4. IsOutcome(again)
  BY <1>2, <1>3 DEF IsOutcome
<1>5. IsOutcome(rest)
  BY <1>4, JoinedIs
<1> HIDE DEF rest
<1> QED
  BY <1>1, <1>2, <1>5

\* A comparison counts only where it is reached.
LEMMA ChainedSame ==
  ASSUME NEW a, NEW b, NEW c, NEW f, NEW g, NEW first, NEW second,
         ~Failed(a.value) /\ ~Failed(b.value) => f = first,
         ~Failed(b.value) /\ ~Failed(c.value) => g = second
  PROVE  Chained(a, b, c, f, g) = Chained(a, b, c, first, second)
<1>1. Joined(a, b, f) = Joined(a, b, first)
  BY DEF Joined
<1> DEFINE link == Joined(a, b, first)
           again == Outcome(link.trace, b.value)
<1>2. again.value = b.value
  BY OutcomeIs
<1>3. Joined(again, c, g) = Joined(again, c, second)
  <2> HIDE DEF again
  <2> QED
    BY <1>2 DEF Joined
<1> QED
  BY <1>1, <1>3 DEF Chained

\* The step of a chain of two.
LEMMA RightCompareChain ==
  ASSUME TypedInv, RightInv, CompareChain
  PROVE  RightInv'
<1> DEFINE a == Top(2)
           b == Top(1)
           c == Top(0)
           overloads == {CompareOverload(a.cpp, b.cpp), CompareOverload(b.cpp, c.cpp)}
           cpp == IF IllFormed \in overloads THEN IllFormed ELSE "py::bool_"
           A == a.runs
           B == b.runs
           C == c.runs
           f == PyCompare("<", a.py.value, b.py.value)
           g == PyCompare("==", b.py.value, c.py.value)
           py == Links(a.py, b.py, c.py, LAMBDA v, w : PyCompare("<", v, w),
                       LAMBDA v, w : PyCompare("==", v, w))
           runs == {Links(run[1], run[2], run[3],
                          LAMBDA v, w : CompareRun("<", a, b, v, w),
                          LAMBDA v, w : CompareRun("==", b, c, v, w))
                      : run \in A \X B \X C}
           marks == a.marks \union b.marks \union c.marks
           type == of("Bool")
<1>1. /\ Replace(3, Node(type, cpp, py, runs, marks)) /\ comparison_operands_are_runtime_comparable(a.type, b.type)
      /\ comparison_operands_are_runtime_comparable(b.type, c.type)
  BY Zenon DEF CompareChain
<1>2. /\ TypedOperand(a) /\ RightOperand(a) /\ "limit" \notin a.marks
      /\ TypedOperand(b) /\ RightOperand(b) /\ "limit" \notin b.marks
      /\ TypedOperand(c) /\ RightOperand(c) /\ "limit" \notin c.marks /\ 3 <= Len(operands)
  <2>1. Ready(3)
    BY Zenon DEF CompareChain
  <2>2. TypedOperand(Top(2)) /\ RightOperand(Top(2)) /\ "limit" \notin Top(2).marks /\ 3 <= Len(operands)
    BY <2>1, RightReady
  <2>3. TypedOperand(Top(1)) /\ RightOperand(Top(1)) /\ "limit" \notin Top(1).marks
    BY <2>1, RightReady
  <2>4. TypedOperand(Top(0)) /\ RightOperand(Top(0)) /\ "limit" \notin Top(0).marks
    BY <2>1, RightReady
  <2> QED
    BY <2>2, <2>3, <2>4
<1>3. py = Chained(a.py, b.py, c.py, f, g)
  <2> HIDE DEF a, b, c
  <2> QED
    BY DEF Links, Then, Joined, Chained, Outcome
<1> DEFINE F(x, y) == CompareRun("<", a, b, x.value, y.value)
           G(y, z) == CompareRun("==", b, c, y.value, z.value)
           chain(x, y, z) == Chained(x, y, z, F(x, y), G(y, z))
<1>4. runs = {chain(run[1], run[2], run[3]) : run \in A \X B \X C}
  <2> HIDE DEF A, B, C, a, b, c
  <2> QED
    BY DEF Links, Then, Joined, Chained, Outcome
<1> HIDE DEF a, b, c, py, runs, cpp, type, chain
<1>5. \A q \in runs : \E x \in A, y \in B, z \in C : q = chain(x, y, z)
  <2> HIDE DEF A, B, C, F, G
  <2> QED
    BY <1>4
<1>6. ASSUME NEW x, NEW y, NEW z, A = {x}, B = {y}, C = {z} PROVE runs = {chain(x, y, z)}
  <2> DEFINE run == <<x, y, z>>
  <2>1. run \in A \X B \X C /\ run[1] = x /\ run[2] = y /\ run[3] = z
    BY <1>6
  <2> HIDE DEF run, A, B, C, F, G
  <2>2. chain(x, y, z) \in runs
    BY <1>4, <2>1
  <2>3. \A q \in runs : q \in {chain(x, y, z)}
    BY <1>5, <1>6
  <2> QED
    BY <2>2, <2>3
<1>7. /\ a.type \in Scalars /\ (Failed(a.py.value) \/ a.py.value.tag \in Admits(a.type.kind))
      /\ b.type \in Scalars /\ (Failed(b.py.value) \/ b.py.value.tag \in Admits(b.type.kind))
      /\ c.type \in Scalars /\ (Failed(c.py.value) \/ c.py.value.tag \in Admits(c.type.kind))
      /\ a.cpp = "py::bool_" => Failed(a.py.value) \/ a.py.value.tag = "Bool"
      /\ b.cpp = "py::bool_" => Failed(b.py.value) \/ b.py.value.tag = "Bool"
      /\ c.cpp = "py::bool_" => Failed(c.py.value) \/ c.py.value.tag = "Bool"
  BY <1>2 DEF TypedOperand
<1>8. RightRuns(a.py, A, a.marks) /\ RightRuns(b.py, B, b.marks) /\ RightRuns(c.py, C, c.marks)
  BY <1>2 DEF RightOperand
<1>9. /\ "limit" \notin marks
      /\ Faithful(marks) => Faithful(a.marks) /\ Faithful(b.marks) /\ Faithful(c.marks)
      /\ Certain(marks) => Certain(a.marks) /\ Certain(b.marks) /\ Certain(c.marks) /\ Faithful(marks)
  BY <1>2 DEF Faithful, Certain
<1> HIDE DEF marks, A, B, C
<1>10. IsOutcome(a.py) /\ IsOutcome(b.py) /\ IsOutcome(c.py)
  BY <1>8 DEF RightRuns
<1>11. ASSUME Faithful(marks), ~Failed(a.py.value), ~Failed(b.py.value)
       PROVE  CompareRun("<", a, b, a.py.value, b.py.value) = f /\ IsResult(f)
  <2>1. Held(a.py.value) /\ Held(b.py.value)
    BY <1>8, <1>9, <1>11 DEF RightRuns
  <2>2. a.py.value.tag \in Admits(a.type.kind) /\ b.py.value.tag \in Admits(b.type.kind)
        /\ (a.cpp = "py::bool_" => a.py.value.tag = "Bool") /\ (b.cpp = "py::bool_" => b.py.value.tag = "Bool")
    BY <1>7, <1>11
  <2>3. "<" \in {"<", "=="}
    OBVIOUS
  <2> QED
    BY <1>1, <1>7, <2>1, <2>2, <2>3, CompareAgrees
<1>12. ASSUME Faithful(marks), ~Failed(b.py.value), ~Failed(c.py.value)
       PROVE  CompareRun("==", b, c, b.py.value, c.py.value) = g /\ IsResult(g)
  <2>1. Held(b.py.value) /\ Held(c.py.value)
    BY <1>8, <1>9, <1>12 DEF RightRuns
  <2>2. b.py.value.tag \in Admits(b.type.kind) /\ c.py.value.tag \in Admits(c.type.kind)
        /\ (b.cpp = "py::bool_" => b.py.value.tag = "Bool") /\ (c.cpp = "py::bool_" => c.py.value.tag = "Bool")
    BY <1>7, <1>12
  <2>3. "==" \in {"<", "=="}
    OBVIOUS
  <2> QED
    BY <1>1, <1>7, <2>1, <2>2, <2>3, CompareAgrees
<1> HIDE DEF f, g
<1>13. IsOutcome(py)
  BY <1>3, <1>10, ChainedIs
<1>14. py.value = IF Failed(a.py.value) THEN a.py.value ELSE IF Failed(b.py.value) THEN b.py.value
                  ELSE IF Failed(f) \/ ~truthy(f) THEN f
                  ELSE IF Failed(c.py.value) THEN c.py.value ELSE g
  BY <1>3, ChainedValue
<1>15. Faithful(marks) => IsResult(py.value)
  BY <1>11, <1>12, <1>14 DEF IsResult
<1>16. ASSUME Faithful(marks), NEW q \in runs PROVE Failed(q.value) \/ q.value = py.value
  <2>1. PICK x \in A, y \in B, z \in C : q = chain(x, y, z)
    BY <1>5
  <2>2. /\ Failed(x.value) \/ x.value = a.py.value
        /\ Failed(y.value) \/ y.value = b.py.value
        /\ Failed(z.value) \/ z.value = c.py.value
    BY <1>8, <1>9, <1>16 DEF RightRuns
  <2> DEFINE first == F(x, y)
             second == G(y, z)
  <2>3. q = Chained(x, y, z, first, second)
    BY <2>1 DEF chain
  <2>4. ~Failed(x.value) /\ ~Failed(y.value) => first = CompareRun("<", a, b, a.py.value, b.py.value)
    BY <2>2
  <2>5. ~Failed(y.value) /\ ~Failed(z.value) => second = CompareRun("==", b, c, b.py.value, c.py.value)
    BY <2>2
  <2> HIDE DEF first, second, F, G
  <2>6. q.value = IF Failed(x.value) THEN x.value ELSE IF Failed(y.value) THEN y.value
                  ELSE IF Failed(first) \/ ~truthy(first) THEN first
                  ELSE IF Failed(z.value) THEN z.value ELSE second
    BY <2>3, ChainedValue
  <2>7. ~Failed(x.value) /\ ~Failed(y.value) => first = f
    BY <1>11, <1>16, <2>2, <2>4
  <2>8. ~Failed(y.value) /\ ~Failed(z.value) => second = g
    BY <1>12, <1>16, <2>2, <2>5
  <2> QED
    BY <1>14, <2>2, <2>6, <2>7, <2>8
<1>17. ASSUME Certain(marks) PROVE runs = {py}
  <2>1. A = {a.py} /\ B = {b.py} /\ C = {c.py}
    BY <1>8, <1>9, <1>17 DEF RightRuns
  <2>2. runs = {chain(a.py, b.py, c.py)}
    BY <1>6, <2>1
  <2> DEFINE first == F(a.py, b.py)
             second == G(b.py, c.py)
  <2>3. chain(a.py, b.py, c.py) = Chained(a.py, b.py, c.py, first, second)
    BY DEF chain
  <2>4. ~Failed(a.py.value) /\ ~Failed(b.py.value) => first = f
    BY <1>9, <1>11, <1>17
  <2>5. ~Failed(b.py.value) /\ ~Failed(c.py.value) => second = g
    BY <1>9, <1>12, <1>17
  <2> HIDE DEF first, second, F, G
  <2>6. Chained(a.py, b.py, c.py, first, second) = Chained(a.py, b.py, c.py, f, g)
    BY <2>4, <2>5, ChainedSame
  <2> QED
    BY <1>3, <2>2, <2>3, <2>6
<1> HIDE DEF F, G
<1> QED
  BY <1>1, <1>2, <1>9, <1>13, <1>15, <1>16, <1>17, RightNode

(***************************************************************************)
(* A short circuit.                                                        *)
(***************************************************************************)
LEMMA RightBoolOp ==
  ASSUME TypedInv, RightInv, BoolOp
  PROVE  RightInv'
<1> DEFINE l == Top(1)
           r == Top(0)
<1>1. PICK op \in {"and", "or"} :
        LET result == boolop_result(<<l.type, r.type>>)
        IN Replace(2, Node(result.type, LogicOverload(l.cpp, r.cpp), PyLogic(op, l.py, r.py),
                           {Logic(op, pair[1], pair[2]) : pair \in l.runs \X r.runs},
                           l.marks \union r.marks))
  BY DEF BoolOp
<1>2. /\ TypedOperand(l) /\ RightOperand(l) /\ "limit" \notin l.marks
      /\ TypedOperand(r) /\ RightOperand(r) /\ "limit" \notin r.marks
      /\ 2 <= Len(operands)
  <2>1. Ready(2)
    BY Zenon DEF BoolOp
  <2>2. TypedOperand(Top(1)) /\ RightOperand(Top(1)) /\ "limit" \notin Top(1).marks /\ 2 <= Len(operands)
    BY <2>1, RightReady
  <2>3. TypedOperand(Top(0)) /\ RightOperand(Top(0)) /\ "limit" \notin Top(0).marks
    BY <2>1, RightReady
  <2> QED
    BY <2>2, <2>3
<1> DEFINE type == boolop_result(<<l.type, r.type>>).type
           cpp == LogicOverload(l.cpp, r.cpp)
           py == PyLogic(op, l.py, r.py)
           L == l.runs
           R == r.runs
           runs == {Logic(op, pair[1], pair[2]) : pair \in L \X R}
           marks == l.marks \union r.marks
<1>3. Replace(2, Node(type, cpp, py, runs, marks))
  BY <1>1
<1>4. py = Logic(op, l.py, r.py)
  BY DEF PyLogic, Logic, truthy
<1>5. \A q \in runs : \E x \in L, y \in R : q = Logic(op, x, y)
  <2> HIDE DEF L, R
  <2> QED
    OBVIOUS
<1>6. ASSUME NEW x, NEW y, L = {x}, R = {y} PROVE runs = {Logic(op, x, y)}
  <2> DEFINE pair == <<x, y>>
  <2>1. pair \in L \X R /\ pair[1] = x /\ pair[2] = y
    BY <1>6
  <2> HIDE DEF pair, L, R
  <2>2. Logic(op, x, y) \in runs
    BY <2>1
  <2>3. \A q \in runs : q \in {Logic(op, x, y)}
    BY <1>5, <1>6
  <2> QED
    BY <2>2, <2>3
<1> HIDE DEF l, r, py, runs, cpp, type
<1>7. RightRuns(l.py, L, l.marks) /\ RightRuns(r.py, R, r.marks)
  BY <1>2 DEF RightOperand
<1>8. /\ "limit" \notin marks
      /\ Faithful(marks) => Faithful(l.marks) /\ Faithful(r.marks)
      /\ Certain(marks) => Certain(l.marks) /\ Certain(r.marks)
  BY <1>2 DEF Faithful, Certain
<1> HIDE DEF marks, L, R
<1>9. IsOutcome(l.py) /\ IsOutcome(r.py)
  BY <1>7 DEF RightRuns
<1> DEFINE first(x) == Failed(x.value) \/ truthy(x.value) = (op = "or")
<1>10. \A x, y : Logic(op, x, y) = IF first(x) THEN x ELSE Outcome(x.trace \o y.trace, y.value)
  BY DEF Logic
<1>11. \A x, y : Logic(op, x, y).value = IF first(x) THEN x.value ELSE y.value
  BY <1>10, OutcomeIs
<1>12. \A x, y : x.value = y.value => (first(x) <=> first(y))
  OBVIOUS
<1>13. \A x : Failed(x.value) => first(x)
  OBVIOUS
<1> HIDE DEF first
<1>14. IsOutcome(py)
  <2>1. CASE first(l.py)
    BY <1>4, <1>9, <1>10, <2>1
  <2>2. CASE ~first(l.py)
    <3> DEFINE D == DOMAIN Defs
               t == l.py.trace \o r.py.trace
    <3>1. t \in Seq(D)
      <4>1. l.py.trace \in Seq(D) /\ r.py.trace \in Seq(D)
        BY <1>9 DEF IsOutcome
      <4> HIDE DEF D
      <4> QED
        BY <4>1, ConcatProperties
    <3>2. py = Outcome(t, r.py.value)
      BY <1>4, <1>10, <2>2
    <3> HIDE DEF t
    <3>3. py.trace = t /\ py.value = r.py.value
      BY <3>2, OutcomeIs
    <3> QED
      BY <3>1, <3>2, <3>3 DEF IsOutcome
  <2> QED
    BY <2>1, <2>2
<1>15. py.value = IF first(l.py) THEN l.py.value ELSE r.py.value
  BY <1>4, <1>11
<1>16. Faithful(marks) => IsResult(py.value)
  BY <1>7, <1>8, <1>15 DEF RightRuns, Held, IsResult
<1>17. ASSUME Faithful(marks), NEW q \in runs PROVE Failed(q.value) \/ q.value = py.value
  <2>1. PICK x \in L, y \in R : q = Logic(op, x, y)
    BY <1>5
  <2>2. (Failed(x.value) \/ x.value = l.py.value) /\ (Failed(y.value) \/ y.value = r.py.value)
    BY <1>7, <1>8, <1>17 DEF RightRuns
  <2>3. q.value = IF first(x) THEN x.value ELSE y.value
    BY <1>11, <2>1
  <2>4. x.value = l.py.value => (first(x) <=> first(l.py))
    BY <1>12
  <2>5. Failed(x.value) => first(x)
    BY <1>13
  <2> QED
    BY <1>15, <2>2, <2>3, <2>4, <2>5
<1>18. ASSUME Certain(marks) PROVE runs = {py}
  <2>1. L = {l.py} /\ R = {r.py}
    BY <1>7, <1>8, <1>18 DEF RightRuns
  <2> QED
    BY <1>4, <1>6, <2>1
<1> QED
  BY <1>2, <1>3, <1>8, <1>14, <1>16, <1>17, <1>18, RightNode

(***************************************************************************)
(* A value that goes into a slot or a parameter.                           *)
(***************************************************************************)
LEMMA ValueRuns ==
  ASSUME NEW e, TypedOperand(e), RightOperand(e), NEW t \in Scalars
  PROVE  RightRuns(e.py, ValueWidened(e, t).runs, e.marks)
<1> DEFINE w == numeric_widening_function(e.type, t)
           runs == ValueWidened(e, t).runs
<1>1. /\ OperandShape(e) /\ e.type \in Scalars
      /\ Failed(e.py.value) \/ e.py.value.tag \in Admits(e.type.kind)
  BY DEF TypedOperand
<1>2. w = IF e.type.kind = "Bool" /\ t.kind = "Int" THEN "py::to_int"
          ELSE IF e.type.kind \in {"Bool", "Int"} /\ t.kind = "Float" THEN "py::to_float"
          ELSE "nullptr"
  BY <1>1, WideningIs
<1>3. ValueWidened(e, t) = Wrapped(e, w)
  BY DEF ValueWidened
<1>4. RightRuns(e.py, e.runs, e.marks)
  BY DEF RightOperand
<1> HIDE DEF w
<1>5. CASE w = "py::to_int"
  <2>1. runs = {Mapped(q, to_int) : q \in e.runs}
    BY <1>1, <1>3, <1>5, WrappedIs
  <2>2. Failed(e.py.value) \/ e.py.value.tag = "Bool"
    BY <1>1, <1>2, <1>5, AdmitsIs
  <2> HIDE DEF runs
  <2>3. RightRuns(e.py, runs, e.marks)
    BY <1>4, <2>1, <2>2, WidenedRuns
  <2> QED
    BY <2>3 DEF runs
<1>6. CASE w = "py::to_float"
  <2>1. runs = {Mapped(q, to_float) : q \in e.runs}
    BY <1>1, <1>3, <1>6, WrappedIs
  <2> HIDE DEF runs
  <2>2. RightRuns(e.py, runs, e.marks)
    BY <1>4, <2>1, WidenedRuns
  <2> QED
    BY <2>2 DEF runs
<1>7. CASE w = "nullptr"
  <2>1. Wrapped(e, "nullptr") = e
    BY <1>1, WrappedIs
  <2> QED
    BY <1>3, <1>4, <1>7, <2>1
<1> QED
  BY <1>2, <1>5, <1>6, <1>7

\* The step of a call: the converted argument is the object that was passed.
LEMMA RightCall ==
  ASSUME TypedInv, RightInv, Call
  PROVE  RightInv'
<1> DEFINE e == Top(0)
           Calls(f, o) == IF Failed(o.value) THEN o ELSE Outcome(Append(o.trace, f), o.value)
<1>1. PICK f \in DOMAIN Defs :
        Replace(1, Node(Defs[f][2],
                        IF Stores(e, Defs[f][1]) THEN cpp_type_name(Defs[f][2]) ELSE IllFormed,
                        Calls(f, e.py), {Calls(f, r) : r \in ValueWidened(e, Defs[f][1]).runs}, e.marks))
  BY DEF Call
<1>2. TypedOperand(e) /\ RightOperand(e) /\ "limit" \notin e.marks /\ 1 <= Len(operands)
  <2>1. Ready(1)
    BY Zenon DEF Call
  <2> QED
    BY <2>1, RightReady
<1> DEFINE S == Defs[f][1]
           T == Defs[f][2]
           cpp == IF Stores(e, S) THEN cpp_type_name(T) ELSE IllFormed
           calls(o) == Calls(f, o)
           py == calls(e.py)
           old == ValueWidened(e, S).runs
           runs == {calls(r) : r \in old}
           marks == e.marks
<1>3. Replace(1, Node(T, cpp, py, runs, marks))
  BY <1>1
<1>4. S \in Scalars
  BY DefsAssumption
<1> HIDE DEF e, S, T
<1>5. RightRuns(e.py, old, marks)
  BY <1>2, <1>4, ValueRuns
<1>6. \A o : /\ calls(o).value = o.value
             /\ calls(o) = IF Failed(o.value) THEN o ELSE Outcome(Append(o.trace, f), o.value)
  BY OutcomeIs
<1>7. py = calls(e.py) /\ runs = {calls(r) : r \in old} /\ "limit" \notin marks
  BY <1>2
<1> HIDE DEF Calls, calls, cpp, old, marks, py, runs
<1>8. IsOutcome(e.py)
  BY <1>5 DEF RightRuns
<1>9. py.value = e.py.value
  BY <1>6, <1>7
<1>10. IsOutcome(py)
  <2>1. CASE Failed(e.py.value)
    BY <1>6, <1>7, <1>8, <2>1
  <2>2. CASE ~Failed(e.py.value)
    <3> DEFINE D == DOMAIN Defs
               t == Append(e.py.trace, f)
    <3>1. t \in Seq(D)
      <4>1. e.py.trace \in Seq(D) /\ f \in D
        BY <1>8 DEF IsOutcome
      <4> HIDE DEF D
      <4> QED
        BY <4>1, AppendProperties
    <3>2. py = Outcome(t, e.py.value)
      BY <1>6, <1>7, <2>2
    <3> HIDE DEF t
    <3>3. py.trace = t /\ py.value = e.py.value
      BY <3>2, OutcomeIs
    <3> QED
      BY <3>1, <3>2, <3>3 DEF IsOutcome
  <2> QED
    BY <2>1, <2>2
<1>11. Faithful(marks) => IsResult(py.value)
  BY <1>5, <1>9 DEF RightRuns, Held, IsResult
<1>12. ASSUME Faithful(marks), NEW q \in runs PROVE Failed(q.value) \/ q.value = py.value
  <2>1. \E o \in old : q = calls(o)
    BY <1>7
  <2>2. PICK o \in old : q = calls(o)
    BY <2>1
  <2> QED
    BY <1>5, <1>6, <1>9, <1>12, <2>2 DEF RightRuns
<1>13. ASSUME Certain(marks) PROVE runs = {py}
  <2>1. old = {e.py}
    BY <1>5, <1>13 DEF RightRuns
  <2> QED
    BY <1>7, <2>1
<1> QED
  BY <1>2, <1>3, <1>7, <1>10, <1>11, <1>12, <1>13, RightNode

\* A slot takes the object that was computed, whatever conversion is written around it.
LEMMA RightStore ==
  ASSUME TypedInv, RightInv, NEW x \in Names, NEW e, e = Top(0), NEW declared \in Scalars, NEW read,
         Store(x, e, declared, read)
  PROVE  RightInv'
<1> DEFINE runs == ValueWidened(e, declared).runs
           stored == {r.value : r \in runs}
           stops == Failed(e.py.value) \/ \E v \in stored : Failed(v)
           slot(v) == [declared |-> declared, read |-> read, py |-> e.py.value, cpp |-> v,
                       compiles |-> Stores(e, declared), marks |-> e.marks \ {"unsequenced"}]
<1>1. /\ Ready(1) /\ operands' = <<>>
      /\ IF stops THEN slots' = slots
         ELSE \E v \in stored : slots' = [slots EXCEPT ![x] = slot(v)]
  BY DEF Store
<1>2. TypedOperand(e) /\ RightOperand(e) /\ "limit" \notin e.marks
  BY <1>1, RightReady
<1>3. Operands' = {}
  BY <1>1 DEF Operands
<1>4. (\A s \in SetSlots : RightSlot(s)) /\ slots \in [Names -> {slots[y] : y \in Names}]
  BY DEF TypedInv, RightInv
<1>5. CASE stops
  <2>1. slots' = slots
    BY <1>1, <1>5
  <2>2. SetSlots' = SetSlots
    BY <2>1 DEF SetSlots, IsBound
  <2> QED
    BY <1>3, <1>4, <2>2 DEF RightInv
<1>6. CASE ~stops
  <2>1. PICK v \in stored : slots' = [slots EXCEPT ![x] = slot(v)]
    BY <1>1, <1>6
  <2>2. ~Failed(e.py.value) /\ ~Failed(v) /\ \E r \in runs : v = r.value
    BY <1>6
  <2> DEFINE s == slot(v)
  <2>3. s.py = e.py.value /\ s.cpp = v /\ s.marks = e.marks \ {"unsequenced"}
    OBVIOUS
  <2>4. slots' = [slots EXCEPT ![x] = s]
    BY <2>1
  <2>5. RightRuns(e.py, runs, e.marks)
    BY <1>2, ValueRuns
  <2> HIDE DEF s, stored, stops, runs
  <2>6. RightSlot(s)
    <3>1. ASSUME "rounded" \notin s.marks PROVE Held(s.py) /\ s.cpp = s.py
      <4>1. Faithful(e.marks)
        BY <1>2, <2>3, <3>1 DEF Faithful
      <4>2. Held(e.py.value) /\ \A q \in runs : Failed(q.value) \/ q.value = e.py.value
        BY <2>2, <2>5, <4>1 DEF RightRuns
      <4> QED
        BY <2>2, <2>3, <4>2
    <3> QED
      BY <2>3, <3>1 DEF RightSlot
  <2>7. \A y \in Names : slots'[y] = IF y = x THEN s ELSE slots[y]
    BY <1>4, <2>4
  <2>8. \A t \in SetSlots' : t = s \/ t \in SetSlots
    BY <2>7 DEF SetSlots, IsBound
  <2> QED
    BY <1>3, <1>4, <2>6, <2>8 DEF RightInv
<1> QED
  BY <1>5, <1>6

\* The step of an annotated assignment.
LEMMA RightAnnAssign ==
  ASSUME TypedInv, RightInv, AnnAssign
  PROVE  RightInv'
<1>1. PICK x \in Names, T \in Declarable : Store(x, Top(0), T, T)
  BY DEF AnnAssign
<1> DEFINE e == Top(0)
<1>2. T \in Scalars /\ e = Top(0) /\ Store(x, e, T, T)
  BY <1>1, DefsAssumption
<1> HIDE DEF e
<1> QED
  BY <1>2, RightStore

\* The step of an assignment.
LEMMA RightAssign ==
  ASSUME TypedInv, RightInv, Assign
  PROVE  RightInv'
<1> DEFINE e == Top(0)
           declared(x) == IF IsBound(x) THEN slots[x].declared ELSE e.type
<1>1. PICK x \in Names : Len(operands) = 1 /\ Store(x, e, declared(x), e.type)
  BY DEF Assign
<1> DEFINE T == declared(x)
<1>2. T \in Scalars
  <2>1. TypedOperand(e)
    BY <1>1, TypedTop
  <2>2. IsBound(x) => TypedSlot(slots[x])
    BY DEF TypedInv, SetSlots
  <2> QED
    BY <2>1, <2>2 DEF TypedOperand, TypedSlot
<1>3. e = Top(0) /\ Store(x, e, T, e.type)
  BY <1>1
<1> HIDE DEF e, T
<1> QED
  BY <1>2, <1>3, RightStore

\* The step of an expression on a line of its own.
LEMMA RightExprStmt ==
  ASSUME TypedInv, RightInv, ExprStmt
  PROVE  RightInv'
<1>1. operands' = <<>> /\ slots' = slots
  BY DEF ExprStmt
<1>2. Operands' = {} /\ SetSlots' = SetSlots
  BY <1>1 DEF Operands, SetSlots, IsBound
<1> QED
  BY <1>2 DEF RightInv

\* RightInv is inductive, together with TypedInv: what is computed and what a slot holds.
THEOREM OutcomesOfOperands == Spec => []RightInv
<1>1. Init => RightInv
  <2> SUFFICES ASSUME Init PROVE RightInv
    OBVIOUS
  <2>1. Operands = {} /\ SetSlots = {}
    BY DEF Init, Operands, SetSlots, IsBound
  <2> QED
    BY <2>1 DEF RightInv
<1>2. TypedInv /\ RightInv /\ [Next]_vars => RightInv'
  <2> SUFFICES ASSUME TypedInv, RightInv, [Next]_vars PROVE RightInv'
    OBVIOUS
  <2>1. CASE UNCHANGED vars
    BY <2>1 DEF vars, RightInv, Operands, SetSlots, IsBound
  <2>2. CASE Next
    BY <2>2, RightConstant, RightName, RightUnaryOp, RightBinOp, RightCompare, RightCompareChain,
       RightBoolOp, RightCall, RightAnnAssign, RightAssign, RightExprStmt DEF Next
  <2> QED
    BY <2>1, <2>2
<1> QED
  BY <1>1, <1>2, TypesOfOperands, PTL DEF Spec

\* What the compiled program computes for every expression is the object CPython computes,
\* after the same calls, or the same failure, whatever order C++ picks for two operands: unless
\* a literal beyond int64_t, a doubly rounded quotient or two operands with effects is in it.
THEOREM ValuesArePythons == Spec => []ComputesWhatPythonComputes
<1>1. RightInv => ComputesWhatPythonComputes
  BY DEF RightInv, RightOperand, RightRuns, Certain, Faithful, ComputesWhatPythonComputes
<1> QED
  BY <1>1, OutcomesOfOperands, PTL

\* A slot of a wider type holds the very object that was stored, not a conversion of it.
THEOREM SlotsKeepTheObject == Spec => []SlotsHoldTheObject
<1>1. RightInv => SlotsHoldTheObject
  BY DEF RightInv, RightSlot, SlotsHoldTheObject
<1> QED
  BY <1>1, OutcomesOfOperands, PTL
==============================================================================
