--------------------------- MODULE RuntimeNumbers ---------------------------
(***************************************************************************)
(* The values a compiled program computes with, and the arithmetic of the  *)
(* runtime library on them (int_.h, float_.h, compare.h, str.h).           *)
(*                                                                         *)
(* A value is what Python's object is: its tag is the class and survives   *)
(* in a slot of a wider type, its number is the fraction n/d.  A str is    *)
(* its length.  A failure, fail() in the code, is a value of its own.      *)
(* Integers have the width of int64_t; a double has Significand bits and   *)
(* is rounded to nearest, ties to even.  Infinities, NaN, the sign of zero *)
(* and subnormal numbers are left out.                                     *)
(***************************************************************************)
EXTENDS Integers

CONSTANTS
  MaxInt,          \* INT64_MAX
  Significand,     \* the bits of a double's significand
  ExponentRange    \* bound: binary exponents looked at when a number is rounded

ASSUME NumbersAssumption ==
  MaxInt \in Nat \ {0} /\ Significand \in Nat \ {0} /\ ExponentRange \in Nat \ {0}

MinInt == -MaxInt - 1
Int64 == MinInt..MaxInt

value(tag, n, d) == [tag |-> tag, n |-> n, d |-> d]
int_(n) == value("Int", n, 1)
bool_(b) == value("Bool", IF b THEN 1 ELSE 0, 1)
str(length) == value("Str", length, 1)
none == value("NoneType", 0, 1)
fail(error) == value(error, 0, 1)

Failed(v) == v.tag \in {"OverflowError", "ZeroDivisionError"}
holds_int(v) == v.tag \in {"Bool", "Int"}
truthy(v) == v.n # 0

\* Mutant of to_float: what a slot of the wider type holds becomes a double.
to_double(v) == value("Float", v.n, v.d)

\* A wider slot holds the object itself, with its class.
to_int(v) == value(v.tag, v.n, 1)
to_float(v) == IF v.tag = "Float" THEN v ELSE value(v.tag, v.n, 1)

-----------------------------------------------------------------------------
(* int64_t.                                                                *)

\* A result outside the width traps; any result is an int, never a bool.
checked(n) == IF n \in Int64 THEN int_(n) ELSE fail("OverflowError")

Abs(n) == IF n < 0 THEN -n ELSE n

\* C++ truncates toward zero.
Quotient(a, b) == IF (a < 0) # (b < 0) THEN -(Abs(a) \div Abs(b)) ELSE Abs(a) \div Abs(b)
Remainder(a, b) == a - b * Quotient(a, b)

\* Whether truncation and flooring give different quotients.
Corrects(a, b) == Remainder(a, b) # 0 /\ (Remainder(a, b) < 0) # (b < 0)

\* Mutant of int_floordiv: C++'s own division.
int_truncdiv(a, b) ==
  IF b = 0 THEN fail("ZeroDivisionError") ELSE checked(Quotient(a, b))

int_floordiv(a, b) ==
  IF b = 0 THEN fail("ZeroDivisionError")
  ELSE IF a = MinInt /\ b = -1 THEN fail("OverflowError")
  ELSE int_(Quotient(a, b) - (IF Corrects(a, b) THEN 1 ELSE 0))

int_mod(a, b) ==
  IF b = 0 THEN fail("ZeroDivisionError")
  ELSE IF a = MinInt /\ b = -1 THEN int_(0)
  ELSE int_(Remainder(a, b) + (IF Corrects(a, b) THEN b ELSE 0))

\* By squaring; the last square is not computed.
int_mul(v, w) == IF Failed(v) THEN v ELSE IF Failed(w) THEN w ELSE checked(v.n * w.n)

Squared(s) ==
  LET rest == s.remaining \div 2
  IN [result |-> IF s.remaining % 2 = 1 THEN int_mul(s.result, s.factor) ELSE s.result,
      factor |-> IF rest > 0 THEN int_mul(s.factor, s.factor) ELSE s.factor,
      remaining |-> rest]

int_pow(base, exponent) ==
  LET after[k \in Nat] ==
        IF k = 0 THEN [result |-> int_(1), factor |-> int_(base), remaining |-> exponent]
        ELSE Squared(after[k - 1])
  IN after[exponent].result

-----------------------------------------------------------------------------
(* double.  A number is a fraction x.n/x.d, its denominator a power of 2.  *)

Power(n, k) ==
  LET power[i \in Nat] == IF i = 0 THEN 1 ELSE n * power[i - 1] IN power[k]

\* Powers of two, as far as they are looked at.
TwoTo == [k \in 0..(ExponentRange + Significand) |-> Power(2, k)]

\* In lowest terms: two to the k is what numerator and denominator have in common.
Reduced(n, d) ==
  LET Divides(p) == n % p = 0 /\ d % p = 0
      k == CHOOSE k \in 0..ExponentRange :
             Divides(TwoTo[k]) /\ (d > TwoTo[k] => ~Divides(2 * TwoTo[k]))
  IN value("Float", n \div TwoTo[k], d \div TwoTo[k])

\* 2^e as a fraction Up(e)/Down(e).
Up(e) == IF e > 0 THEN TwoTo[e] ELSE 1
Down(e) == IF e < 0 THEN TwoTo[-e] ELSE 1

\* Scaled by 2^e, a positive n/d is a number of Significand digits.
Fits(n, d, e) ==
  /\ n * Up(e) >= TwoTo[Significand - 1] * d * Down(e)
  /\ n * Up(e) < TwoTo[Significand] * d * Down(e)

\* A quotient to the nearest integer, a half to the even one.
Nearest(a, b) ==
  LET digits == a \div b
      rest == a % b
  IN digits + (IF 2 * rest > b \/ (2 * rest = b /\ digits % 2 = 1) THEN 1 ELSE 0)

\* The nearest double to a fraction with any denominator.
Round(n, d) ==
  LET e == CHOOSE e \in (-ExponentRange)..ExponentRange : Fits(Abs(n), d, e)
      digits == Nearest(Abs(n) * Up(e), d * Down(e))
  IN IF n = 0 THEN value("Float", 0, 1)
     ELSE Reduced((IF n < 0 THEN -digits ELSE digits) * Down(e), Up(e))

Exact(n, d) == Round(n, d).n * d = n * Round(n, d).d

as_double(v) == IF holds_int(v) THEN Round(v.n, 1) ELSE v

double_add(x, y) == Round(x.n * y.d + y.n * x.d, x.d * y.d)
double_neg(x) == value("Float", -x.n, x.d)
double_mul(x, y) == Round(x.n * y.n, x.d * y.d)
double_div(x, y) == Round(x.n * y.d * (IF y.n < 0 THEN -1 ELSE 1), x.d * Abs(y.n))
floor(x) == value("Float", x.n \div x.d, 1)
\* Exact, and of the sign of the dividend.
fmod(x, y) == Reduced(Remainder(x.n * y.d, y.n * x.d), x.d * y.d)

double_floordiv(x, y) ==
  IF y.n = 0 THEN fail("ZeroDivisionError") ELSE floor(double_div(x, y))

double_mod(x, y) ==
  LET remainder == fmod(x, y)
  IN IF y.n = 0 THEN fail("ZeroDivisionError")
     ELSE IF remainder.n = 0 \/ (remainder.n < 0) = (y.n < 0) THEN remainder
     ELSE double_add(remainder, y)

-----------------------------------------------------------------------------
(* The overloads.  Rank is decided by the tags of the values, not by the   *)
(* types of the slots they stand in.                                       *)

BothIntegral(a, b) == holds_int(a) /\ holds_int(b)
OnDoubles(Op(_, _), a, b) == Op(as_double(a), as_double(b))

add(a, b) ==
  CASE a.tag = "Str" -> str(a.n + b.n)
    [] BothIntegral(a, b) -> checked(a.n + b.n)
    [] OTHER -> OnDoubles(double_add, a, b)
sub(a, b) ==
  IF BothIntegral(a, b) THEN checked(a.n - b.n)
  ELSE double_add(as_double(a), double_neg(as_double(b)))
repeat(s, count) == str(IF count.n > 0 THEN s.n * count.n ELSE 0)
mul(a, b) ==
  CASE a.tag = "Str" -> repeat(a, b)
    [] b.tag = "Str" -> repeat(b, a)
    [] BothIntegral(a, b) -> checked(a.n * b.n)
    [] OTHER -> OnDoubles(double_mul, a, b)
truediv(a, b) ==
  IF b.n = 0 THEN fail("ZeroDivisionError") ELSE OnDoubles(double_div, a, b)
floordiv(a, b) ==
  IF BothIntegral(a, b) THEN int_floordiv(a.n, b.n) ELSE OnDoubles(double_floordiv, a, b)
mod(a, b) == IF BothIntegral(a, b) THEN int_mod(a.n, b.n) ELSE OnDoubles(double_mod, a, b)
neg(a) == IF holds_int(a) THEN checked(-a.n) ELSE double_neg(a)
pos(a) == IF holds_int(a) THEN int_(a.n) ELSE a
pow(a, exponent) ==
  IF holds_int(a) THEN int_pow(a.n, exponent.n) ELSE Round(Power(a.n, exponent.n), Power(a.d, exponent.n))

-----------------------------------------------------------------------------
(* Comparison.                                                             *)

Order(a, b) == IF a < b THEN -1 ELSE IF a > b THEN 1 ELSE 0

compare_int64_and_double(i, x) ==
  LET whole == floor(x).n
  IN IF x.n >= (MaxInt + 1) * x.d THEN -1
     ELSE IF x.n < MinInt * x.d THEN 1
     ELSE IF i # whole THEN Order(i, whole)
     ELSE Order(whole * x.d, x.n)

compare_doubles(x, y) == Order(x.n * y.d, y.n * x.d)

\* Of the slots' types: a bool against a float slot has only the template, which compares
\* the raw values.
compare(a, a_slot, b, b_slot) ==
  IF {a_slot, b_slot} = {"py::bool_", "py::float_"} THEN OnDoubles(compare_doubles, a, b)
  ELSE IF a.tag = "Str" \/ BothIntegral(a, b) THEN Order(a.n, b.n)
  ELSE IF holds_int(a) THEN compare_int64_and_double(a.n, b)
  ELSE IF holds_int(b) THEN -compare_int64_and_double(b.n, a)
  ELSE compare_doubles(a, b)
=============================================================================
