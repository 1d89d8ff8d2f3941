--------------------------- MODULE PythonNumbers ---------------------------
(***************************************************************************)
(* Python's arithmetic on the values of RuntimeNumbers: the reference      *)
(* CPython is.  Where an int leaves the width of int64_t the reference is  *)
(* the trap the compiler promises.                                         *)
(***************************************************************************)
EXTENDS RuntimeNumbers

FloorDiv(a, b) == IF b > 0 THEN a \div b ELSE (-a) \div (-b)
Modulo(a, b) == a - b * FloorDiv(a, b)
Dividing(b, result) == IF b = 0 THEN fail("ZeroDivisionError") ELSE result
IntFloorDiv(a, b) == Dividing(b, checked(FloorDiv(a, b)))
IntModulo(a, b) == Dividing(b, checked(Modulo(a, b)))

\* CPython's float_floor_div, from the exact remainder.
FloatFloorDiv(x, y) ==
  LET remainder == fmod(x, y)
      opposite == remainder.n # 0 /\ (remainder.n < 0) # (y.n < 0)
      quotient == double_div(double_add(x, double_neg(remainder)), y)
      lowered == IF opposite THEN double_add(quotient, value("Float", -1, 1)) ELSE quotient
      whole == floor(lowered)
      past_half == compare_doubles(value("Float", 1, 2), double_add(lowered, double_neg(whole))) = -1
  IN IF past_half THEN double_add(whole, value("Float", 1, 1)) ELSE whole

PyArithmetic(op, a, b) ==
  LET integral == BothIntegral(a, b)
      x == as_double(a)
      y == as_double(b)
  IN CASE op = "/" -> IF integral THEN Round(a.n * (IF b.n < 0 THEN -1 ELSE 1), Abs(b.n))
                      ELSE double_div(x, y)
       [] op = "+" -> IF integral THEN checked(a.n + b.n) ELSE double_add(x, y)
       [] op = "-" -> IF integral THEN checked(a.n - b.n) ELSE double_add(x, double_neg(y))
       [] op = "*" -> IF integral THEN checked(a.n * b.n) ELSE double_mul(x, y)
       [] op = "//" -> IF integral THEN IntFloorDiv(a.n, b.n) ELSE FloatFloorDiv(x, y)
       [] op = "%" -> IF integral THEN IntModulo(a.n, b.n) ELSE double_mod(x, y)
       [] op = "**" -> IF holds_int(a) THEN checked(Power(a.n, b.n))
                       ELSE Round(Power(a.n, b.n), Power(a.d, b.n))

PyText(op, a, b) ==
  LET count == IF a.tag = "Str" THEN b.n ELSE a.n
      length == IF a.tag = "Str" THEN a.n ELSE b.n
  IN IF op = "+" THEN str(a.n + b.n) ELSE str(IF count < 0 THEN 0 ELSE length * count)

PyBinary(op, a, b) ==
  IF "Str" \in {a.tag, b.tag} THEN PyText(op, a, b)
  ELSE IF op \in {"/", "//", "%"} /\ b.n = 0 THEN fail("ZeroDivisionError")
  ELSE PyArithmetic(op, a, b)

PyUnary(op, a) ==
  CASE op = "not" -> bool_(a.n = 0)
    [] op = "-" -> IF holds_int(a) THEN checked(-a.n) ELSE double_neg(a)
    [] op = "+" -> IF holds_int(a) THEN int_(a.n) ELSE a

\* Numbers of every class compare by their exact values.
PyCompare(op, a, b) ==
  CASE op = "<" -> bool_(a.n * b.d < b.n * a.d)
    [] op = "==" -> bool_(a.n * b.d = b.n * a.d)
=============================================================================
