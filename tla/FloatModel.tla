----------------------------- MODULE FloatModel -----------------------------
(***************************************************************************)
(* Binary floating-point numbers as the double arithmetic of Time.hpp      *)
(* computes with them: a value is [m, e], standing for m * 2^e with       *)
(* |m| < 2^Precision; every operation rounds its exact result to nearest, *)
(* ties to even (IEEE 754 default rounding), exponents are unbounded (no  *)
(* overflow or underflow at the magnitudes used), and the int64 cast      *)
(* truncates toward zero.  The code's doubles have 53 bits; TLC's         *)
(* integers are 32 bits wide, so the runs use a smaller Precision.        *)
(***************************************************************************)
EXTENDS Integers

CONSTANT Precision   \* significand bits of a double (53 in the code)

(* floor(log2 x) for a positive integer below 2^30.                        *)
Log2Floor(x) == CHOOSE j \in 0..29 : 2^j <= x /\ x < 2^(j + 1)

(* The exponent of the largest power of two dividing c > 0, and the odd   *)
(* rest: a decimal literal 10^k is 5^k * 2^k, exact in a double.           *)
TwoExp(c) == CHOOSE j \in 0..29 : c % 2^j = 0 /\ (c \div 2^j) % 2 = 1
OddPart(c) == c \div 2^TwoExp(c)

(* The double nearest to a / b (b > 0), ties to even, as [m, e] with value *)
(* m * 2^e.  The exponent k puts the exact significand a/b/2^k in          *)
(* [2^(Precision-1), 2^Precision); it is within one of the estimate k0.    *)
Round(a, b) ==
  IF a = 0 THEN [m |-> 0, e |-> 0]
  ELSE
    LET s == IF a < 0 THEN -1 ELSE 1
        ua == s * a
        k0 == Log2Floor(ua) - Log2Floor(b) - (Precision - 1)
        Num(k) == IF k >= 0 THEN ua ELSE ua * 2^(-k)
        Den(k) == IF k >= 0 THEN b * 2^k ELSE b
        k == CHOOSE j \in {k0 - 1, k0} :
               /\ 2^(Precision - 1) * Den(j) <= Num(j)
               /\ Num(j) < 2^Precision * Den(j)
        fl == Num(k) \div Den(k)
        r == Num(k) % Den(k)
        up == 2 * r > Den(k) \/ (2 * r = Den(k) /\ fl % 2 = 1)
    IN [m |-> s * (IF up THEN fl + 1 ELSE fl), e |-> k]

(* a * 2^e rounded to Precision bits, ties to even: the significand is    *)
(* a shifted right by the bits it has beyond Precision.                    *)
RoundScaled(a, e) ==
  IF a = 0 THEN [m |-> 0, e |-> 0]
  ELSE
    LET s == IF a < 0 THEN -1 ELSE 1
        ua == s * a
        sh == Log2Floor(ua) + 1 - Precision
        d == 2^sh
        fl == ua \div d
        r == ua % d
        up == 2 * r > d \/ (2 * r = d /\ fl % 2 = 1)
    IN IF sh <= 0 THEN [m |-> a, e |-> e]
       ELSE [m |-> s * (IF up THEN fl + 1 ELSE fl), e |-> e + sh]

(* x / c and x * c in double arithmetic, for a positive integer c held    *)
(* exactly in a double (the literals 1000. and 1000000.).                  *)
DivBy(x, c) ==
  LET q == IF x.e >= 0 THEN Round(x.m * 2^x.e, OddPart(c))
           ELSE Round(x.m, OddPart(c) * 2^(-x.e))
  IN [m |-> q.m, e |-> q.e - TwoExp(c)]
MulBy(x, c) == RoundScaled(x.m * OddPart(c), x.e + TwoExp(c))

(* The significand of x at an exponent e <= x.e, and the smaller of the   *)
(* exponents of two values (a zero's does not count): two values are      *)
(* compared or subtracted exactly at it.                                   *)
AtExp(x, e) == IF x.m = 0 THEN 0 ELSE x.m * 2^(x.e - e)
MinExp(x, y) ==
  IF x.m = 0 THEN y.e ELSE IF y.m = 0 \/ x.e < y.e THEN x.e ELSE y.e

(* x - y: the exact difference, rounded once.                              *)
Sub(x, y) ==
  RoundScaled(AtExp(x, MinExp(x, y)) - AtExp(y, MinExp(x, y)), MinExp(x, y))

(* The (int64) cast: truncation toward zero.                               *)
ToInt64(x) ==
  IF x.e >= 0 THEN x.m * 2^x.e
  ELSE IF x.m >= 0 THEN x.m \div 2^(-x.e)
  ELSE -((-x.m) \div 2^(-x.e))

(* The integer argument converted to double: exact below 2^Precision.     *)
FromInt(n) == [m |-> n, e |-> 0]

=============================================================================
