------------------------------ MODULE TimeConv ------------------------------
(***************************************************************************)
(* The conversions of Task::DeltaTime (Time.hpp) between integer           *)
(* milliseconds and its double of seconds: DeltaTime::milliseconds(ms)     *)
(* stores ms/1000. and toMilli() returns (int64)(mDeltaTime*1000).         *)
(*                                                                         *)
(* A double is modelled by what it is: a binary floating-point number      *)
(* m * 2^e with a Precision-bit significand, every operation rounding its  *)
(* exact result to nearest, ties to even (IEEE 754 default rounding), and  *)
(* the int64 cast truncating toward zero.  The code's doubles have 53 bits;*)
(* TLC's integers are 32 bits wide, so the runs use a smaller Precision    *)
(* with inputs below 2^Precision, where the same rounding effects occur.   *)
(***************************************************************************)
EXTENDS FloatModel

CONSTANT Inputs   \* integer millisecond counts passed to milliseconds()

ASSUME ConvAssumption ==
  /\ Precision \in 2..20
  /\ Inputs \subseteq -(2^Precision - 1)..(2^Precision - 1)

(* Mutant: ms/1000 in integer arithmetic (the literal without its dot).    *)
MillisecondsIntDiv(ms) ==
  FromInt(IF ms >= 0 THEN ms \div 1000 ELSE -((-ms) \div 1000))

(* DeltaTime::milliseconds(double ms): DeltaTime(ms/1000.).               *)
Milliseconds(ms) == DivBy(FromInt(ms), 1000)

(* DeltaTime::toMilli(): (int64)(mDeltaTime*1000).                         *)
ToMilli(d) == ToInt64(MulBy(d, 1000))

VARIABLE n   \* the millisecond count being converted

Init == n \in Inputs

(* Convert another count.                                                  *)
Pick == n' \in Inputs

Spec == Init /\ [][Pick]_n

-----------------------------------------------------------------------------
TypeOK == n \in Inputs

(* A timeout of n milliseconds read back with toMilli() has lost at most  *)
(* one millisecond and gained none: the same sign, and |n| - 1 <= |result| *)
(* <= |n|.  Timers built with milliseconds() and reported or compared     *)
(* through toMilli() are early by at most 1 ms.                           *)
MilliLossAtMostOne ==
  LET r == ToMilli(Milliseconds(n)) IN
  IF n >= 0 THEN r \in {n - 1, n} ELSE r \in {n, n + 1}

(* What the names promise: toMilli() gives back the milliseconds a        *)
(* DeltaTime was built from.                                               *)
MilliRoundTrip == ToMilli(Milliseconds(n)) = n

=============================================================================
