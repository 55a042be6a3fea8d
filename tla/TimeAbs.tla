------------------------------ MODULE TimeAbs ------------------------------
(***************************************************************************)
(* Absolute times of Task::AbsTime (Time.hpp) built from integer          *)
(* microsecond timestamps, their difference as a DeltaTime, the elapsed   *)
(* microseconds read back with toMicro(), and the comparison operators.   *)
(* Doubles are the FloatModel numbers.  The timestamp measured is         *)
(* TimeConv's n (also converted as milliseconds there), measured against  *)
(* a timestamp b.                                                          *)
(***************************************************************************)
EXTENDS TimeConv

CONSTANT Stamps   \* microsecond timestamps passed to AbsTime::microseconds

ASSUME StampAssumption == Stamps \subseteq 0..(2^Precision - 1)

(* AbsTime::microseconds(int64 t): AbsTime(t/1000000.).                    *)
AbsMicroseconds(t) == DivBy(FromInt(t), 1000000)

(* AbsTime::operator-(AbsTime): DeltaTime(mTime - other.mTime).            *)
AbsDiff(x, y) == Sub(x, y)

(* Mutant: toMicro() through the millisecond conversion.                   *)
ToMicroViaMilli(d) == ToInt64(MulBy(d, 1000)) * 1000

(* DeltaTime::toMicro(): (int64)(mDeltaTime*1000000).                      *)
ToMicro(d) == ToInt64(MulBy(d, 1000000))

VARIABLE b   \* the timestamp n is measured against

absVars == <<n, b>>

AbsInit == Init /\ b \in Stamps

(* Measure the same n against another timestamp.                          *)
Remeasure == b' \in Stamps /\ UNCHANGED n

AbsSpec == AbsInit /\ [][Remeasure]_absVars

-----------------------------------------------------------------------------
(* The elapsed time between two timestamps, measured as                   *)
(* (AbsTime::microseconds(n) - AbsTime::microseconds(b)).toMicro(), is    *)
(* n - b or one microsecond less, never more and never further off: both  *)
(* conversions, the subtraction, the product and the cast together lose   *)
(* less than a microsecond.                                                *)
ElapsedLossAtMostOne ==
  LET r == ToMicro(AbsDiff(AbsMicroseconds(n), AbsMicroseconds(b))) IN
  n >= b => r \in {n - b - 1, n - b}

=============================================================================
