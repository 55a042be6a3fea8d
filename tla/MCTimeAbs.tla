----------------------------- MODULE MCTimeAbs -----------------------------
(* TimeConv's millisecond counts, measured as microsecond timestamps      *)
(* against small timestamps and timestamps around 2^10, where the stored  *)
(* seconds change exponent.                                                *)
EXTENDS TimeAbs, MCTimeConv

MCStamps == 0..40 \cup 980..1100
=============================================================================
