----------------------------- MODULE MCTimeConv -----------------------------
(* TimeConv over every millisecond count of magnitude up to 1100.          *)
EXTENDS TimeConv

MCInputs == -1100..1100
=============================================================================
