\* Every count of magnitude up to 1100 with a 12-bit significand, converted
\* as milliseconds and, as a microsecond timestamp, measured against the
\* timestamps 0..40 and 980..1100 (the largest a quarter of 2^12, as epoch
\* microseconds, about 2^50.6, are of 2^53).
CONSTANTS
  Precision = 12
  Inputs <- MCInputs
  Stamps <- MCStamps
SPECIFICATION AbsSpec
INVARIANTS
  MilliLossAtMostOne
  ElapsedLossAtMostOne
