\* The millisecond round trip over the same counts.
CONSTANTS
  Precision = 12
  Inputs <- MCInputs
SPECIFICATION Spec
INVARIANTS
  MilliRoundTrip
