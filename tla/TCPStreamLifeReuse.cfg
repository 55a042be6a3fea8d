\* Callers may connect() a stream object a second time.
\* A run ends when every object and id is used up, not in a deadlock.
CONSTANTS
  Streams = {s1, s2, s3, s4}
  Sockets = {k1, k2}
  FirstId = 3
  MaxId = 5
  Reuse = TRUE
  NULL = NULL
SPECIFICATION Spec
INVARIANTS LiveNotClosing
CHECK_DEADLOCK FALSE
