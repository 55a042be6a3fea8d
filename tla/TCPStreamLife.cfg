\* Four stream objects on two sockets; each socket's own ids start at 3.
\* A run ends when every object and id is used up, not in a deadlock.
CONSTANTS
  Streams = {s1, s2, s3, s4}
  Sockets = {k1, k2}
  FirstId = 3
  MaxId = 5
  Reuse = FALSE
  NULL = NULL
SPECIFICATION Spec
INVARIANTS IdsUnique LiveNotClosing
PROPERTIES ImplementsStreamTable
CHECK_DEADLOCK FALSE
