\* Four stream objects on two sockets; the socket's counter starts at 1, the id connect() hard-codes.
\* A run ends when every object and id is used up, not in a deadlock.
CONSTANTS
  Streams = {s1, s2, s3, s4}
  Sockets = {k1, k2}
  FirstId = 1
  MaxId = 5
  Reuse = FALSE
  NULL = NULL
SPECIFICATION Spec
INVARIANTS IdsUnique
CHECK_DEADLOCK FALSE
