\* Two threads in getSingleton and the program building and deleting its own
\* instances, over four addresses, with no deletion during a getSingleton.
CONSTANTS
  Threads = {t1, t2}
  Insts = {i1, i2, i3, i4}
  DestroyDuringGet = FALSE
  NULL = NULL
SPECIFICATION Spec
CHECK_DEADLOCK FALSE
INVARIANTS
  RegisteredLive
  ReturnsLive
