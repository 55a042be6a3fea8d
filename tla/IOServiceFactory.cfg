\* The process-wide IOService against the pointer singletonIOService returns.
CONSTANTS
  Heap = {h1, h2}
  Static = Static
  NULL = NULL
SPECIFICATION Spec
INVARIANTS
  ServiceCallsValid
