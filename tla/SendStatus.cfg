\* Three concurrent send() calls and the three close() callers the code
\* allows, on a 5-bit word with SendStatusClosing = 4 (4 closers would wrap
\* the closing field exactly as 1<<31 does for the 32-bit int), under weak
\* fairness of every call. No symmetry: it is unsound for liveness.
CONSTANTS
  Senders = {s1, s2, s3}
  Closers = {c1, c2, c3}
  WordBits = 5
  ClosingBit = 2
SPECIFICATION FairSpec
CHECK_DEADLOCK FALSE
INVARIANTS
  SendExclusion
  NoDataAfterClose
  WordBalanced
PROPERTIES
  ImplementsStreamClose
  AllCallsReturn
