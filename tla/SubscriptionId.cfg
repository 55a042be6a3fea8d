\* operator< as a strict weak ordering over every triple of 2*4*2 ids.
CONSTANTS
  ThisPtrs = {0, 1}
  UniqueIds = {0, 1}
  ClassLits <- MCClassLits
  NULL = NULL
SPECIFICATION Spec
INVARIANTS
  StrictWeakOrder
  EqualNotOrdered
