\* operator== against operator< over every pair of ids.
CONSTANTS
  ThisPtrs = {0, 1}
  UniqueIds = {0, 1}
  ClassLits <- MCClassLits
  NULL = NULL
SPECIFICATION Spec
INVARIANTS
  OrderMatchesEquality
