SPECIFICATION Spec
CHECK_DEADLOCK FALSE
CONSTANTS
  Threads = {t1, t2}
  Ops <- MCOps
  Contents <- MCContents
  Searches <- MCSearches
  BlockSize = 2
  MaxCalls = 3
  GilDisabled = FALSE
  Undef = Undef
INVARIANTS
  AccessesValid
