CONSTANTS
  r1 = r1
  r2 = r2
  r3 = r3
  r4 = r4
  Requests = {r1, r2}
  Limit = 1
  Window = 3
  Patience = 2
  MaxTime = 5
  RedisFails = FALSE
  Resends = 1
SPECIFICATION Spec
INVARIANT LimitEnforced
CHECK_DEADLOCK FALSE
SYMMETRY RequestSymmetry
