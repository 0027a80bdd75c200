CONSTANTS
  r1 = r1
  r2 = r2
  r3 = r3
  r4 = r4
  Requests = {r1, r2, r3}
  Limit = 1
  Window = 2
  Patience = 1
  MaxTime = 5
  RedisFails = TRUE
  Resends = 1
SPECIFICATION Spec
INVARIANTS LimitHolds RejectedForCause
CHECK_DEADLOCK FALSE
SYMMETRY RequestSymmetry
