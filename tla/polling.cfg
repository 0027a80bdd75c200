CONSTANTS
  j1 = j1
  j2 = j2
  j3 = j3
  p1 = p1
  p2 = p2
  None = None
  Jobs = {j1, j2, j3}
  Polls = {p1, p2}
SPECIFICATION FairSpec
CHECK_DEADLOCK FALSE
INVARIANTS TypeOK OneInterval ButtonNotStuck ShownIsOwn
PROPERTIES ResultArrives ButtonComesBack
