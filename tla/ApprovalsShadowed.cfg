SPECIFICATION Spec
CONSTANTS
  Evals = {e1, e2, e3}
  Deciders = {d1, d2}
  Keys = {k1}
  RequestIds = {i1, i2, i3}
  TTL = 1
  MaxClock = 2
  NoId = NoId
SYMMETRY Symmetry
INVARIANT ApprovedCallAllowed
CHECK_DEADLOCK FALSE
