SPECIFICATION Spec
CONSTANTS
  Writes = {w1, w2}
  Readers = {q1, q2}
  TTL = 2
  Hold = 1
  MaxRestarts = 1
INVARIANTS TypeOK StaleOnlyInWindow EnforcedInTime
SYMMETRY Symmetry
