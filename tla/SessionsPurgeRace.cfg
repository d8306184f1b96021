SPECIFICATION Spec
CONSTANTS
  Requests = {r1, r2, r3}
  Sids = {s1, s2, s3}
  Roots = {s1}
  NoSid = NoSid
  NoRequest = NoRequest
SYMMETRY Symmetry
INVARIANT FamilyRevoked
CHECK_DEADLOCK FALSE
