SPECIFICATION Spec
CONSTANTS
  Requests = {r1, r2, r3, r4}
  Sids = {s1, s2, s3, s4}
  Roots = {s1}
  NoSid = NoSid
  NoRequest = NoRequest
SYMMETRY Symmetry
INVARIANTS TypeOK LiveHasNoSuccessor PurgeIsFinal
CHECK_DEADLOCK FALSE
