CONSTANTS
  u1 = u1
  u2 = u2
  s1 = s1
  s2 = s2
  g1 = g1
  g2 = g2
  r1 = r1
  r2 = r2
  None = None
  Users = {u1, u2}
  Groups = {g1, g2}
  Standing = {s1, s2}
  Offered = {"owner", "developer"}
  Names = {"owner", "auditor"}
  Reqs = {r1, r2}
  Starts <- MCStarts
SPECIFICATION Spec
SYMMETRY Sym
CHECK_DEADLOCK FALSE
INVARIANTS TypeOK OwnerRemains RoleFollowsGroups DeprovisionedStaysOut KeyWithinCreator MfaProved
