CONSTANTS
  e1 = e1
  e2 = e2
  o1 = o1
  o2 = o2
  k1 = k1
  k2 = k2
  none = none
  Agents = {"a", "b"}
  Officers = {o1, o2}
  Evals = {e1, e2}
  Keys = {k1, k2}
  Tools <- MCTools
  Slugs <- MCSlugs
  SlugOf <- MCSlugOf
  Standing <- MCStanding
  Earlier <- MCEarlier
  Contents <- MCContents
  Profiles <- MCProfiles
  NoProfile = none
  FailMode <- MCFailMode
  ColdStart = 8
  Budget = 1
  LastWindow = 1
  MaxRequests = 2
SPECIFICATION Spec
SYMMETRY Sym
ACTION_CONSTRAINT TurnsInUse
CHECK_DEADLOCK FALSE
INVARIANTS TypeOK OneOpenThreat AbortsExplained CountersExact WithinBudget FailClosed PhantomEvents ClosedUnlessOverlap
PROPERTIES AnomalyIsVisible
