CONSTANTS
  f0 = f0
  r1 = r1
  r2 = r2
  None = None
  Subjects <- MCSubjects
  Own = {}
  Specs <- MCSpecs
  EditedTools = {"email.send"}
  DataPolicies = {"pii"}
  Plans <- MCPlans
  Standing = {f0}
  Starts <- MCStarts
  MaxVersion = 3
  Reqs = {r1, r2}
SPECIFICATION OpsSpec
SYMMETRY Sym
CHECK_DEADLOCK FALSE
INVARIANTS TypeOK OneOpenFinding LatestVersionInForce RemediationDefends
