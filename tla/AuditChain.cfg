SPECIFICATION FairSpec
CONSTANTS
  Requests = {r1, r2, r3}
  Agents = {a1}
  Deletable = {a1}
  Ids <- MCIds
  Records <- MCRecords
  NoRequest = NoRequest
  NoAgent = NoAgent
  Genesis = Genesis
INVARIANTS TypeOK SingleRoot IntactUnlessInverted
PROPERTIES AppendsUnlessInverted EveryRequestEnds
CHECK_DEADLOCK FALSE
