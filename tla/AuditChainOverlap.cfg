SPECIFICATION Spec
CONSTANTS
  Requests = {r1, r2, r3}
  Agents = {a1}
  Deletable = {a1}
  Ids <- MCIds
  Records <- MCRecords
  NoRequest = NoRequest
  NoAgent = NoAgent
  Genesis = Genesis
INVARIANT ChainLinear
CHECK_DEADLOCK FALSE
