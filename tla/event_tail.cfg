SPECIFICATION FairBridgeSpec
CONSTANTS
  Callers = {c1}
  AuthTokens = {c1}
  Requests = {r1}
  Agents = {a1}
  NoAgent = NoAgent
  a1 = a1
  e1 = e1
  Bindings <- OneBinding
  EvmAddresses = {e1}
  Credits = {0}
  U64_MAX = 2
  Ttls <- OneTtl
  MAX_TTL = 2
  CAPACITY = 1
  REFILL = 2
  COST = 1
  MaxTime = 2
  WorkerConfigured = TRUE
  MaxEvents = 3
  MaxRestarts = 2
INVARIANTS
  WorkerAppliesOnce
  WorkerSeesChainOrder
PROPERTY TailKeepsObserving
CHECK_DEADLOCK FALSE
