SPECIFICATION QuoteSpec
CONSTANTS
  Callers = {c1, c2}
  AuthTokens = {c1}
  Requests = {r1, r2}
  Agents = {a1, a2, a3}
  NoAgent = NoAgent
  a1 = a1
  a2 = a2
  a3 = a3
  e1 = e1
  e2 = e2
  Bindings <- TwoBindings
  EvmAddresses = {e1, e2}
  Credits = {0, 1}
  U64_MAX = 2
  Ttls <- SomeTtls
  MAX_TTL = 2
  CAPACITY = 3
  REFILL = 3
  COST = 2
  MaxTime = 2
SYMMETRY RequestsAlike
INVARIANTS
  QuoteTypeOK
  QuotesRateBounded
PROPERTY AttestsWhatWasRead
CHECK_DEADLOCK FALSE
