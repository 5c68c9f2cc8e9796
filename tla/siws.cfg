SPECIFICATION Spec
CONSTANTS
  a1 = a1
  a2 = a2
  u1 = u1
  u2 = u2
  n1 = n1
  n2 = n2
  Addresses = {a1, a2}
  NoAddress = NoAddress
  Uris = {u1, u2}
  Clusters = {"mainnet-beta", "testnet"}
  CLUSTERS = {"mainnet-beta"}
  Nonces = {n1, n2}
  NoSignature = NoSignature
  Skews <- SomeSkews
  TIMESTAMP_TOLERANCE = 2
  NONCE_TTL = 1
  EXPIRATION = 1
  MaxSigned = 2
  MaxTime = 3
SYMMETRY SiwsSymmetry
INVARIANTS
  NonceAcceptedOnce
  AcceptedIsFresh
  UnspentNonceKept
  StoreHoldsOnlyRecent
CHECK_DEADLOCK FALSE
