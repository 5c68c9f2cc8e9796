SPECIFICATION Spec
CONSTANTS
  a1 = a1
  a2 = a2
  r1 = r1
  r2 = r2
  r3 = r3
  n1 = n1
  n2 = n2
  s1 = s1
  s2 = s2
  v1 = v1
  v2 = v2
  l1 = l1
  l2 = l2
  thisPool = thisPool
  NoNonce = NoNonce
  NoSigner = NoSigner
  BPS_DENOMINATOR = 10
  PROTOCOL_FEE_BPS = 5
  LATE_PENALTY_BPS = 3
  SECONDS_PER_DAY = 1
  MAX_LATE_DAYS = 3
  MAX_RISK_FACTOR = 5
  VIRTUAL_ASSETS_OFFSET = 1
  VIRTUAL_SHARES_OFFSET = 2
  U64_MAX = 17
  LIQUIDATION_GRACE_SECONDS = 2
  AGENT_WINDOW_SECONDS = 2
  MAX_ATTESTATION_AGE_SECONDS = 1
  MIN_ADVANCE_ATOMS = 2
  VERSION = 1
  CHAIN_IDS = {1, 2}
  I64_MAX = 20
  Agents = {a1}
  ReceivableIds = {r1}
  Nonces = {n1}
  Signers = {s1}
  LPs = {l1}
  Vaults = {v1}
  PoolKey = thisPool
  Attestations <- ShareAttestations
  InitParams <- OneOpening
  Proposals <- NoProposals
  Amounts = {1, 4, 8}
  ShareAmounts = {7}
  MaxTime = 4
  MaxDonated = 4
  MaxBurned = 0
INVARIANTS
  NoOverDeploy
CHECK_DEADLOCK FALSE
