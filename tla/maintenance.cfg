SPECIFICATION Spec
CONSTANTS
  g1 = g1  g2 = g2  g3 = g3  eurc = eurc  usdc = usdc  alice = alice  bob = bob
  key = key  card = card  spare = spare  newKey = newKey  None = None
  Tokens = {eurc}
  Recipients = {alice}
  Guards = {g1, g2, g3}
  InitialGuard = g1
  Signers = {key, card, spare, newKey}
  ContractSigners = {key, spare, newKey}
  DeployedWith <- ThreeGuards
  InitialPolicy <- StartNarrow
  PeriodSeconds = 4
  PeriodAnchor = 0
  InitialCooldown = 1
  InitialExpiration = 0
  MinExpiration = 1
  DelayedCalls <- MaintenanceCalls
  Amounts = {}
  Policies = {}
  Cooldowns = {}
  Expirations = {}
  Deposit <- Four
  MaxTime = 2
  MaxQueue = 3
INVARIANTS
  OwnerIsPasskey
  FactorsNeverShared
PROPERTIES
  ReplacementKeepsFactors
  SecondaryBroadeningIsDelayed
