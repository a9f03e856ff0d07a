SPECIFICATION Spec
CONSTANTS
  g1 = g1  g2 = g2  g3 = g3  eurc = eurc  usdc = usdc  alice = alice  bob = bob
  key = key  card = card  spare = spare  newKey = newKey  None = None
  Tokens = {eurc}
  Recipients = {alice, bob}
  Guards = {g1}
  InitialGuard = g1
  Signers = {key, card, spare}
  ContractSigners = {key, spare}
  DeployedWith <- OneGuard
  InitialPolicy <- StartNormal
  PeriodSeconds = 2
  PeriodAnchor = 0
  InitialCooldown = 1
  InitialExpiration = 0
  MinExpiration = 1
  DelayedCalls = {}
  Amounts = {}
  Policies = {}
  Cooldowns = {}
  Expirations = {}
  Deposit <- Five
  MaxTime = 5
  MaxQueue = 1
INVARIANT
  FrozenVaultIsMaintainable
