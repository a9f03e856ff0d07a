SPECIFICATION Spec
CONSTANTS
  g1 = g1  g2 = g2  g3 = g3  eurc = eurc  usdc = usdc  alice = alice  bob = bob
  key = key  card = card  spare = spare  newKey = newKey  None = None
  Tokens = {eurc}
  Recipients = {alice, bob}
  Guards = {g1}
  InitialGuard = g1
  Signers = {key, card, spare}
  ContractSigners = {key, spare}
  DeployedWith <- OneGuard
  InitialPolicy <- StartNormal
  PeriodSeconds = 2
  PeriodAnchor = 2
  InitialCooldown = 1
  InitialExpiration = 0
  MinExpiration = 1
  DelayedCalls <- WidenCall
  Amounts = {1, 2}
  Policies <- Menu
  Cooldowns = {}
  Expirations = {}
  Deposit <- Five
  MaxTime = 6
  MaxQueue = 1
INVARIANTS
  TypeOK
  CountersExact
  DailyLimitsHold
  PredictedLaneIsAdmitted
PROPERTIES
  WideningIsDelayed
