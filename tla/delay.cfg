SPECIFICATION Spec
CONSTANTS
  g1 = g1  g2 = g2  g3 = g3  eurc = eurc  usdc = usdc  alice = alice  bob = bob
  key = key  card = card  spare = spare  newKey = newKey  None = None
  Tokens = {eurc}
  Recipients = {alice, bob}
  Guards = {g1}
  InitialGuard = g1
  Signers = {key, card, spare}
  ContractSigners = {key, spare}
  DeployedWith <- OneGuard
  InitialPolicy <- StartNormal
  PeriodSeconds = 4
  PeriodAnchor = 0
  InitialCooldown = 1
  InitialExpiration = 2
  MinExpiration = 1
  DelayedCalls <- PaymentCalls
  Amounts = {1}
  Policies <- Tighter
  Cooldowns = {0, 2}
  Expirations = {1}
  Deposit <- Four
  MaxTime = 3
  MaxQueue = 2
PROPERTIES
  OnlyAllowedArePaid
  FrozenMovesNothing
  NoticeGiven
  FateIsFinal
