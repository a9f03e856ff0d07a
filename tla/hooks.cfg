SPECIFICATION Spec
CONSTANTS
  eth = eth  eurc = eurc  safe = safe  alice = alice  bob = bob  None = None
  Assets = {eth, eurc}
  Tokens = {eurc}
  Safe = safe
  Others = {alice, bob}
  Recipients = {alice, bob}
  Amounts = {1, 2}
  Limit = 3
  Queue <- MCQueue
  Holdings <- MCHoldings
  MaxMoves = 2
INVARIANTS
  HooksTypeOK
PROPERTIES
  ImplementsAtomicPayments
CHECK_DEADLOCK FALSE
