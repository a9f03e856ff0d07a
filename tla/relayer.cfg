SPECIFICATION Spec
CONSTANTS
  Calls = {c1, c2}
  Requests <- MCRequests
  Queue <- MCQueue
  Cooldown = 1
  Expiration = 1
  MaxMoves = 2
  None = None
  k1 = k1
  k2 = k2
  k3 = k3
  a = a
INVARIANTS TransportTypeOK BroadcastWasCurrent AnswersAreTrue ExecutionsFit KeysNameOnePayload
SYMMETRY MCSymmetry
CHECK_DEADLOCK FALSE
