SPECIFICATION Spec
CONSTANTS
  Steps <- MCSteps
  Fees = {1, 2}
  Costs = {1, 2}
  Reserve = 2
  OutlayLimit = 5
  MaxForeign = 1
  MaxReorgs = 1
  MaxDepth = 2
  None = None
INVARIANTS LiveTypeOK StepsRestOnSuccess OutlayIsBounded
PROPERTIES ImplementsStepLedger
CHECK_DEADLOCK FALSE
