SPECIFICATION FairSpec
CONSTANTS
  Confirmations = 2
  Contents <- EveryLog
  MaxDepth = 2
  Faults = TRUE
  MaxHeight = 3
  MaxReorgs = 1
INVARIANTS CursorPassesNothing AlertsAreFinal
PROPERTIES ConfirmedGetsRecorded
