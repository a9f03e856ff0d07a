SPECIFICATION Spec
CONSTANTS
  Confirmations = 1
  Contents <- QueueLife
  MaxDepth = 1
  Faults = TRUE
  MaxHeight = 2
  MaxReorgs = 1
INVARIANTS WatcherTypeOK CursorPassesNothing LifecycleIsTrue
PROPERTIES AnnouncedOnce
