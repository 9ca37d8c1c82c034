CONSTANTS
  Handler = {h1, h2, h3}
  Command <- LifecycleCommand
  NoCommand = NoCommand
  InitialState <- NewResourceStateSnapshotTaken
  HandleCommand <- ResourceHandleCommand
  Forced <- ResourceForced
  SharedModel = TRUE
  MaxEvents = 2
  MaxRetry = 0
  MaxTime = 0
  MaxDeletes = 1
SPECIFICATION Spec
SYMMETRY Handlers
INVARIANT LatestSnapshotKept
CHECK_DEADLOCK FALSE
