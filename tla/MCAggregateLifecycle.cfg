CONSTANTS
  Handler = {h1, h2}
  Command <- LifecycleCommand
  NoCommand = NoCommand
  InitialState <- NewResourceStateSnapshotTaken
  HandleCommand <- ResourceHandleCommand
  Forced <- ResourceForced
  SharedModel = TRUE
  MaxEvents = 2
  MaxRetry = 1
  MaxTime = 1
  MaxDeletes = 1
SPECIFICATION FairSpec
PROPERTIES
  Linearizable
  EveryCommandAnswered
CHECK_DEADLOCK FALSE
