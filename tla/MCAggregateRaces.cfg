CONSTANTS
  Handler = {h1, h2, h3}
  Command <- RaceCommand
  NoCommand = NoCommand
  InitialState <- NewResourceStateSnapshotTaken
  HandleCommand <- ResourceHandleCommand
  Forced <- ResourceForced
  SharedModel = TRUE
  MaxEvents = 2
  MaxRetry = 1
  MaxTime = 0
  MaxDeletes = 0
SPECIFICATION Spec
SYMMETRY Handlers
INVARIANTS
  TypeOK
  LoadableUntilDeleted
  PublishedWereStored
PROPERTIES
  Linearizable
CHECK_DEADLOCK FALSE
