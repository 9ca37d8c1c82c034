CONSTANTS
  MaxVersion = 3
  MaxBatch = 2
  StartVersion <- MCNothingStored
  FailsWhenEmpty = TRUE
SPECIFICATION FairSpec
INVARIANTS
  TypeOK
  Consistent
  SeenIsApplied
PROPERTIES
  BackOnlyToStart
  CatchesUp
CHECK_DEADLOCK FALSE
