CONSTANTS
  MaxVersion = 2
  MaxBatch = 1
  StartVersion <- MCNothingStored
  FailsWhenEmpty = TRUE
SPECIFICATION Spec
PROPERTY VersionNeverRegresses
CHECK_DEADLOCK FALSE
