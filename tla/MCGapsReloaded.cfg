CONSTANTS
  MaxVersion = 4
  MaxBatch = 2
  StartVersion = 1
  FailsWhenEmpty = TRUE
SPECIFICATION Spec
INVARIANT GapsReloaded
CHECK_DEADLOCK FALSE
