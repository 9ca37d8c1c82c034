CONSTANTS
  Command <- CancelCommand
  MaxEvents = 4
  MaxTime = 0
  MaxVersion = 5
SPECIFICATION RulesSpec
PROPERTY CancelAllCancelsAll
CHECK_DEADLOCK FALSE
