CONSTANTS
  Command <- MCCommand
  MaxEvents = 4
  MaxTime = 2
  MaxVersion = 4
SPECIFICATION RulesSpec
INVARIANTS
  TypeOK
  RequestsAccountedFor
  LiveIdsUnique
  PendingsAnswerable
PROPERTIES
  ConnectionAdvances
CHECK_DEADLOCK FALSE
