CONSTANTS
  Command <- MCCommand
  MaxEvents = 3
  MaxTime = 2
  MaxVersion = 5
SPECIFICATION DeviceSpec
INVARIANTS
  TypeOK
  ServiceOfConnection
  TwinOfConnection
  SynchronizedIsOnline
  UpdatesAnswerable
PROPERTIES
  OnlineEndedByOwnConnection
  UpdatesLeaveAnswered
CHECK_DEADLOCK FALSE
