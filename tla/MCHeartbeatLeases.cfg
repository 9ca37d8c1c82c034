CONSTANTS
  Gateway = {"g1"}
  Device = {"d", "e"}
  Connection = {"c1", "c2"}
  GatewayOf <- MCGatewayOf
  DeviceOf <- MCDeviceOf
  TimeToLive = 1
  Extra = 1
  Long = 3
  Limit = 1
  Running = {}
  MayCrash = {"g1"}
  Faults = {"call", "save"}
  MaxFaults = 1
SPECIFICATION Spec
INVARIANTS
  TypeOK
  LeaseAgreed
  NeverRevived
PROPERTIES
  LeaseRespected
CHECK_DEADLOCK FALSE
