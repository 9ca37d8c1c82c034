CONSTANTS
  Gateway = {"g1", "g2"}
  Device = {"d"}
  Connection = {"c1"}
  GatewayOf <- MCGatewayOf
  DeviceOf <- MCDeviceOf
  TimeToLive = 1
  Extra = 0
  Long = 1
  Limit = 1
  Running = {"g1", "g2"}
  MayCrash = {"g1"}
  Faults = {"expire", "load", "restart"}
  MaxFaults = 1
SPECIFICATION FairSpec
INVARIANTS
  LeaseAgreed
PROPERTIES
  GoneGatewayNoticed
  ExpiredConfirmed
  StaleGatewayStops
CHECK_DEADLOCK FALSE
