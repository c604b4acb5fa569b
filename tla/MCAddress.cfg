\* Two wishes that alternate once, a failure and a restart, under fairness.
SPECIFICATION FairSpec
CONSTANTS
  a1 = a1
  a2 = a2
  Blank = Blank
  Pending = Pending
  Addresses <- OneAddress
  Lists <- AnyList
  Specs <- Mixed
  MaxReplicas = 2
  Ports = {0, 7}
  DefaultPort = 10000
  Patience = 2
  MaxEdits = 1
  MaxFaults = 1
INVARIANTS TypeOK NothingNamedTwice WaitsOnce
PROPERTIES FirstBridgeReachable Forwarded BridgesStay
