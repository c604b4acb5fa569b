\* Two bridges behind load balancers.
SPECIFICATION Spec
CONSTANTS
  a1 = a1
  a2 = a2
  Blank = Blank
  Pending = Pending
  Addresses <- MCAddresses
  Lists <- AnyList
  Specs <- Automatically
  MaxReplicas = 2
  Ports = {0, 7}
  DefaultPort = 10000
  Patience = 2
  MaxEdits = 0
  MaxFaults = 0
INVARIANT EachBridgeReachable
