\* Every load and spec beside users, the JVB controller, a fault and a restart.
CONSTANTS
  ReplicaCounts = {1}
  MaxReplicas = 3
  MaxEdits = 2
  MaxRelists = 0
  MaxInt = 32767
  MaxRespecs = 1
  MaxScalings = 3
  MaxFaults = 1
  MaxCrashes = 1
  Specs <- AllSpecs
  Loads <- AllLoads
SPECIFICATION FairSpec
INVARIANTS
  TypeOK
  StaysDue
PROPERTIES
  OnlyReplicasChange
  WithinLimits
  OverloadReachesMax
CHECK_DEADLOCK FALSE
