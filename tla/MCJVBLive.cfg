\* A fault, a broken watch, a restart and a late cache, under fairness.
CONSTANTS
  ReplicaCounts = {1, 2}
  MaxReplicas = 2
  MaxEdits = 2
  MaxRelists = 1
  MaxFaults = 1
  MaxCrashes = 1
  MaxTouches = 0
  Patient = FALSE
  Lagging <- DeploymentsLag
SPECIFICATION FairSpec
PROPERTIES
  EventuallyProvisioned
  DeletionCompletes
  FollowsOneVersion
CHECK_DEADLOCK FALSE
