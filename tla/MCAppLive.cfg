\* Impatient users, configurations that stop, a fault, a restart, a broken watch and a
\* late cache, under fairness.
CONSTANTS
  ReplicaCounts = {1}
  MaxReplicas = 1
  MaxRelists = 1
  Apps <- AllApps
  MaxEdits = 3
  MaxFaults = 1
  MaxCrashes = 1
  MaxTouches = 0
  Lagging <- WorkloadLags
  Patient = FALSE
  Histories <- LiveHistories
SPECIFICATION FairSpec
INVARIANTS
  TypeOK
  SettledMeansProvisioned
PROPERTIES
  EventuallyProvisioned
  DeletionCompletes
  FollowsOneVersion
CHECK_DEADLOCK FALSE
