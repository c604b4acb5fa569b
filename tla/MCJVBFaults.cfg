\* Impatient users, a call that fails or seems to, another writer of Deployments.
CONSTANTS
  ReplicaCounts = {0, 1, 2}
  MaxReplicas = 2
  MaxEdits = 3
  MaxRelists = 0
  MaxFaults = 1
  MaxCrashes = 0
  MaxTouches = 1
  Patient = FALSE
  Lagging <- NoCacheLags
SPECIFICATION Spec
INVARIANTS
  TypeOK
  VersionsAgree
  ConfigurationsInOrder
  LoopsInRange
  QuietMeansReconciled
PROPERTIES
  StatusMatchesSpec
  NeverRolledBack
  RemovalIsRepaired
CHECK_DEADLOCK FALSE
