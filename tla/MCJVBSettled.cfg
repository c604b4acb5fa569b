\* Users who wait until everything has settled; every cache may lag.
CONSTANTS
  ReplicaCounts = {0, 1, 2, 3}
  MaxReplicas = 3
  MaxEdits = 3
  MaxRelists = 0
  MaxFaults = 0
  MaxCrashes = 0
  MaxTouches = 0
  Patient = TRUE
  Lagging <- AllCachesLag
SPECIFICATION Spec
INVARIANTS
  SettledMeansProvisioned
  SettledMeansGone
CHECK_DEADLOCK FALSE
