\* Users who wait; every cache may lag.
CONSTANTS
  ReplicaCounts = {1}
  MaxReplicas = 1
  MaxRelists = 0
  Apps <- AllApps
  MaxEdits = 4
  MaxFaults = 0
  MaxCrashes = 0
  MaxTouches = 1
  Lagging <- EverythingLags
  Patient = TRUE
  Histories <- EveryHistory
SPECIFICATION Spec
INVARIANTS
  SettledMeansProvisioned
  SettledMeansGone
CHECK_DEADLOCK FALSE
