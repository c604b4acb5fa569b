\* The claim that the status is observed: users scale 1, 2, 1 while the controller works.
CONSTANTS
  ReplicaCounts = {1, 2}
  MaxReplicas = 2
  MaxEdits = 3
  MaxRelists = 0
  MaxFaults = 0
  MaxCrashes = 0
  MaxTouches = 0
  Patient = FALSE
  Lagging <- NoCacheLags
SPECIFICATION Spec
INVARIANTS
  StatusIsObserved
CHECK_DEADLOCK FALSE
