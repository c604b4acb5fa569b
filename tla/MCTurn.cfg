\* Users write the resource and the Secret; a call fails, a config map is lost.
SPECIFICATION FairSpec
CONSTANTS
  Absent = Absent
  MaxWrites = 3
  MaxFaults = 1
  MaxLosses = 1
  MaxCrashes = 1
INVARIANTS TypeOK ValueReachesPod
PROPERTY CredentialArrives
