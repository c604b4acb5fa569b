\* A bridge that may fail, hang or be replaced, with two conferences.
SPECIFICATION Spec
CONSTANTS
  Grace = 32
  Timeout = 3
  MaxConferences = 2
  MaxStarts = 2
  MaxFaults = 1
  MaxHang = 1
INVARIANTS TypeOK NothingSeenIsCut InTime
CHECK_DEADLOCK FALSE
