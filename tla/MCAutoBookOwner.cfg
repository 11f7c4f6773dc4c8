CONSTANTS
  Client = {c1}
  Chapters = 2
  MaxRequests = 5
  MaxTotalCost = 9
  MaxRequestCost = 2
  MaxRuns = 2
  MaxUnits = 2
  MaxCrashes = 1
SPECIFICATION FairSpec
CHECK_DEADLOCK FALSE
INVARIANTS PaidIsCharged
PROPERTIES ProgressIsKept DriveEnds
