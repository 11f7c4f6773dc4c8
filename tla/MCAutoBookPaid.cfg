CONSTANTS
  Client = {c1}
  Chapters = 1
  MaxRequests = 2
  MaxTotalCost = 3
  MaxRequestCost = 2
  MaxRuns = 1
  MaxUnits = 1
  MaxCrashes = 0
SPECIFICATION SpecWriting
CHECK_DEADLOCK FALSE
INVARIANTS PaidWithinLimit
