CONSTANTS
  Client = {c1}
  Chapters = 1
  MaxRequests = 5
  MaxTotalCost = 9
  MaxRequestCost = 2
  MaxRuns = 2
  MaxUnits = 1
  MaxCrashes = 0
SPECIFICATION Spec
CHECK_DEADLOCK FALSE
INVARIANTS ExportIsReady
