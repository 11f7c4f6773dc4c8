CONSTANTS
  Client = {c1, c2}
  Chapters = 2
  MaxRequests = 2
  MaxTotalCost = 3
  MaxRequestCost = 2
  MaxRuns = 2
  MaxUnits = 1
  MaxCrashes = 0
SYMMETRY Symmetry
SPECIFICATION SpecBoth
CHECK_DEADLOCK FALSE
INVARIANTS TypeOK WithinAuthorization PhaseJustified CompletedIsMastered
