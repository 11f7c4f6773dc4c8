CONSTANTS
  Unit = {u1, u2}
  Client = {c1}
  Officer = {o1}
  Check = {k1}
  MaxRevisions = 5
  MaxFindings = 2
  MaxProposals = 2
  MaxCalls = 6
  MaxSnapshots = 2
  MaxMasters = 1
  MaxJobs = 4
SYMMETRY Symmetry
SPECIFICATION SpecBoth
CHECK_DEADLOCK FALSE
INVARIANTS CurrentSnapshotFits
