CONSTANTS
  Unit = {u1, u2}
  Client = {c1, c2}
  Officer = {o1, o2}
  Check = {k1}
  MaxRevisions = 5
  MaxFindings = 2
  MaxProposals = 2
  MaxCalls = 6
  MaxSnapshots = 2
  MaxMasters = 1
  MaxJobs = 4
SYMMETRY Symmetry
SPECIFICATION SpecBoth
CHECK_DEADLOCK FALSE
INVARIANTS TypeOK AppliedAsDiagnosed ClosedForCause ClosedOnce NothingAcceptReady MasterIsEvaluated NoFindingIgnored QuietMasterIsCurrent
