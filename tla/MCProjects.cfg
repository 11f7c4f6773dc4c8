CONSTANTS
  Chapter = {k1, k2}
  Client = {c1, c2}
  MaxRevisions = 10
  MaxCalls = 5
SYMMETRY Symmetry
SPECIFICATION SpecAny
CHECK_DEADLOCK FALSE
INVARIANTS TypeOK BuiltInOrder NoDraftReinstated SavedDraftIsShown CurrentChaptersApproved ApprovalsStand
