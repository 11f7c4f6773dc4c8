SPECIFICATION MCSpec
CONSTANTS
  Claim = {k1}
  Source = {s1}
  Client = {c1, c2}
  MaxHead = 2
  MaxChanges = 2
  MemoryChanges = 1
SYMMETRY Symmetry
INVARIANTS MemoryTypeOK ClaimAsDecided NothingOutdated QuietSearchIsComplete
CHECK_DEADLOCK FALSE
