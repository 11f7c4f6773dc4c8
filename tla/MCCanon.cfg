SPECIFICATION MCSpec
CONSTANTS
  au = au
  se = se
  Truncated = Truncated
  Torn = Torn
  Absent = Absent
  Author = {au}
  Derived = {se}
  AuthorOf <- Names
  x = x
  y = y
  Content = {x, y}
  Client = {c1, c2}
  MaxRevisions <- Revisions
  Asset = {a1}
  Master = {m1, m2}
SYMMETRY Symmetry
INVARIANTS SeriesTypeOK ReadableAfterExit BoundWasApproved ClosureStands
PROPERTIES HistoryKept
CHECK_DEADLOCK FALSE
