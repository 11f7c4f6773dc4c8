SPECIFICATION Spec
CONSTANTS
  au = au
  se = se
  Truncated = Truncated
  Torn = Torn
  Absent = Absent
  Author = {au}
  Derived = {se}
  AuthorOf <- Names
  x = x
  y = y
  Content = {x, y}
  Client = {c1}
  MaxRevisions <- Revisions
INVARIANTS BoundIsReady
CHECK_DEADLOCK FALSE
