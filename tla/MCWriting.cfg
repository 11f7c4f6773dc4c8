SPECIFICATION Spec
CONSTANTS
  Chapter = {k1}
  Desk = {c1}
  Pen = {c2}
  HalfBook = 1
  MaxAccepted = 3
  MaxPacks = 2
  MaxProds = 1
  MaxChecks = 2
  MaxAdmissions = 2
  MaxTasks = 1
INVARIANTS TypeOK WrittenAsAdmitted AdmittedOnEvidence
PROPERTIES TasksEnd
CHECK_DEADLOCK FALSE
