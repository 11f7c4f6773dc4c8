CONSTANTS
  Entity = {e1}
  Content = {x, y}
  Client = {c1, c2}
  MaxRevisions = 3
  MaxProposals = 2
  MaxClock = 4
SYMMETRY Symmetry
SPECIFICATION Spec
CHECK_DEADLOCK FALSE
INVARIANTS TypeOK LinearAuthority AcceptedExactlyOnce HeadIsLive
PROPERTIES NoLostUpdate ImplementsLine
