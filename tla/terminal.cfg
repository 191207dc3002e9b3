SPECIFICATION Spec
CONSTANTS
  Client = {c1, c2}
  NoClient = none
  MaxGrid = 2
  MaxAttach = 3
  MaxResizes = 1
SYMMETRY Connections
INVARIANTS ViewersAgree NoGhosts
CHECK_DEADLOCK FALSE
