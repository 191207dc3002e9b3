CONSTANTS
  Edit = {e1, e2}
  Request = {r1}
  Orchestrator = FALSE
  Faults = FALSE
  LanArmed = FALSE
SPECIFICATION Spec
PROPERTIES KilledStaysDead
