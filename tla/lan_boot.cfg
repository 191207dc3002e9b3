CONSTANTS
  Edit = {e1}
  Request = {r1}
  Orchestrator = FALSE
  Faults = FALSE
  LanArmed = TRUE
SPECIFICATION Spec
PROPERTIES BootDestroysCaptured
