CONSTANTS
  Edit = {e1, e2}
  Request = {r1, r2}
  Orchestrator = TRUE
  Faults = TRUE
  LanArmed = FALSE
SPECIFICATION Spec
PROPERTIES BootDestroysCaptured BootRecovers CompleteKillIsFinal
