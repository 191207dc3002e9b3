SPECIFICATION FairPaneSpec
CONSTANTS
  Send = {"a"}
  Nudge = {"n"}
  MaxAttempts = 3
  MaxMoves = 3
  MaxFaults = 3
INVARIANTS SubmittedOnce Accounted
PROPERTIES MessageSubmitted
CHECK_DEADLOCK FALSE
