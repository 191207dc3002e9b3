CONSTANTS
  NoSession = NoSession
  t1 = t1
  t2 = t2
  t3 = t3
  NoTool = NoTool
  bash = bash
  edit = edit
  NoName = NoName
  Session = {s1}
  Tool = {t1, t2}
  Name = {bash, edit}
  ToolName <- MCToolName
  Legacy = {}
  Window = 0
  MaxInflight = 2
  Reliable = FALSE
  ReaperOn = FALSE
  StoreFails = TRUE
  MaxTime = 0
  MaxWire = 2
  MaxRestarts = 1
SPECIFICATION Spec
INVARIANT FlightsReleased
PROPERTIES TrackedDialogHolds
