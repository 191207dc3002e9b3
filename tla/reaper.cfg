CONSTANTS
  NoSession = NoSession
  t1 = t1
  t2 = t2
  t3 = t3
  NoTool = NoTool
  bash = bash
  edit = edit
  NoName = NoName
  Session = {s1}
  Tool = {}
  Name = {bash, edit}
  ToolName <- MCToolName
  Legacy = {s1}
  Window = 1
  MaxInflight = 2
  Reliable = FALSE
  ReaperOn = TRUE
  StoreFails = TRUE
  MaxTime = 4
  MaxWire = 1
  MaxRestarts = 1
SPECIFICATION FairSpec
PROPERTIES ReaperKillsOnlyDead DeadPaneReaped
