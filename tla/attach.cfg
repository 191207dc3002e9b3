SPECIFICATION FairAttachmentSpec
CONSTANTS
  Size = {0, 1, 2}
  MaxReattach = 1
  MaxInput = 3
  MaxResized = 1
  MaxFaults = 2
INVARIANTS InputKept EndsClean
PROPERTIES CloseIsSilent Ends DeadPaneEnds
CHECK_DEADLOCK FALSE
