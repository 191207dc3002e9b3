SPECIFICATION FairDaemonSpec
CONSTANTS
  MaxDaemons = 2
  MaxEvents = 1
  MaxOpens = 2
INVARIANT DisconnectNotLost
PROPERTIES StartServes NoFalseAlarm ForsakenStops
CHECK_DEADLOCK FALSE
