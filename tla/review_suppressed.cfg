SPECIFICATION FairSpec
CONSTANTS
  Pr = {1}
  Sha = {1}
  RunId = {1}
  Req = {r1}
  Opinions <- MCOpinions
  MaxStarts = 3
  MaxTurns = 2
  MaxFaults = 0
PROPERTY SuppressedRefires
CHECK_DEADLOCK FALSE
