SPECIFICATION FairSpec
CONSTANTS
  Pr = {1, 2}
  Sha = {1, 2}
  RunId = {1, 2}
  Req = {r1, r2}
  Opinions <- MCOpinions
  MaxStarts = 3
  MaxTurns = 1
  MaxFaults = 1
INVARIANTS RunningIsHanded OneReviewPerPR
PROPERTIES KeepsLedger FeedbackReaches
CHECK_DEADLOCK FALSE
