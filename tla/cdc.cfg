SPECIFICATION FairSpec
CONSTANTS
  Client = {c1}
  Writer = {w1, w2}
  Session = {s1, s2}
  MaxSeq = 3
  MaxFaults = 1
  PollBatch = 2
  ReplayBatch = 1
  LiveBuffer = 1
  MaxLuck = 1
INVARIANT NothingMissed
PROPERTIES ImplementsFeed ChangeReaches
CHECK_DEADLOCK FALSE
