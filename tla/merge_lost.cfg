CONSTANTS
  Pr = {1}
  Kind = {"ci", "review", "conflict"}
  f1 = f1  f2 = f2  pass1 = pass1  pass2 = pass2  c1 = c1  r1 = r1  r2 = r2
  NoSig = NoSig
  Sig <- Sigs
  MaxNudge <- ThreeReviews
  CiRun <- TwoRuns
  CiFailure = {f1, f2}
  ReviewRun <- OneReview
  Comments = {c1}
  Base <- NotStacked
  Moods = {}
  Failing = {"store", "restart"}
  MaxMoves = 2
  MaxFaults = 1
SPECIFICATION ScmLiveSpec
PROPERTY MergeEndsSession
