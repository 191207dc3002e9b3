CONSTANTS
  Pr = {1, 2}
  Kind = {"ci", "review", "conflict"}
  f1 = f1  f2 = f2  pass1 = pass1  pass2 = pass2  c1 = c1  r1 = r1  r2 = r2
  NoSig = NoSig
  Sig <- Sigs
  MaxNudge <- ThreeReviews
  CiRun <- OneRun
  CiFailure = {f1, f2}
  ReviewRun <- NoReviews
  Comments = {c1}
  Base <- Stacked
  Moods = {"workable", "paused"}
  Failing = {"list", "store", "restart"}
  MaxMoves = 4
  MaxFaults = 1
SPECIFICATION ScmSpec
PROPERTY EndsWithItsWork
