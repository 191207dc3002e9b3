SPECIFICATION IntakeSpec
CONSTANTS
  Req = {r1, r2, r3}
  NoReq = none
  Ops = {"ensure", "replace", "cleanup"}
  MaxId = 2
  Issue = {}
  NoIssue = noissue
SYMMETRY Requests
INVARIANT IsolatedWorktree
CHECK_DEADLOCK FALSE
