SPECIFICATION IntakeSpec
CONSTANTS
  Req = {r1, r2, r3}
  NoReq = none
  Ops = {"worker", "ensure", "replace", "kill", "cleanup"}
  MaxId = 2
  Issue = {x}
  NoIssue = noissue
SYMMETRY Requests
INVARIANTS OneSessionPerIssue NothingLost WorkerKeepsTree OneOrchestrator
CHECK_DEADLOCK FALSE
CONSTRAINT FewStanding
