----------------------------- MODULE ReviewLedger -----------------------------
(***************************************************************************)
(* What the review engine promises of its passes, whatever requests, lock, *)
(* pane and failing calls lie behind them: a pull request has one pass     *)
(* under way, a pass ends once and for good, and it is marked delivered    *)
(* only after the worker's pane answered for it.                           *)
(***************************************************************************)
CONSTANTS
  Pr,      \* pull requests of the worker
  Sha,     \* their head commits
  RunId    \* passes

VARIABLES
  run,       \* review_run: the passes, "none" while there is no such row
  answered   \* the passes whose feedback the nudge pipe accounted for

ledgerVars == <<run, answered>>

Statuses == {"none", "running", "complete", "delivered", "failed", "cancelled"}
Verdicts == {"approved", "changes_requested"}

Opened(i, p, s) ==
  /\ run[i].status = "none"
  /\ \A j \in RunId : run[j].status = "running" => run[j].pr # p
  /\ \E b \in RunId :
       run' = [run EXCEPT ![i] = [pr |-> p, sha |-> s, batch |-> b,
                                  status |-> "running", verdict |-> "none"]]
  /\ UNCHANGED answered

\* The reviewer's result is recorded.
Completed(i, v) ==
  /\ run[i].status = "running"
  /\ run' = [run EXCEPT ![i].status = "complete", ![i].verdict = v]
  /\ UNCHANGED answered

\* Passes under way are superseded, given up or cancelled.
Abandoned(some, how) ==
  /\ \A i \in some : run[i].status = "running"
  /\ run' = [i \in RunId |-> IF i \in some THEN [run[i] EXCEPT !.status = how] ELSE run[i]]
  /\ UNCHANGED answered

\* The nudge pipe accounted for the feedback of some passes.
Answered(some) ==
  /\ \A i \in some : run[i].verdict = "changes_requested"
  /\ answered' = answered \cup some
  /\ UNCHANGED run

Delivered(i) ==
  /\ i \in answered
  /\ run[i].status = "complete"
  /\ run' = [run EXCEPT ![i].status = "delivered"]
  /\ UNCHANGED answered

LedgerInit ==
  /\ \A i \in RunId : run[i].status = "none"
  /\ answered = {}

LedgerNext ==
  \/ \E i \in RunId, p \in Pr, s \in Sha : Opened(i, p, s)
  \/ \E i \in RunId, v \in Verdicts : Completed(i, v)
  \/ \E some \in SUBSET RunId, how \in {"failed", "cancelled"} : Abandoned(some, how)
  \/ \E some \in SUBSET RunId : Answered(some)
  \/ \E i \in RunId : Delivered(i)

LedgerSpec == LedgerInit /\ [][LedgerNext]_ledgerVars

-----------------------------------------------------------------------------

\* Two reviewers never work on one pull request: it has one pass under way.
OnePassPerPR ==
  \A i, j \in RunId :
    run[i].status = "running" /\ run[j].status = "running" /\ run[i].pr = run[j].pr
    => i = j
=============================================================================
