--------------------------- MODULE MCScmObserver ---------------------------
(***************************************************************************)
(* Small instances of ScmObserver for TLC.                                 *)
(***************************************************************************)
EXTENDS ScmObserver

CONSTANTS f1, f2, pass1, pass2, c1, r1, r2

\* Reviews are nudged a bounded number of times: reviewMaxNudge.
ThreeReviews == [k \in Kind |-> IF k = "review" THEN 3 ELSE 0]

OneRun == <<pass1, f1>>
TwoRuns == <<pass1, f1, f2>>
OneReview == <<NoReview, c1, r1>>
NoReviews == <<NoReview>>
Sigs == {f1, f2, pass1, pass2, c1, r1, r2, DecisionOnly, Conflicting}
NotStacked == [p \in Pr |-> 0]
Stacked == [p \in Pr |-> IF p = 2 THEN 1 ELSE 0]
=============================================================================
