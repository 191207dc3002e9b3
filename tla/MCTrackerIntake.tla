---------------------------- MODULE MCTrackerIntake ----------------------------
(* TrackerIntake for the model checker: requests are interchangeable.        *)
EXTENDS TrackerIntake, TLC

Requests == Permutations(Req)

\* A second runtime or worktree that a rollback failed to get ends the behaviour.
FewStanding == Cardinality(missed["runtime"]) + Cardinality(missed["tree"]) <= 1
=============================================================================
