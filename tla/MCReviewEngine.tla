---------------------------- MODULE MCReviewEngine ----------------------------
(***************************************************************************)
(* The instance of the review runs: the reviewer finds fault with all.     *)
(***************************************************************************)
EXTENDS ReviewEngine

MCOpinions == {[i \in RunId |-> "changes_requested"]}
=============================================================================
