------------------------- MODULE MCSessionLifecycle -------------------------
(***************************************************************************)
(* Constants of SessionLifecycle for TLC.  Tool uses t1 and t2 carry the   *)
(* same name (two Bash calls of parallel subagents), t3 another one.       *)
(***************************************************************************)
EXTENDS SessionLifecycle

CONSTANTS t1, t2, t3, bash, edit

MCToolName == [t \in Tool |-> IF t = t3 THEN edit ELSE bash]
=============================================================================
