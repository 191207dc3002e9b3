----------------------------- MODULE TrackerIntake -----------------------------
(***************************************************************************)
(* The intake observer polls the tracker of a project and starts a worker  *)
(* for each eligible issue that no session names, beside the requests of   *)
(* SessionSpawn (internal/observe/trackerintake).                          *)
(*                                                                         *)
(* An issue is its canonical id.  Which issues the tracker lists is open,  *)
(* so an issue that a user's session names is one of those not listed.     *)
(* Time is left out: a poll may begin whenever none is under way, and the  *)
(* backoff after a failure, which delays the next, is no part of the state.*)
(***************************************************************************)
EXTENDS SessionSpawn

CONSTANTS
  Issue,    \* issues of the tracker
  NoIssue   \* of a session that intake did not start

ASSUME IntakeAssumption == NoIssue \notin Issue

VARIABLES
  issue,   \* durable: the issue that a row names
  poll     \* the poll under way: issues it may still take, and its spawn

allVars == <<vars, issue, poll>>

Asleep == [step |-> "idle", todo |-> {}, spawn |-> NoReq]
PollAt(step) == poll.step = step

\* Mutant: ended sessions do not count.
SeenLive == {issue[i] : i \in {j \in Id : Running(j)}}

\* seenIssueIDs
Seen == {issue[i] : i \in {j \in Id : Present(j)}}

\* The loop over the issues that no session names; without one the poll ends.
Each(some) ==
  poll' = IF some = {} THEN Asleep ELSE [Asleep EXCEPT !.step = "each", !.todo = some]

\* The rows are read once, before the tracker is asked.  A poll that finds every issue
\* taken changes nothing, nor does one when all requests of the instance are used up.
PollStarts ==
  /\ PollAt("idle") /\ Each(Issue \ Seen)
  /\ \E r \in Req : At(r, "idle")
  /\ UNCHANGED <<vars, issue>>

\* Not listed, not open, not eligible, or refused before there is a row.
PassesOver ==
  /\ PollAt("each")
  /\ \E x \in poll.todo : Each(poll.todo \ {x})
  /\ UNCHANGED <<vars, issue>>

\* The call of Spawn for the next issue writes its row.
TakesIssue(r) ==
  /\ PollAt("each") /\ At(r, "idle")
  /\ \E x \in poll.todo, n \in Id :
       /\ Spawned(r, "worker", n)
       /\ issue' = [issue EXCEPT ![n] = x]
       /\ poll' = [step |-> "spawning", todo |-> poll.todo \ {x}, spawn |-> r]
  /\ UNCHANGED <<tree, tmux, missed>>

\* Whether it failed or not, the next issue follows.
SpawnReturns ==
  /\ PollAt("spawning") /\ job[poll.spawn].pc \in Ended
  /\ Each(poll.todo)
  /\ UNCHANGED <<vars, issue>>

\* A list that fails, or the end of the daemon, which fails the spawn under way; the next
\* poll starts from the rows.
PollStops ==
  /\ PollAt("each") \/ (PollAt("spawning") /\ At(poll.spawn, "failed"))
  /\ poll' = Asleep
  /\ UNCHANGED <<vars, issue>>

\* The requests beside it; a deleted row takes its issue with it.
Others(r) ==
  /\ Step(r)
  /\ issue' = [i \in Id |-> IF row'[i].state = "absent" THEN NoIssue ELSE issue[i]]
  /\ UNCHANGED poll

IntakeInit == Init /\ issue = [i \in Id |-> NoIssue] /\ poll = Asleep

IntakeNext ==
  \/ PollStarts \/ PassesOver \/ SpawnReturns \/ PollStops
  \/ \E r \in Req : TakesIssue(r) \/ Others(r)

IntakeSpec == IntakeInit /\ [][IntakeNext]_allVars

-----------------------------------------------------------------------------
(* Properties.                                                             *)

Automatic(i) == Present(i) /\ issue[i] # NoIssue

\* However its spawns end, whatever users kill, clean up and start, and across restarts:
\* intake never has two sessions for one issue (seenIssueIDs,
\* TestPollSkipsExistingIssueSessionsAfterRestart).
OneSessionPerIssue ==
  \A i, j \in Id : Automatic(i) /\ Automatic(j) /\ issue[i] = issue[j] => i = j

\* "The observer retries automatically after this window" (observer.go:23-24): a spawn
\* that failed leaves nothing that makes its issue count as seen.
FailedIssueRetried ==
  \A i \in Id : Automatic(i) => i \in missed["park"] \/ ~At(row[i].by, "failed")

\* The poll takes no issue that a session names.
IntakeSound ==
  /\ issue \in [Id -> Issue \cup {NoIssue}]
  /\ poll.todo \subseteq Issue
  /\ \A i \in Id : ~Present(i) => issue[i] = NoIssue
  /\ \A i \in Id : issue[i] \notin poll.todo
=============================================================================
