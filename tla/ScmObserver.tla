----------------------------- MODULE ScmObserver -----------------------------
(***************************************************************************)
(* The pull request loop: the observer's poll (internal/observe/scm),      *)
(* which keeps the stored facts of a session's pull requests in step with  *)
(* the provider and passes every change on to the lifecycle reducer        *)
(* (internal/lifecycle/reactions.go), which ends the session or nudges its *)
(* agent through sendOnce (module SendOnce).                               *)
(*                                                                         *)
(* One session, one repository.  The poll is one goroutine; the provider,  *)
(* the session and the end of the daemon come between any two of its       *)
(* steps.  The semantic hashes of an observation are the values hashed,    *)
(* the ETags of the provider the values they validate.                     *)
(***************************************************************************)
EXTENDS SendOnce, Sequences

CONSTANTS
  CiRun,      \* the results of a pull request's successive CI runs
  CiFailure,  \* the results that are failures
  ReviewRun,  \* the states of its reviews, each with its decision and its open comments
  Comments,   \* those with open comments that do not request changes
  Base,       \* per pull request: the sibling it is stacked on, or 0
  Moods,      \* what the agent and the user may turn the session to
  Failing,    \* the calls that may fail, and "restart"
  MaxMoves,   \* bound: changes at the provider
  MaxFaults   \* bound: failed calls and restarts

NoReview == "none"
DecisionOnly == "changes_requested"  \* a review whose comments were not fetched
Conflicting == "conflicting"

ASSUME ScmAssumption ==
  /\ Pr \subseteq Nat \ {0}
  /\ Kind = {"ci", "review", "conflict"}
  /\ CiRun \in Seq(Sig) /\ Len(CiRun) > 0 /\ CiFailure \subseteq Sig
  /\ ReviewRun \in Seq(Sig \cup {NoReview}) /\ Len(ReviewRun) > 0
  /\ Comments \subseteq Sig \ {DecisionOnly}
  /\ {DecisionOnly, Conflicting} \subseteq Sig
  /\ NoReview \notin Sig /\ 0 \notin Pr
  /\ Base \in [Pr -> Pr \cup {0}]
  /\ Moods \subseteq {"workable", "paused", "ended"}
  /\ Failing \subseteq {"list guard", "list", "commit guard", "batch", "review", "store",
                       "nudge", "restart"}
  /\ MaxMoves \in Nat /\ MaxFaults \in Nat

VARIABLES
  remote,        \* the provider: the facts of each pull request
  recent,        \* the provider: the open ones, last updated first
  moves,         \* changes at the provider so far
  faults,        \* faults so far
  row,           \* durable: the facts in each pull request's row
  ack,           \* durable: the semantic hashes in the row
  listTag,       \* cache: RepoPRListETag
  ciTag,         \* cache: CommitChecksETag
  reviewFailed,  \* cache: ReviewRefreshFailed
  reviewRecent,  \* cache: LastReviewPollAt lies within the review interval
  step,          \* where the poll is
  guard,         \* poll: what the list guard said
  subjects,      \* poll: the pull requests to refresh
  ciSeen,        \* poll: the commit ETags to commit
  obs,           \* poll: the observations
  left,          \* poll: the observations not dispatched yet
  final,         \* dispatch: the hashes to acknowledge
  refreshed,     \* poll: prRefreshOK
  failed,        \* poll: the repository's refresh has failed
  queue,         \* reaction: the nudges of the current pull request to send
  owed           \* history: troubles the agent has not been told of

remoteVars == <<remote, recent, moves>>
rowVars == <<row, ack>>
cacheVars == <<listTag, ciTag, reviewFailed, reviewRecent>>
pollVars == <<step, guard, subjects, ciSeen, obs, left, final, refreshed, failed,
              queue>>
scmVars == <<nudgeVars, remoteVars, faults, rowVars, cacheVars, pollVars, owed>>

\* No ETag, no hash.
None == <<>>
NoRow == [state |-> "none"]
NoGuard == [said |-> "error", tag |-> None]
NoHash == [meta |-> None, ci |-> None, review |-> None]

Fault(call) == call \in Failing /\ faults < MaxFaults /\ faults' = faults + 1
NoFault == UNCHANGED faults

-----------------------------------------------------------------------------
(* The provider.                                                           *)

CiOf(p) == CiRun[remote[p].ci]
ReviewOf(p) == ReviewRun[remote[p].review]

\* Open comments leave the decision as it is.
Decision(review) == IF review \in Comments \cup {NoReview} THEN NoReview ELSE DecisionOnly

\* The list guard asks for one open pull request, the last updated.
ListETag ==
  IF recent = <<>> THEN <<"empty">>
  ELSE LET p == Head(recent) IN
       <<p, remote[p].updated>>

CiETag(p) == <<remote[p].ci>>

Without(p) == SelectSeq(recent, LAMBDA q : q # p)

\* A change at the provider, which the model does not let go on for ever.
Change(p, facts) ==
  /\ moves < MaxMoves
  /\ moves' = moves + 1
  /\ remote' = [remote EXCEPT ![p] = facts]
  /\ UNCHANGED <<nudgeVars, faults, rowVars, cacheVars, pollVars>>

\* One that updates the pull request: an open one comes first.
Update(p, facts) ==
  /\ Change(p, [facts EXCEPT !.updated = moves + 1])
  /\ recent' = (IF facts.state = "open" THEN <<p>> ELSE <<>>) \o Without(p)

Owe(p, k, trouble) == owed' = IF trouble THEN owed \cup {<<p, k>>} ELSE owed \ {<<p, k>>}

Open(p) ==
  /\ remote[p].state \in {"none", "closed"}
  /\ Update(p, [remote[p] EXCEPT !.state = "open"])
  /\ UNCHANGED owed

CiTurns(p) ==
  /\ remote[p].state = "open"
  /\ remote[p].ci < Len(CiRun)
  /\ Change(p, [remote[p] EXCEPT !.ci = @ + 1])
  /\ UNCHANGED recent
  /\ Owe(p, "ci", CiRun[remote[p].ci + 1] \in CiFailure)

ReviewTurns(p) ==
  /\ remote[p].state = "open"
  /\ \E n \in (remote[p].review + 1)..Len(ReviewRun) :
       /\ Update(p, [remote[p] EXCEPT !.review = n])
       /\ Owe(p, "review", ReviewRun[n] # NoReview)

\* A pull request stacked on an open one is expected to conflict.
ConflictTurns(p) ==
  /\ remote[p].state = "open"
  /\ Update(p, [remote[p] EXCEPT !.conflict = ~@])
  /\ Owe(p, "conflict", ~remote[p].conflict /\ remote[p].base = 0)

\* The pull request that p is stacked on is merged: p gets the base branch.
Retarget(p) ==
  /\ remote[p].state = "open"
  /\ remote[p].base # 0
  /\ remote[remote[p].base].state = "merged"
  /\ Update(p, [remote[p] EXCEPT !.base = 0])
  /\ Owe(p, "conflict", remote[p].conflict)

Settle(p, how) ==
  /\ remote[p].state = "open"
  /\ Update(p, [remote[p] EXCEPT !.state = how])
  /\ owed' = owed \ ({p} \X Kind)

-----------------------------------------------------------------------------
(* The poll.                                                               *)

Tracked == {p \in Pr : row[p] # NoRow}
OpenTracked == {p \in Tracked : row[p].state = "open"}

\* discoverSubjects, then guardRepos: the validator is the one of now.
PollStart ==
  /\ step = "idle"
  /\ session # "ended"
  /\ subjects' = OpenTracked
  /\ \/ /\ guard' = [said |-> IF listTag = ListETag THEN "unmodified" ELSE "modified",
                     tag |-> ListETag]
        /\ step' = IF listTag = ListETag THEN "selecting" ELSE "listing"
        /\ NoFault
     \/ /\ guard' = [said |-> "error", tag |-> None]
        /\ step' = "selecting"
        /\ Fault("list guard")
  /\ UNCHANGED <<nudgeVars, remoteVars, rowVars, cacheVars, ciSeen, obs, left,
                 final, refreshed, failed, queue, owed>>

\* No session to poll for.
PollNothing == step = "idle" /\ session = "ended" /\ UNCHANGED scmVars

Baseline(p) ==
  [state |-> "open", ci |-> "unknown", review |-> NoReview, conflict |-> FALSE,
   base |-> remote[p].base]

\* Mutant: a discovered pull request is refreshed but not stored first.
NothingStored(D) == UNCHANGED rowVars

\* The open baseline rows of the pull requests in D.
StoreBaselines(D) ==
  /\ row' = [p \in Pr |-> IF p \in D THEN Baseline(p) ELSE row[p]]
  /\ ack' = [p \in Pr |-> IF p \in D THEN NoHash ELSE ack[p]]

\* discoverNewPRs: the open pull requests the session does not have yet.
DiscoverNew ==
  /\ step = "listing"
  /\ LET new == {p \in Pr : remote[p].state = "open"} \ subjects IN
     \/ /\ StoreBaselines(new)
        /\ subjects' = subjects \cup new
        /\ NoFault /\ UNCHANGED failed
     \/ \E stored \in SUBSET new :  \* the list or a write fails
          /\ StoreBaselines(stored)
          /\ subjects' = subjects \cup stored
          /\ Fault("list") /\ failed' = TRUE
  /\ step' = "selecting"
  /\ UNCHANGED <<nudgeVars, remoteVars, cacheVars, guard, ciSeen, obs, left,
                 final, refreshed, queue, owed>>

MissingLocalState(p) == ack[p].meta = None \/ ack[p].ci = None

\* selectRefreshCandidates: the commit guards; the others follow the list guard.
Select ==
  /\ step = "selecting"
  /\ \E asked \in {subjects} \cup {subjects \ {p} : p \in subjects} :
       /\ IF asked = subjects THEN NoFault /\ UNCHANGED failed ELSE Fault("commit guard") /\ failed' = TRUE
       /\ LET turned == {p \in asked : ciTag[p] # CiETag(p)} IN
          /\ ciSeen' = [p \in turned |-> CiETag(p)]
          /\ left' = {p \in subjects : MissingLocalState(p)} \cup turned
                     \cup (IF guard.said = "modified" THEN subjects ELSE {})
  /\ step' = "fetching"
  /\ UNCHANGED <<nudgeVars, remoteVars, rowVars, cacheVars, guard, subjects, obs,
                 final, refreshed, queue, owed>>

\* What FetchPullRequests returns of p: a review without its comments.
FromProvider(p) ==
  [state |-> remote[p].state, ci |-> CiOf(p), review |-> Decision(ReviewOf(p)),
   conflict |-> remote[p].conflict, base |-> remote[p].base,
   from |-> "provider", read |-> "decision"]

\* observationFromLocal.
FromRow(p) ==
  [state |-> row[p].state, ci |-> row[p].ci, review |-> row[p].review,
   conflict |-> row[p].conflict, base |-> row[p].base,
   from |-> "row", read |-> "decision"]

\* One batch.
Fetch ==
  /\ step = "fetching"
  /\ \/ /\ obs' = [p \in left |-> FromProvider(p)]
        /\ NoFault /\ UNCHANGED failed
     \/ /\ left # {}
        /\ obs' = <<>>
        /\ Fault("batch") /\ failed' = TRUE
  /\ left' = {}
  /\ step' = "reviewing"
  /\ UNCHANGED <<nudgeVars, remoteVars, rowVars, cacheVars, guard, subjects, ciSeen,
                 final, refreshed, queue, owed>>

\* needsReviewRefresh.
NeedsReviewRefresh(p) ==
  LET decision == IF p \in DOMAIN obs THEN obs[p].review ELSE row[p].review IN
  \/ p \in reviewFailed
  \/ ack[p].review = None
  \/ IF decision = DecisionOnly THEN p \notin reviewRecent
     ELSE decision # row[p].review

\* refreshReviews.  With no observation of its own the fetched review goes with
\* the facts of the row; a failed fetch leaves the decision of the row.
RefreshReviews ==
  /\ step = "reviewing"
  /\ LET due == {p \in subjects : NeedsReviewRefresh(p)}
         facts(p) == IF p \in DOMAIN obs THEN obs[p] ELSE FromRow(p)
     IN
     \E down \in {{}} \cup {{p} : p \in due} :
       /\ IF down = {} THEN NoFault ELSE Fault("review")
       /\ obs' = [p \in DOMAIN obs \cup (due \ down) |->
                    IF p \in due \ down
                    THEN [facts(p) EXCEPT !.review = ReviewOf(p), !.read = "threads"]
                    ELSE IF p \in down
                    THEN [obs[p] EXCEPT !.review = row[p].review, !.read = "stale"]
                    ELSE obs[p]]
       /\ reviewFailed' = (reviewFailed \cup down) \ (due \ down)
  /\ left' = DOMAIN obs'
  /\ step' = "dispatching"
  /\ UNCHANGED <<nudgeVars, remoteVars, rowVars, listTag, ciTag, reviewRecent, guard,
                 subjects, ciSeen, final, refreshed, failed, queue, owed>>

-----------------------------------------------------------------------------
(* Dispatch: facts, then the reaction, then the hashes.                    *)

Meta(o) == <<o.state, o.conflict, o.base>>

\* prepareForPersistence: the hashes the observation of p ends with.
Hashes(p) ==
  LET o == obs[p] IN
  [meta |-> IF o.from = "row" THEN ack[p].meta ELSE Meta(o),
   ci |-> IF o.from = "row" THEN ack[p].ci ELSE <<o.ci>>,
   review |-> IF /\ o.read # "stale"
                 /\ o.read = "threads" \/ ack[p].review = None \/ Decision(o.review) # row[p].review
              THEN <<o.review>> ELSE ack[p].review]

\* The facts domainFromObservation stores.
Stored(p) ==
  [state |-> obs[p].state, ci |-> obs[p].ci, review |-> Decision(obs[p].review),
   conflict |-> obs[p].conflict, base |-> obs[p].base]

\* dispatchOrder: by number.
AtTurn(p) == p \in left /\ \A q \in left : p <= q

SkipUnchanged(p) ==
  /\ AtTurn(p)
  /\ step = "dispatching"
  /\ Hashes(p) = ack[p]
  /\ refreshed' = refreshed \cup {p}
  /\ left' = left \ {p}
  /\ NoFault
  /\ UNCHANGED <<nudgeVars, remoteVars, rowVars, cacheVars, step, guard, subjects, ciSeen,
                 obs, final, failed, queue, owed>>

\* Mutant: the hashes are not held back.
HashesAtOnce(p) ==
  /\ row' = [row EXCEPT ![p] = Stored(p)]
  /\ ack' = [ack EXCEPT ![p] = Hashes(p)]

\* The facts are durable before the reaction, with the hashes held back.
StorePending(p) ==
  /\ row' = [row EXCEPT ![p] = Stored(p)]
  /\ UNCHANGED ack

StoreFacts(p) ==
  /\ AtTurn(p)
  /\ step = "dispatching"
  /\ Hashes(p) # ack[p]
  /\ StorePending(p)
  /\ final' = Hashes(p)
  /\ step' = "reacting"
  /\ NoFault
  /\ UNCHANGED <<nudgeVars, remoteVars, cacheVars, guard, subjects, ciSeen, obs, left,
                 refreshed, failed, queue, owed>>

\* A failed call of the dispatch leaves this observation to a later poll.
GiveUp(p) ==
  /\ left' = left \ {p}
  /\ failed' = TRUE
  /\ step' = "dispatching"
  /\ queue' = <<>>
  /\ UNCHANGED <<guard, subjects, ciSeen, obs, final, refreshed, cacheVars, remoteVars>>

\* WriteSCMObservation, or a read of the reducer, fails.
DispatchFails(p) ==
  /\ AtTurn(p)
  /\ \/ step = "dispatching" /\ Hashes(p) # ack[p]
     \/ step \in {"reacting", "ending", "acking"}
  /\ GiveUp(p)
  /\ Fault("store")
  /\ UNCHANGED <<nudgeVars, rowVars, owed>>

\* Mutant: a merged pull request is not taken for settled.
OnlyClosedSettles ==
  /\ \A p \in Tracked : row[p].state = "closed"
  /\ \E p \in Tracked : row[p].state = "merged"

\* sessionComplete.
SessionComplete ==
  /\ OpenTracked = {}
  /\ \E p \in Tracked : row[p].state = "merged"

\* prBlockedByOpenParent.
BlockedByOpenParent(p) == row[p].base \in OpenTracked

\* The nudges ApplyPRObservation queues, in its order.
Nudges(p) ==
  LET o == obs[p] IN
  (IF o.ci \in CiFailure THEN << <<"ci", o.ci>> >> ELSE <<>>)
  \o (IF o.review # NoReview THEN << <<"review", o.review>> >> ELSE <<>>)
  \o (IF o.conflict /\ ~BlockedByOpenParent(p) THEN << <<"conflict", Conflicting>> >> ELSE <<>>)

\* ApplyPRObservation up to its first effect.
React(p) ==
  /\ AtTurn(p)
  /\ step = "reacting"
  /\ IF obs[p].state # "open"
     THEN /\ step' = IF SessionComplete THEN "ending" ELSE "acking"
          /\ UNCHANGED queue
     ELSE /\ step' = "nudging"
          /\ queue' = IF session = "workable" THEN Nudges(p) ELSE <<>>
  /\ NoFault
  /\ UNCHANGED <<nudgeVars, remoteVars, rowVars, cacheVars, guard, subjects, ciSeen, obs,
                 left, final, refreshed, failed, owed>>

\* MarkTerminated.
EndSession(p) ==
  /\ AtTurn(p)
  /\ step = "ending"
  /\ SessionMoves("ended")
  /\ step' = "acking"
  /\ NoFault
  /\ UNCHANGED <<remoteVars, rowVars, cacheVars, guard, subjects, ciSeen, obs, left,
                 final, refreshed, failed, queue, owed>>

\* What the agent is now told of p is no longer owed to it.
Told(p, k, sig) ==
  LET trouble == CASE k = "ci" -> CiOf(p) [] k = "review" -> ReviewOf(p)
                   [] k = "conflict" -> Conflicting
  IN owed' = IF told' # told /\ sig = trouble THEN owed \ {<<p, k>>} ELSE owed

\* sendOnce, with the next nudge.
Nudge(p) ==
  /\ AtTurn(p)
  /\ step = "nudging"
  /\ queue # <<>>
  /\ LET k == Head(queue)[1]
         sig == Head(queue)[2]
     IN
     /\ \/ SkipAccounted(p, k, sig) /\ queue' = Tail(queue)
        \/ Suppressed(p, k, sig) /\ queue' = Tail(queue)
        \/ Paste(p, k, sig) /\ UNCHANGED queue
     /\ Told(p, k, sig)
  /\ NoFault
  /\ UNCHANGED <<remoteVars, rowVars, cacheVars, step, guard, subjects, ciSeen, obs, left,
                 final, refreshed, failed>>

NudgeSaved(p) ==
  /\ AtTurn(p)
  /\ step = "nudging"
  /\ queue # <<>>
  /\ Persist
  /\ queue' = Tail(queue)
  /\ NoFault
  /\ UNCHANGED <<remoteVars, rowVars, cacheVars, step, guard, subjects, ciSeen, obs, left,
                 final, refreshed, failed, owed>>

NudgeFails(p) ==
  /\ AtTurn(p)
  /\ step = "nudging"
  /\ queue # <<>>
  /\ LET k == Head(queue)[1]
         sig == Head(queue)[2]
     IN
     /\ NotRead(p, k, sig) \/ PasteFails(p, k, sig) \/ PersistFails
     /\ Told(p, k, sig)
  /\ GiveUp(p)
  /\ Fault("nudge")
  /\ UNCHANGED rowVars

NudgesDone(p) ==
  /\ AtTurn(p)
  /\ step = "nudging"
  /\ queue = <<>>
  /\ step' = "acking"
  /\ NoFault
  /\ UNCHANGED <<nudgeVars, remoteVars, rowVars, cacheVars, guard, subjects, ciSeen, obs,
                 left, final, refreshed, failed, queue, owed>>

\* The reaction is done: the hashes are stored.
Acknowledge(p) ==
  /\ AtTurn(p)
  /\ step = "acking"
  /\ ack' = [ack EXCEPT ![p] = final]
  /\ refreshed' = refreshed \cup {p}
  /\ left' = left \ {p}
  /\ step' = "dispatching"
  /\ NoFault
  /\ UNCHANGED <<nudgeVars, remoteVars, row, cacheVars, guard, subjects, ciSeen, obs,
                 final, failed, queue, owed>>

\* The poll and what it holds are gone.
PollOver ==
  /\ step' = "idle" /\ guard' = NoGuard
  /\ subjects' = {} /\ ciSeen' = <<>> /\ obs' = <<>> /\ left' = {} /\ final' = NoHash
  /\ refreshed' = {} /\ failed' = FALSE /\ queue' = <<>>

\* Mutant: the validator is asked for again at the end of the poll.
TagOfNow == ListETag

\* The validator the guard returned at the start of the poll.
TagToCommit == guard.tag

\* The validators of what was refreshed are committed.
PollEnd ==
  /\ step = "dispatching"
  /\ left = {}
  /\ listTag' = IF guard.said # "error" /\ ~failed THEN TagToCommit ELSE listTag
  /\ ciTag' = [p \in Pr |-> IF p \in refreshed \cap DOMAIN ciSeen THEN ciSeen[p] ELSE ciTag[p]]
  /\ reviewRecent' = reviewRecent \cup {p \in refreshed \cap DOMAIN obs : obs[p].read = "threads"}
  /\ PollOver
  /\ NoFault
  /\ UNCHANGED <<nudgeVars, remoteVars, rowVars, reviewFailed, owed>>

\* The review interval of p has passed.
ReviewDue(p) ==
  /\ p \in reviewRecent
  /\ reviewRecent' = reviewRecent \ {p}
  /\ NoFault
  /\ UNCHANGED <<nudgeVars, remoteVars, rowVars, listTag, ciTag, reviewFailed, pollVars, owed>>

DaemonRestarts ==
  /\ Fault("restart")
  /\ ForgetNudges
  /\ listTag' = None
  /\ ciTag' = [p \in Pr |-> None]
  /\ reviewFailed' = {}
  /\ reviewRecent' = {}
  /\ PollOver
  /\ UNCHANGED <<remoteVars, rowVars, owed>>

\* A permission dialog opens or closes, the user ends or restores the session.
MoodTurns(to) ==
  /\ session # to
  /\ moves < MaxMoves
  /\ moves' = moves + 1
  /\ SessionMoves(to)
  /\ UNCHANGED <<remote, recent, faults, rowVars, cacheVars, pollVars, owed>>

ScmInit ==
  /\ NudgeInit
  /\ remote = [p \in Pr |-> [state |-> "none", ci |-> 1, review |-> 1, conflict |-> FALSE,
                             base |-> Base[p], updated |-> 0]]
  /\ recent = <<>> /\ moves = 0 /\ faults = 0
  /\ row = [p \in Pr |-> NoRow]
  /\ ack = [p \in Pr |-> NoHash]
  /\ listTag = None /\ ciTag = [p \in Pr |-> None]
  /\ reviewFailed = {} /\ reviewRecent = {}
  /\ step = "idle" /\ guard = NoGuard
  /\ subjects = {} /\ ciSeen = <<>> /\ obs = <<>> /\ left = {} /\ final = NoHash
  /\ refreshed = {} /\ failed = FALSE /\ queue = <<>>
  /\ owed = {}

PollNext ==
  \/ PollStart \/ PollNothing \/ DiscoverNew \/ Select \/ Fetch \/ RefreshReviews
  \/ \E p \in Pr :
       \/ SkipUnchanged(p) \/ StoreFacts(p) \/ DispatchFails(p)
       \/ React(p) \/ EndSession(p)
       \/ Nudge(p) \/ NudgeSaved(p) \/ NudgeFails(p) \/ NudgesDone(p)
       \/ Acknowledge(p)
  \/ PollEnd

ScmNext ==
  \/ \E p \in Pr :
       \/ Open(p) \/ CiTurns(p) \/ ReviewTurns(p) \/ ConflictTurns(p) \/ Retarget(p)
       \/ \E how \in {"merged", "closed"} : Settle(p, how)
       \/ ReviewDue(p)
  \/ \E to \in Moods : MoodTurns(to)
  \/ DaemonRestarts
  \/ PollNext

ScmSpec == ScmInit /\ [][ScmNext]_scmVars

\* The observer polls on a ticker and its poll runs to its end; time passes.
ScmLiveSpec ==
  /\ ScmSpec
  /\ WF_scmVars(PollNext)
  /\ \A p \in Pr : WF_scmVars(ReviewDue(p))

-----------------------------------------------------------------------------
(* Properties.                                                             *)

ScmTypeOK ==
  /\ NudgeTypeOK
  /\ DOMAIN remote = Pr /\ DOMAIN row = Pr /\ DOMAIN ack = Pr
  /\ DOMAIN obs \subseteq subjects /\ left \subseteq subjects
  /\ \A i \in 1..Len(queue) : queue[i] \in Kind \X Sig
  /\ step \in {"idle", "listing", "selecting", "fetching", "reviewing", "dispatching",
              "reacting", "ending", "nudging", "acking"}
  /\ owed \subseteq Pr \X Kind

\* A merge ends the session only if the poll that saw it has seen every open
\* pull request it knows of, the ones it has just discovered included, merged
\* or closed at the provider.
EndsWithItsWork ==
  [][step = "ending" /\ session' # session =>
       \A p \in subjects : p \in DOMAIN obs /\ obs[p].state # "open"]_scmVars

\* The validator of a commit's checks does not advance after a failed fetch of a
\* pull request whose local state is complete.
ChecksFetchedBeforeETag ==
  [][\A p \in Pr : ~MissingLocalState(p) /\ ciTag'[p] \notin {ciTag[p], None} =>
       p \in DOMAIN obs /\ obs[p].from = "provider"]_scmVars

\* The batch that was to fetch the new checks of a pull request has failed, and its review
\* is about to be refreshed: what ChecksFetchedBeforeETag is about.
ChecksForgotten ==
  /\ step = "reviewing" /\ DOMAIN obs = {}
  /\ \E p \in DOMAIN ciSeen : ~MissingLocalState(p) /\ NeedsReviewRefresh(p)

\* A failing CI run of an open pull request reaches the agent, whatever calls fail, the batch
\* included, and however often the daemon restarts on the way: unless the checks of a failed
\* batch are forgotten for a review.
FailureReachesAgent ==
  []~ChecksForgotten => \A p \in Pr : <<p, "ci">> \in owed ~> <<p, "ci">> \notin owed

RequestsChanges(p) == <<p, "review">> \in owed /\ Decision(ReviewOf(p)) = DecisionOnly

\* So does a request for changes, if at most one call fails or the daemon restarts once: a
\* failed fetch is remembered by a flag which its retry clears before what it has fetched is
\* stored.  Comments that request nothing are another matter: see CommentsReachAgent.
ReviewReachesAgent ==
  [](faults <= 1) => \A p \in Pr : RequestsChanges(p) ~> ~RequestsChanges(p)

\* "Route CI failures, review comments, and merge conflicts back to the right session"
\* (README.md:36), with comments that leave the decision as it is.
CommentsReachAgent ==
  \A p \in Pr : <<p, "review">> \in owed ~> <<p, "review">> \notin owed

\* So does a merge conflict that the agent was never told of.
FirstConflictReachesAgent ==
  \A p \in Pr :
    <<p, "conflict">> \in owed /\ told[p]["conflict"] = NoSig ~> <<p, "conflict">> \notin owed

\* So does every merge conflict that the stored facts do not show yet.
ConflictReachesAgent ==
  \A p \in Pr :
    /\ <<p, "conflict">> \in owed
    /\ p \in Tracked /\ ~row[p].conflict
    ~> <<p, "conflict">> \notin owed

\* By the stored facts the session's pull requests are settled, one at least merged.
MergeStored ==
  /\ \E p \in Tracked : row[p].state = "merged"
  /\ \A p \in Tracked : row[p].state # "open"

\* A merge that settles the session's stored pull requests ends the session.
MergeEndsSession == MergeStored ~> session = "ended" \/ ~MergeStored

\* It does when no call fails.
CleanMergeEndsSession == [](faults = 0) => MergeEndsSession

-----------------------------------------------------------------------------
(* The inductive strengthenings ScmObserverProofs uses.                    *)

States == {"none", "open", "merged", "closed"}

RemoteFacts ==
  [state : States, ci : 1..Len(CiRun), review : 1..Len(ReviewRun), conflict : BOOLEAN,
   base : Pr \cup {0}, updated : Nat]

Facts ==
  [state : States, ci : Sig \cup {"unknown"}, review : Sig \cup {NoReview},
   conflict : BOOLEAN, base : Pr \cup {0}]

Observation ==
  [state : States, ci : Sig \cup {"unknown"}, review : Sig \cup {NoReview},
   conflict : BOOLEAN, base : Pr \cup {0},
   from : {"provider", "row"}, read : {"decision", "threads", "stale"}]

Dispatching == {"dispatching", "reacting", "ending", "nudging", "acking"}

\* The facts at the provider, in the rows and in the observations are facts.
FactsTyped ==
  /\ moves \in Nat
  /\ remote \in [Pr -> RemoteFacts]
  /\ row \in [Pr -> Facts \cup {NoRow}]
  /\ DOMAIN ack = Pr
  /\ \A p \in DOMAIN obs : obs[p] \in Observation

\* What the poll holds is about pull requests it has rows of; every nudge in
\* the queue has a kind and a signature.
PollTyped ==
  /\ step \in {"idle", "listing", "selecting", "fetching", "reviewing"} \cup Dispatching
  /\ subjects \subseteq Tracked
  /\ DOMAIN obs \subseteq subjects
  /\ left \subseteq subjects
  /\ step = "idle" => left = {}
  /\ step \in {"idle", "listing", "selecting", "fetching"} => DOMAIN obs = {}
  /\ step \in Dispatching => left \subseteq DOMAIN obs
  /\ queue \in Seq(Kind \X Sig)
  /\ owed \subseteq Pr \X Kind

\* A subject is open in its row until the dispatch has stored what the poll
\* observed of it; the session is about to end only when no row is open.
SettledIsObserved ==
  /\ \A p \in subjects :
       \/ row[p].state = "open"
       \/ step \in Dispatching /\ p \in DOMAIN obs /\ row[p].state = obs[p].state
  /\ step = "ending" => OpenTracked = {}
=============================================================================
