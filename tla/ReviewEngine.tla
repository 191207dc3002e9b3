----------------------------- MODULE ReviewEngine -----------------------------
(***************************************************************************)
(* The review engine of one worker session: Trigger, which records a pass  *)
(* per pull request and hands them to one reviewer pane, Cancel, and the   *)
(* reviewer's Submit with the delivery of its feedback to the worker       *)
(* (internal/review, internal/service/review, lifecycle/reactions.go).     *)
(*                                                                         *)
(* Triggers of a worker hold its lock; Cancel and Submit do not.  Every    *)
(* call is an action, requests interleave, calls fail, panes and the       *)
(* daemon end.  The nudge pipe is SendOnce with the batch as the kind and  *)
(* the set of passes as the signature.                                     *)
(***************************************************************************)
EXTENDS Integers

CONSTANTS
  Pr,           \* pull requests of the worker, by number
  Sha,          \* head commits of a pull request: 1, 2, ...
  RunId,        \* review_run rows, in the order of their creation
  Req,          \* requests under way
  Opinions,     \* the results the reviewer may give: functions from RunId
  MaxStarts,    \* requests begun
  MaxTurns,     \* pushes, merges, moods and deaths of the pane
  MaxFaults     \* calls that fail, and ends of the daemon

ASSUME ReviewAssumption ==
  /\ Pr \subseteq Nat /\ Sha \subseteq Nat /\ 1 \in Sha
  /\ RunId \subseteq Nat \ {0}
  /\ Opinions \subseteq [RunId -> {"approved", "changes_requested"}]
  /\ MaxStarts \in Nat /\ MaxTurns \in Nat /\ MaxFaults \in Nat

VARIABLES
  head, open,    \* durable: the pull requests' heads, those neither merged nor closed
  run,           \* durable: review_run, "none" while there is no such row
  handle,        \* durable: the review row keeps the pane's handle
  lock,          \* memory: the requests that hold the worker's lock
  req,           \* memory: the requests
  pane, queue,   \* the reviewer's pane is there; the passes it was asked for
  session, record, loaded, saved, writing, told, doubt,   \* of SendOnce
  starts, turns, faults,   \* against the bounds
  handed,        \* history: the passes a reviewer was asked for
  fed,           \* history: the passes whose feedback was typed into the worker's pane
  spent          \* history: the passes left out because the nudges were used up

prVars == <<head, open>>
paneVars == <<pane, queue, handed>>
nudgeVars == <<session, record, loaded, saved, writing, told, doubt>>
engineVars == <<run, handle, lock, req>>
faultVars == <<starts, turns, faults>>
vars == <<prVars, engineVars, paneVars, nudgeVars, faultVars, fed, spent>>

Nudge == INSTANCE SendOnce WITH
  Kind <- RunId, Sig <- (SUBSET RunId) \ {{}}, NoSig <- {}, MaxNudge <- [b \in RunId |-> 3]

-----------------------------------------------------------------------------
(* Rows and plan.                                                          *)

Run == [pr : Pr \cup {0}, sha : Sha \cup {0}, batch : RunId \cup {0},
        status : {"none", "running", "complete", "delivered", "failed", "cancelled"},
        verdict : {"none", "approved", "changes_requested"}]
NoRun == [pr |-> 0, sha |-> 0, batch |-> 0, status |-> "none", verdict |-> "none"]

Exists(i) == run[i].status # "none"
Running(i) == run[i].status = "running"
Of(p, s) == {i \in RunId : Exists(i) /\ run[i].pr = p /\ run[i].sha = s}

\* Plan: the newest pass of a head decides.
NeedsReview(p, s) ==
  \A i \in Of(p, s) :
    (\A j \in Of(p, s) : j <= i) => ~Running(i) /\ run[i].verdict # "approved"

\* The partial unique index of the rows: one is under way or has approved the head.
Duplicate(p, s) == \E i \in Of(p, s) : Running(i) \/ run[i].verdict = "approved"

-----------------------------------------------------------------------------
(* Requests.  "view" is what a trigger read of the heads (0: nothing to    *)
(* review there), "prs" the pull requests left in its loop, "made" the     *)
(* passes it recorded; of a submission "says" are the results, "made" the  *)
(* passes recorded so far; "todo" are the passes left in a loop.           *)

TriggerPlaces == {"plan", "supersede", "insert", "alive", "spawn", "notify", "record", "fail"}
SubmitPlaces == {"read", "update", "heads", "apply", "send", "persist", "deliver"}
Places == {"idle", "interrupt", "mark"} \cup TriggerPlaces \cup SubmitPlaces
Request == [at : Places, view : [Pr -> Sha \cup {0}], prs : SUBSET Pr, todo : SUBSET RunId,
            made : SUBSET RunId, says : [RunId -> {"approved", "changes_requested"}]]
SomeOpinion == [i \in RunId |-> "approved"]
NoReq == [at |-> "idle", view |-> [p \in Pr |-> 0], prs |-> {}, todo |-> {}, made |-> {},
          says |-> SomeOpinion]

At(r, place) == req[r].at = place
First(some) == CHOOSE x \in some : \A y \in some : x <= y
Goes(r, place) == req' = [req EXCEPT ![r].at = place]
Returns(r) == req' = [req EXCEPT ![r] = NoReq] /\ lock' = lock \ {r}

\* One of the calls fails, or the daemon ends.
Fault == faults < MaxFaults /\ faults' = faults + 1 /\ UNCHANGED <<starts, turns>>

Begins == starts < MaxStarts /\ starts' = starts + 1 /\ UNCHANGED <<turns, faults>>

\* Mutant: no lock.
FreeNot == TRUE

\* lockWorker
Free == lock = {}

-----------------------------------------------------------------------------
(* Trigger.                                                                *)

\* lockWorker, GetSession, ListPRsBySession.
TriggerStarts(r) ==
  /\ At(r, "idle") /\ Free /\ session # "ended"
  /\ Begins
  /\ lock' = lock \cup {r}
  /\ req' = [req EXCEPT ![r] = [NoReq EXCEPT !.at = "plan",
       !.view = [p \in Pr |-> IF p \in open THEN head[p] ELSE 0]]]
  /\ UNCHANGED <<prVars, run, handle, paneVars, nudgeVars, fed, spent>>

\* ListReviewRunsBySession and Plan; the review row is there from now on.
TriggerPlans(r) ==
  LET due == {p \in Pr : req[r].view[p] # 0 /\ NeedsReview(p, req[r].view[p])} IN
  /\ At(r, "plan")
  /\ IF due = {} THEN Returns(r)
     ELSE req' = [req EXCEPT ![r].at = "supersede", ![r].prs = due] /\ UNCHANGED lock
  /\ UNCHANGED <<prVars, run, handle, paneVars, nudgeVars, faultVars, fed, spent>>

\* SupersedeStaleRunningReviewRuns: older heads of the pull request.
Supersede(r) ==
  LET p == First(req[r].prs)
      stale == {i \in RunId : Running(i) /\ run[i].pr = p /\ run[i].sha # req[r].view[p]}
  IN /\ At(r, "supersede")
     /\ run' = [i \in RunId |-> IF i \in stale THEN [run[i] EXCEPT !.status = "failed"] ELSE run[i]]
     /\ Goes(r, "insert")
     /\ UNCHANGED <<prVars, handle, lock, paneVars, nudgeVars, faultVars, fed, spent>>

\* After the last pull request: the pane, when there is something for it.
NextPr(r, rest, made) ==
  IF rest = {} /\ made = {} THEN Returns(r)
  ELSE /\ req' = [req EXCEPT ![r].at = IF rest = {} THEN "alive" ELSE "supersede",
                             ![r].prs = rest, ![r].made = made]
       /\ UNCHANGED lock

\* InsertReviewRun; a duplicate is the pass of somebody else and is reused.
Insert(r) ==
  LET p == First(req[r].prs)
      s == req[r].view[p]
      rest == req[r].prs \ {p}
  IN /\ At(r, "insert")
     /\ IF Duplicate(p, s) THEN NextPr(r, rest, req[r].made) /\ UNCHANGED run
        ELSE \E i \in RunId :
               /\ ~Exists(i) /\ \A j \in RunId : j < i => Exists(j)
               /\ run' = [run EXCEPT ![i] = [pr |-> p, sha |-> s, status |-> "running",
                            batch |-> IF req[r].made = {} THEN i ELSE First(req[r].made),
                            verdict |-> "none"]]
               /\ NextPr(r, rest, req[r].made \cup {i})
     /\ UNCHANGED <<prVars, handle, paneVars, nudgeVars, faultVars, fed, spent>>

\* An error in the loop returns as it is: the passes made so far stay under way.
InsertFails(r) ==
  /\ req[r].at \in {"supersede", "insert"}
  /\ Fault
  /\ Returns(r)
  /\ UNCHANGED <<prVars, run, handle, paneVars, nudgeVars, fed, spent>>

\* The pane of the review row, if it is alive, is told; else one is launched.
Probe(r) ==
  /\ At(r, "alive")
  /\ Goes(r, IF handle /\ pane THEN "notify" ELSE "spawn")
  /\ UNCHANGED <<prVars, run, handle, lock, paneVars, nudgeVars, faultVars, fed, spent>>

Asks(r) ==
  /\ queue' = queue \cup req[r].made
  /\ handed' = handed \cup req[r].made
  /\ Goes(r, "record")

\* tmux refuses a second session of the name.
Spawn(r) ==
  /\ At(r, "spawn")
  /\ IF pane THEN Goes(r, "fail") /\ UNCHANGED paneVars
     ELSE pane' = TRUE /\ Asks(r)
  /\ UNCHANGED <<prVars, run, handle, lock, nudgeVars, faultVars, fed, spent>>

Notify(r) ==
  /\ At(r, "notify")
  /\ IF pane THEN Asks(r) /\ UNCHANGED pane
     ELSE Goes(r, "fail") /\ UNCHANGED paneVars
  /\ UNCHANGED <<prVars, run, handle, lock, nudgeVars, faultVars, fed, spent>>

\* A failing probe, launch or message, perhaps after the text reached the pane.
PaneFails(r) ==
  /\ req[r].at \in {"alive", "spawn", "notify"}
  /\ Fault
  /\ Goes(r, "fail")
  /\ \/ UNCHANGED queue
     \/ At(r, "notify") /\ pane /\ queue' = queue \cup req[r].made
  /\ UNCHANGED <<prVars, run, handle, lock, pane, handed, nudgeVars, fed, spent>>

\* upsertReview with the handle.
Record(r) ==
  /\ At(r, "record")
  /\ handle' = TRUE
  /\ Returns(r)
  /\ UNCHANGED <<prVars, run, paneVars, nudgeVars, faultVars, fed, spent>>

\* Mutant: the last of the created passes is forgotten.
FailRunShort(r) ==
  LET i == First(req[r].made) IN
  /\ At(r, "fail")
  /\ IF req[r].made = {} \/ req[r].made = {i} THEN Returns(r) /\ UNCHANGED run
     ELSE /\ run' = IF Running(i) THEN [run EXCEPT ![i].status = "failed"] ELSE run
          /\ req' = [req EXCEPT ![r].made = @ \ {i}]
          /\ UNCHANGED lock
  /\ UNCHANGED <<prVars, handle, paneVars, nudgeVars, faultVars, fed, spent>>

\* failRuns, one row at a time; a row that ended meanwhile keeps its result.
FailRun(r) ==
  LET i == First(req[r].made) IN
  /\ At(r, "fail")
  /\ IF req[r].made = {} THEN Returns(r) /\ UNCHANGED run
     ELSE /\ run' = IF Running(i) THEN [run EXCEPT ![i].status = "failed"] ELSE run
          /\ req' = [req EXCEPT ![r].made = @ \ {i}]
          /\ UNCHANGED lock
  /\ UNCHANGED <<prVars, handle, paneVars, nudgeVars, faultVars, fed, spent>>

\* The handle or a failed row is not stored.
WriteFails(r) ==
  /\ req[r].at \in {"plan", "record", "fail"}
  /\ Fault
  /\ Returns(r)
  /\ UNCHANGED <<prVars, run, handle, paneVars, nudgeVars, fed, spent>>

-----------------------------------------------------------------------------
(* Cancel takes no lock.                                                   *)

CancelStarts(r) ==
  /\ At(r, "idle") /\ handle
  /\ Begins
  /\ Goes(r, "interrupt")
  /\ UNCHANGED <<prVars, run, handle, lock, paneVars, nudgeVars, fed, spent>>

\* The reviewer drops what it was doing; a dead pane is no error.
Interrupt(r) ==
  /\ At(r, "interrupt")
  /\ queue' = {}
  /\ Goes(r, "mark")
  /\ UNCHANGED <<prVars, run, handle, lock, pane, handed, nudgeVars, faultVars, fed, spent>>

\* CancelRunningReviewRunsBySession
MarkCancelled(r) ==
  /\ At(r, "mark")
  /\ run' = [i \in RunId |-> IF Running(i) THEN [run[i] EXCEPT !.status = "cancelled"] ELSE run[i]]
  /\ Returns(r)
  /\ UNCHANGED <<prVars, handle, paneVars, nudgeVars, faultVars, fed, spent>>

CancelFails(r) ==
  /\ req[r].at \in {"interrupt", "mark"}
  /\ Fault
  /\ Returns(r)
  /\ UNCHANGED <<prVars, run, handle, paneVars, nudgeVars, fed, spent>>

-----------------------------------------------------------------------------
(* Submit: every result recorded, then the feedback of this submission     *)
(* delivered.  The reviewer submits passes it was asked for, all or some,  *)
(* in their order, and again when it likes.                                *)

SubmitStarts(r) ==
  /\ At(r, "idle") /\ pane
  /\ Begins
  /\ \E some \in (SUBSET queue) \ {{}}, o \in Opinions :
       req' = [req EXCEPT ![r] = [NoReq EXCEPT !.at = "read", !.todo = some, !.says = o]]
  /\ UNCHANGED <<prVars, run, handle, lock, paneVars, nudgeVars, fed, spent>>

\* submitOne reads the row: recorded before and alike, it is taken again.
ReadRun(r) ==
  LET i == First(req[r].todo)
      again == [req EXCEPT ![r].todo = @ \ {i}]
  IN /\ At(r, "read")
     /\ IF req[r].todo = {} THEN Goes(r, "heads") /\ UNCHANGED lock
        ELSE IF Running(i) THEN Goes(r, "update") /\ UNCHANGED lock
        ELSE IF run[i].status = "complete" /\ run[i].verdict = req[r].says[i]
          THEN req' = [again EXCEPT ![r].made = @ \cup {i}] /\ UNCHANGED lock
        ELSE IF run[i].status = "delivered" THEN req' = again /\ UNCHANGED lock
        ELSE Returns(r)
     /\ UNCHANGED <<prVars, run, handle, paneVars, nudgeVars, faultVars, fed, spent>>

\* Mutant: the row is written whatever became of it since it was read.
UpdateBlind(r) ==
  LET i == First(req[r].todo) IN
  /\ At(r, "update")
  /\ run' = [run EXCEPT ![i].status = "complete", ![i].verdict = req[r].says[i]]
  /\ req' = [req EXCEPT ![r].at = "read", ![r].todo = @ \ {i}, ![r].made = @ \cup {i}]
  /\ UNCHANGED <<prVars, handle, lock, paneVars, nudgeVars, faultVars, fed, spent>>

\* UpdateReviewRunResult writes only a row still under way.
Update(r) ==
  LET i == First(req[r].todo) IN
  /\ At(r, "update")
  /\ IF Running(i)
     THEN /\ run' = [run EXCEPT ![i].status = "complete", ![i].verdict = req[r].says[i]]
          /\ req' = [req EXCEPT ![r].at = "read", ![r].todo = @ \ {i}, ![r].made = @ \cup {i}]
          /\ UNCHANGED lock
     ELSE Returns(r) /\ UNCHANGED run
  /\ UNCHANGED <<prVars, handle, paneVars, nudgeVars, faultVars, fed, spent>>

\* Mutant: a head that moved holds back the whole submission.
ReadHeadsOfAll(r) ==
  LET due == {i \in req[r].made : req[r].says[i] = "changes_requested"} IN
  /\ At(r, "heads")
  /\ IF due = {} \/ \E i \in due : head[run[i].pr] # run[i].sha THEN Returns(r)
     ELSE req' = [req EXCEPT ![r].at = "apply", ![r].todo = due, ![r].made = {}] /\ UNCHANGED lock
  /\ UNCHANGED <<prVars, run, handle, paneVars, nudgeVars, faultVars, fed, spent>>

\* deliverableRuns: requested changes of heads that are still current.
ReadHeads(r) ==
  LET due == {i \in req[r].made :
                req[r].says[i] = "changes_requested" /\ head[run[i].pr] = run[i].sha}
  IN /\ At(r, "heads")
     /\ IF due = {} THEN Returns(r)
        ELSE req' = [req EXCEPT ![r].at = "apply", ![r].todo = due, ![r].made = {}] /\ UNCHANGED lock
     /\ UNCHANGED <<prVars, run, handle, paneVars, nudgeVars, faultVars, fed, spent>>

\* ApplyReviewBatch looks at the session first.
Apply(r) ==
  /\ At(r, "apply")
  /\ IF session = "workable" THEN Goes(r, "send") /\ UNCHANGED lock ELSE Returns(r)
  /\ UNCHANGED <<prVars, run, handle, paneVars, nudgeVars, faultVars, fed, spent>>

\* The key of a submission: its least pull request and the batch of its first pass.
Anchor(some) == First({run[i].pr : i \in some})
Batch(some) == run[First(some)].batch

\* The pipe has told the worker exactly this, or it has used up its attempts.
SendAccounted(r) ==
  LET some == req[r].todo
      p == Anchor(some)  b == Batch(some)
  IN /\ At(r, "send")
     /\ Nudge!SkipAccounted(p, b, some)
     /\ spent' = IF Nudge!Loaded(p)[b].sig = some THEN spent ELSE spent \cup some
     /\ Goes(r, "deliver")
     /\ UNCHANGED <<prVars, run, handle, lock, paneVars, faultVars, fed>>

\* The guard refuses: nothing reached the worker and nothing is marked.
SendSuppressed(r) ==
  /\ At(r, "send")
  /\ Nudge!Suppressed(Anchor(req[r].todo), Batch(req[r].todo), req[r].todo)
  /\ Returns(r)
  /\ UNCHANGED <<prVars, run, handle, paneVars, faultVars, fed, spent>>

SendPaste(r) ==
  /\ At(r, "send")
  /\ Nudge!Paste(Anchor(req[r].todo), Batch(req[r].todo), req[r].todo)
  /\ fed' = fed \cup req[r].todo
  /\ Goes(r, "persist")
  /\ UNCHANGED <<prVars, run, handle, lock, paneVars, faultVars, spent>>

SendFails(r) ==
  LET some == req[r].todo
      p == Anchor(some)  b == Batch(some)
  IN /\ At(r, "send")
     /\ Fault
     /\ Nudge!NotRead(p, b, some) \/ Nudge!PasteFails(p, b, some)
     /\ fed' = IF told' # told THEN fed \cup some ELSE fed
     /\ Returns(r)
     /\ UNCHANGED <<prVars, run, handle, paneVars, spent>>

SendPersists(r) ==
  /\ At(r, "persist")
  /\ Nudge!Persist
  /\ Goes(r, "deliver")
  /\ UNCHANGED <<prVars, run, handle, lock, paneVars, faultVars, fed, spent>>

SendNotPersisted(r) ==
  /\ At(r, "persist")
  /\ Fault
  /\ Nudge!PersistFails
  /\ Returns(r)
  /\ UNCHANGED <<prVars, run, handle, paneVars, fed, spent>>

\* MarkReviewRunDelivered writes only a complete row.
MarkDelivered(r) ==
  LET i == First(req[r].todo) IN
  /\ At(r, "deliver")
  /\ IF req[r].todo = {} THEN Returns(r) /\ UNCHANGED run
     ELSE /\ run' = IF run[i].status = "complete" THEN [run EXCEPT ![i].status = "delivered"] ELSE run
          /\ req' = [req EXCEPT ![r].todo = @ \ {i}]
          /\ UNCHANGED lock
  /\ UNCHANGED <<prVars, handle, paneVars, nudgeVars, faultVars, fed, spent>>

SubmitFails(r) ==
  /\ req[r].at \in {"read", "update", "heads", "apply", "deliver"}
  /\ Fault
  /\ Returns(r)
  /\ UNCHANGED <<prVars, run, handle, paneVars, nudgeVars, fed, spent>>

-----------------------------------------------------------------------------
(* Environment.                                                            *)

Turn == turns < MaxTurns /\ turns' = turns + 1 /\ UNCHANGED <<starts, faults>>

\* A new commit, by whoever pushes; a merge or a close.
Push(p) ==
  /\ p \in open /\ head[p] + 1 \in Sha
  /\ Turn
  /\ head' = [head EXCEPT ![p] = @ + 1]
  /\ UNCHANGED <<open, engineVars, paneVars, nudgeVars, fed, spent>>

Settle(p) ==
  /\ p \in open
  /\ Turn
  /\ open' = open \ {p}
  /\ UNCHANGED <<head, engineVars, paneVars, nudgeVars, fed, spent>>

\* The worker's session pauses on its user, goes on, ends.
SessionMoves ==
  /\ Turn
  /\ \E to \in {"workable", "paused", "ended"} : to # session /\ Nudge!SessionMoves(to)
  /\ UNCHANGED <<prVars, engineVars, paneVars, fed, spent>>

PaneDies ==
  /\ pane
  /\ Turn
  /\ pane' = FALSE /\ queue' = {}
  /\ UNCHANGED <<prVars, engineVars, handed, nudgeVars, fed, spent>>

DaemonStops ==
  /\ Fault
  /\ req' = [r \in Req |-> NoReq] /\ lock' = {}
  /\ Nudge!ForgetNudges
  /\ UNCHANGED <<prVars, run, handle, paneVars, fed, spent>>

-----------------------------------------------------------------------------

Init ==
  /\ head = [p \in Pr |-> 1] /\ open \in SUBSET Pr
  /\ run = [i \in RunId |-> NoRun] /\ handle = FALSE
  /\ lock = {} /\ req = [r \in Req |-> NoReq]
  /\ pane = FALSE /\ queue = {} /\ handed = {}
  /\ Nudge!NudgeInit
  /\ starts = 0 /\ turns = 0 /\ faults = 0
  /\ fed = {} /\ spent = {}

Trigger(r) ==
  \/ TriggerPlans(r) \/ Supersede(r) \/ Insert(r) \/ Probe(r) \/ Spawn(r) \/ Notify(r)
  \/ Record(r) \/ FailRun(r)
Cancel(r) == Interrupt(r) \/ MarkCancelled(r)
Submit(r) ==
  \/ ReadRun(r) \/ Update(r) \/ ReadHeads(r) \/ Apply(r) \/ SendAccounted(r)
  \/ SendSuppressed(r) \/ SendPaste(r) \/ SendPersists(r) \/ MarkDelivered(r)
Starts(r) == TriggerStarts(r) \/ CancelStarts(r) \/ SubmitStarts(r)
Fails(r) ==
  \/ InsertFails(r) \/ PaneFails(r) \/ WriteFails(r) \/ CancelFails(r)
  \/ SendFails(r) \/ SendNotPersisted(r) \/ SubmitFails(r)

Next ==
  \/ \E r \in Req : Starts(r) \/ Trigger(r) \/ Cancel(r) \/ Submit(r) \/ Fails(r)
  \/ \E p \in Pr : Push(p) \/ Settle(p)
  \/ SessionMoves
  \/ PaneDies
  \/ DaemonStops

Spec == Init /\ [][Next]_vars

\* A request that was begun goes on: its calls have timeouts.
FairSpec == Spec /\ \A r \in Req : WF_vars(Trigger(r)) /\ WF_vars(Cancel(r)) /\ WF_vars(Submit(r))

-----------------------------------------------------------------------------
(* Properties.                                                             *)

EngineTypeOK ==
  /\ head \in [Pr -> Sha] /\ open \in SUBSET Pr
  /\ run \in [RunId -> Run] /\ handle \in BOOLEAN
  /\ lock \in SUBSET Req
  /\ req \in [Req -> Request]
  /\ pane \in BOOLEAN /\ queue \in SUBSET RunId /\ handed \in SUBSET RunId
  /\ starts \in 0..MaxStarts /\ turns \in 0..MaxTurns /\ faults \in 0..MaxFaults
  /\ fed \in SUBSET RunId /\ spent \in SUBSET RunId

TypeOK == EngineTypeOK /\ Nudge!NudgeTypeOK

\* The rows are a ledger: one pass under way for a pull request, a pass ends
\* once and for good, and only what the pipe accounted for is marked delivered.
Ledger == INSTANCE ReviewLedger WITH answered <- fed \cup spent
KeepsLedger == Ledger!LedgerSpec

\* Two triggers never have two reviewers at one pull request, be it for one
\* head or for two (lockWorker, SupersedeStaleRunningReviewRuns).
OneReviewPerPR == Ledger!OnePassPerPR

\* Without failing calls and restarts no pass is under way that nobody works
\* on: the trigger that made it is still at it, or a reviewer was asked for it.
RunningIsHanded ==
  faults = 0 =>
    \A i \in RunId : Running(i) =>
      i \in handed \/ \E r \in Req : req[r].at \in TriggerPlaces /\ i \in req[r].made

\* The worker is not told the same batch twice in a row, whatever restarts and
\* failing calls lie between: a repeat needs a paste whose record was lost.
FeedbackNotRepeated == Nudge!NudgeNotRepeated

Wanted(i) == run[i].status = "complete" /\ run[i].verdict = "changes_requested"
Current(i) == Exists(i) /\ head[run[i].pr] = run[i].sha
Undisturbed ==
  /\ faults = 0 /\ session = "workable"
  /\ \A i \in RunId : run[i].status \notin {"failed", "cancelled"}
OneSubmission ==
  \A r, q \in Req : req[r].at \in SubmitPlaces /\ req[q].at \in SubmitPlaces => r = q

Delivers(i) == Wanted(i) ~> (run[i].status = "delivered" \/ ~Current(i))

\* While nothing fails, is cancelled or superseded, the worker can be told all along, and no
\* two submissions overlap, every request for changes to a current head is delivered, whatever
\* else was in its submission.  (The reviewer keeps to its results.)  What the premises leave
\* out the code does not do: see SuppressedRefires and FeedbackUnblocked.
FeedbackReaches == [](Undisturbed /\ OneSubmission) => \A i \in RunId : Delivers(i)

\* What SubmitMany says of its delivery, submissions that overlap included: "a missing/stuck
\* result for another PR in the same trigger cannot block feedback" (service/review/review.go:121-123).
FeedbackUnblocked == []Undisturbed => \A i \in RunId : Delivers(i)

\* What reactions.go says of a suppressed delivery: it is sent again once the
\* session is workable again.
SuppressedRefires ==
  [](faults = 0) => \A i \in RunId :
    Wanted(i) /\ session = "workable"
      ~> (run[i].status = "delivered" \/ ~Current(i) \/ session # "workable")

-----------------------------------------------------------------------------
(* The strengthenings.                                                     *)

\* A row has its pull request, its head and its batch.
RowSound ==
  \A i \in RunId : Exists(i) => run[i].pr \in Pr /\ run[i].sha \in Sha /\ run[i].batch \in RunId

\* A loop that takes the first of what is left has something left.
PlaceSound ==
  \A r \in Req :
    /\ req[r].at \in {"supersede", "insert"} =>
         req[r].prs # {} /\ \A p \in req[r].prs : req[r].view[p] # 0
    /\ req[r].at \in {"update", "apply", "send", "persist"} => req[r].todo # {}

\* A trigger holds the lock, alone; at the insertion no older head is under way.
LockSound ==
  /\ \A r \in Req : req[r].at \in TriggerPlaces => lock = {r}
  /\ \A r \in Req : At(r, "insert") =>
       \A i \in RunId : Running(i) /\ run[i].pr = First(req[r].prs)
                          => run[i].sha = req[r].view[run[i].pr]

\* What a submission has in hand was recorded with its result.
SubmitSound ==
  \A r \in Req :
    /\ req[r].at \in SubmitPlaces => \A i \in req[r].made :
         run[i].status \in {"complete", "delivered"} /\ run[i].verdict = req[r].says[i]
    /\ req[r].at \in {"apply", "send", "persist", "deliver"} => \A i \in req[r].todo :
         run[i].status \in {"complete", "delivered"} /\ run[i].verdict = "changes_requested"

\* What the pipe has on record was typed, and what is about to be marked was
\* accounted for.
FedSound ==
  /\ \A p \in Pr, b \in RunId : record[p][b].sig \cup saved[p][b].sig \subseteq fed
  /\ \A r \in Req :
       /\ At(r, "persist") => req[r].todo \subseteq fed
       /\ At(r, "deliver") => req[r].todo \subseteq fed \cup spent

\* A trigger that goes has not left a pass to nobody: it begins with none, and
\* the passes it records the pane for were asked for.
HandSound ==
  faults = 0 => \A r \in Req :
    /\ At(r, "plan") => req[r].made = {}
    /\ At(r, "record") => req[r].made \subseteq handed
=============================================================================
