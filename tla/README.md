# Agent Orchestrator: TLA+ models and proofs

The verification project for the daemon of Agent Orchestrator (`src/backend`): TLA+ models of
the parts whose correctness depends on interleaving, failure and restart, TLC configurations
that check them on small instances, and TLAPS proofs of the main invariants for every value of
the constants. `PROJECT.json` lists components, runs, mutants, the source lines every
definition stands for, the hazards of the code and the theorems.

Paths below are relative to `src/backend/internal/` unless they start with `src/`.

## 1. The system

A Go daemon runs coding agents in tmux panes, one git worktree each, and keeps their rows in
SQLite. The components, their state, how they interact, and what makes each correct:

| Component | State | Operations | Hard because | Correct when |
|---|---|---|---|---|
| Lifecycle manager (`lifecycle/manager.go`, `runtime.go`) | session row (durable); tool-flight map per session (memory) | `ApplyActivitySignal`, `ApplyRuntimeObservation`, `MarkSpawned`, `MarkTerminated` | signals are late, reordered, lost; memory dies with the daemon; notification after the unlock | a dialog on screen stays blocked; no leaked flight entry |
| Reaper (`observe/reaper`) | one cycle | `Tick`, `probeOne` | acts on a snapshot and an older clock reading | ends only launches whose pane is gone; gets to each of them |
| Agent hooks (`cli/hooks.go`, `adapters/agent/*`) | none | one process per hook, posts to the daemon | fire and forget | the event says what it means |
| Session manager (`session_manager/manager.go`) | session row, restore marker (`session_worktrees`) | `Spawn`, `Kill`, `Restore`, `RetireForReplacement`, `Cleanup`, `Reconcile`, `RestoreAll`, `Send` | several calls per operation, no lock, each may fail, the daemon may stop between any two | no work lost; undisturbed sessions come back; killed ones do not |
| git worktree adapter (`adapters/workspace/gitworktree`) | worktree, preserve ref, branch | `StashUncommitted`, `ApplyPreserved`, `Destroy`, `ForceDestroy`, `Restore` | partial application, one ref per session | capture before destroy |
| tmux runtime (`adapters/runtime/tmux`) | panes; they outlive the daemon | `Create`, `Destroy`, `IsAlive`, send keys | the keep-alive shell outlives the agent | a probe tells a dead launch from a live one |
| Session guard (`sessionguard`) | none | `Deliver`, `Nudge` | check, then type | nothing is typed into a dialog |
| Lifecycle reactions (`lifecycle/reactions.go`) | `seen` and `attempts` per nudge key, persisted per pull request | `ApplyPRObservation`, `ApplyReviewResult`, `ApplyTrackerFacts` | send, then record, then persist | each fact nudges once; a session ends when its pull requests are done |
| SCM observer (`observe/scm`) | acknowledged hashes, stored pull requests, HTTP caches | `Poll` | persist, react, acknowledge, each may fail | every stored fact is reacted to |
| Review engine (`review`, `service/review`) | review passes, the reviewer's handle; a lock per worker | `Trigger`, `Cancel`, `Submit`, delivery of feedback | a lock that only triggers take; failing calls between rows and pane | one pass under way per pull request; a pass ends once; feedback is typed once |
| Change log (`cdc`, `httpd/events.go`, triggers) | `change_log`, cursor, live buffers | writes, `Poll`, `Publish`, replay, live, reconnection | numbers given before the commit; slow streams; replay, then live | a client sees the log in order, without gaps |
| Terminal streaming (`terminal`) | attachment loop; per pane the viewers, one grid | open, join, resize, close, exit, clean-up | two goroutines per attachment, callbacks after the unlock | input in order; one grid for all viewers; nothing left open |
| Spawn (`session_manager`, `service/session`) | rows, worktrees, panes; a lock per project | `Spawn`, `SpawnOrchestrator`, rollback, `Kill`, `Cleanup` | a chain of calls, each may fail, and so may its rollback; the context may be cut | what is left behind is on record; one orchestrator; nobody loses a worktree in use |
| Send and guard (`session_manager`, `sessionguard`, tmux) | none but the pane's input line | `Send` with confirmation, `Nudge` | checks the row, then types; several writers | a message is submitted, and once; one left in the input line has a reason |
| Daemon process (`daemon`, `daemon/supervisor`, `runfile`, `cli/stop.go`, the app's `main.ts`) | run file, port, socket, watchdog | start, stale check, watchdog, drain, `ao stop`, the app's attach, replace, spawn, quit | several processes, check then act on files, PIDs that are reused | a start ends with a daemon that serves; a daemon the app left stops; one whose app lives does not |
| Tracker intake (`observe/trackerintake`) | none but the rows and a backoff | `Poll` | reads the rows, asks the tracker, spawns, each may fail, while users kill and clean up | an issue gets one session |
| Services, HTTP, LAN bridge, CLI, frontend | read models | requests | | |

Interaction: hook processes post to the HTTP controllers, which call the lifecycle manager; the
reaper reports probe results to it; the session manager calls it at every launch and end, and
calls the runtime, the workspace adapter and the store in between; the SCM observer and the review
service call the lifecycle reactions, which type into panes through the guard; database triggers
feed the change log, which feeds the clients. Every launch goes through `Spawn` or `Restore`,
those of the tracker intake too, every message of a user through `Send`; the terminal shows the
panes that they create. The app starts the daemon, links to its supervisor socket and so keeps it
alive.

## 2. Modules

| Module | Content |
|---|---|
| `SessionLifecycle` | The reducer, the reaper, and as environment the agent, its pane, its hooks, the clock, daemon restarts |
| `MCSessionLifecycle` | Its constants for TLC: two same-name tools and a third |
| `SaveRestore` | Boot's save and restore passes, Kill, Restore, Retire, Cleanup, over the worktree adapter |
| `SendOnce` | The nudge pipe: `sendOnce`, its record in memory and in the row, the guard, restarts |
| `SendOnceProofs` | Its theorems |
| `ScmObserver` | Extends `SendOnce`: the observer's poll, `ApplyPRObservation`, the provider |
| `MCScmObserver` | Its constants for TLC: a CI that passes, fails and fails again, one review, a stack of two |
| `ScmObserverProofs` | Its theorems, that it implements `SendOnce` among them |
| `ReviewLedger` | Abstract: passes are opened, end once, and are delivered when their feedback was answered for |
| `ReviewEngine` | `Trigger`, `Cancel`, `Submit` and the delivery of feedback, with an instance of `SendOnce` for the worker's pane |
| `MCReviewEngine` | Its constants for TLC: the opinions the reviewer may have |
| `ReviewEngineProofs` | Its theorems, that it implements `ReviewLedger` among them |
| `ChangeFeed` | Abstract: changes are appended, clients receive them in order and without gaps |
| `CdcPipeline` | Transactions, poller, fan-out, replay, live buffer, reconnection |
| `CdcProofs` | Its theorems, that it implements `ChangeFeed` among them |
| `TerminalAttachment` | One client's hold on a pane: the attach loop beside the connection's reader |
| `TerminalMux` | One pane's viewers: opens, joins, resizes, closes, exits, the common grid |
| `MCTerminalMux` | Its symmetry for TLC |
| `TerminalProofs` | The theorems of `TerminalMux` and `TerminalAttachment` |
| `SessionSpawn` | `Spawn` with its rollbacks, `SpawnOrchestrator`, and `Kill` and `Cleanup` beside them |
| `TrackerIntake` | Extends `SessionSpawn`: the intake's poll and the spawns it starts |
| `MCTrackerIntake` | Its symmetry for TLC |
| `IntakeProofs` | The theorems of `SessionSpawn` and `TrackerIntake` |
| `DaemonProcess` | Starts, run file, port, supervisor, watchdog, drain, `ao stop`, the app |
| `DaemonProofs` | The theorems of `SaveRestore` and `DaemonProcess` |
| `PaneSend` | `Send` with its confirmation and `Nudge`, typing into one pane |
| `ActivityProofs` | The theorems of `SessionLifecycle` and `PaneSend` |

How they fit: `ScmObserver` extends `SendOnce` and `ReviewEngine` instantiates it, since both type
through `sendOnce`; `PaneSend` is what lies below one such paste, down to the Enter. A module
whose theorems share one proof module with another's prefixes its `Init`, `Next` and `Spec`
(`DaemonSpec`, `PaneSpec`, `AttachmentSpec`...). `SessionSpawn` covers a session up to its launch,
`SessionLifecycle` its life, `SaveRestore` its way through an end of the daemon, `DaemonProcess`
that end. `TerminalMux` opens and closes the attachments whose inside is `TerminalAttachment`.

### SessionLifecycle

Every method of the manager holds one mutex, so a method is one action: `ApplyActivitySignal`
with a disjunct per way out (terminated row, not written, written), `MarkSpawned`,
`MarkTerminated`, `ApplyRuntimeObservation`. `TrackTool`, `BlockedCandidate`, `Suppressed` and
`NextFlight` are `applyToolPrecedenceLocked` as functions of the flight entry, the row's state
and the signal. `EmitNotification` is a separate action since the call follows the unlock. The
reaper is a small program with a program counter (`ReaperStart` reads the clock, `ReaperList`
takes the snapshot, `ReaperProbe` asks tmux, `ApplyRuntimeObservation` reports). A hook post in
flight is a member of `wire[s]`: delivery in any order, `LoseSignal` when posts are unreliable.
A pane is `none`, `agent` or `shell`, the last being the keep-alive shell of
`buildLaunchCommand`. `RestartDaemon` empties exactly the memory.

`row.lastAt` and `tickAt` are clock ticks. `ping` is the notification of the current pause: `due`
between the row write and the call, then `sent`, or `lost` when `Notify` fails, which is only
logged, or the daemon ends in between. No property promises it: an escalation of the pause is then
not announced either (`EscalationPinged` in the findings). `heard` is a history variable:
`tracked` when the last named permission request the manager processed was the one of the dialog
on screen and its tool was in flight then.

Assumptions about the environment, all from how the hooks are used: a tool-use id is never
used twice; one dialog is on screen per session; a tool behind a dialog has sent no post; in
runs with `Reliable` a tool's pre-tool-use hook has reported before its dialog opens or it ends
(hooks run synchronously before the tool).

### SaveRestore

One session of a single-repository project: the passes treat sessions one after the other and
share no state between them. Every call is an action, boot is a program counter (`boot`), each
request another (`req[r]`), so the daemon may stop between any two calls (`DaemonStops` drops the
counters and keeps what is stored) and requests interleave with each other, with the agent's edits
and, when `LanArmed`, with boot. Two reads are simpler than the code's: `CleanupRuntime` and
`RestoreTree` look at `IsTerminated` in the step of the call that depends on it. `work` is the
uncommitted work as a set of pieces, `ref` what the preserve ref holds, `moved` whether a
cherry-pick of it may conflict. `killed`, `owed` and `due` are history: what the last Kill told
the user, and what the boot owes a session that was undisturbed when the daemon went down.

`SessionEnds` is the joint between the modules: it stands for every call of
`lifecycle.MarkTerminated` that `SessionLifecycle` models in detail.

The run `save` has `LanArmed` FALSE, so requests that arrive during boot are not covered by it;
with them `BootDestroysCaptured` does not hold (`lan_boot.cfg`).

`SaveAndTeardownAll` is not wired to shutdown at this commit (`daemon/daemon.go:221-225`), so
only its per-session part, which boot calls, is modelled.

### SendOnce

What any caller may do with the nudge pipe of one session: one action per way `sendOnce` goes
(`SkipAccounted`, `Suppressed` by the guard, `NotRead`, `PasteFails`, `Paste`, then `Persist` or
`PersistFails`). The call holds the reaction mutex from the lookup to the write, so only the
end of the daemon comes between a paste and its record: `writing` is that window.
`loadPRSignaturesLocked` runs inside the first call for a pull request, so it is part of each
of these actions (`Loaded`, `Load`). `told` and `doubt` are history: what the pane was last
given, and where the record of it may be missing. The attempts of a kind without a maximum are
not counted, since nothing reads them.

### ScmObserver

`Poll` is one goroutine, and a program counter (`step`) takes it through the list guard,
discovery, the commit guards, the batch, the reviews and the dispatch of each observation:
facts stored with the hashes held back (`StoreFacts`), the reaction (`React`, `EndSession`,
`Nudge`...), the hashes (`Acknowledge`), and at the end the validators (`PollEnd`). The
provider, the session's moods and the end of the daemon come between any two steps; the calls
named in `Failing` may fail. A semantic hash is the value it is a hash of, and an ETag the
value it validates: the list guard's covers the one pull request it asks for, the open one
that was updated last (`adapters/scm/github/observer_provider.go:50-54`). `owed` is history:
the failing run, the review or the conflict that the provider shows and the agent was not told
of yet.

A review is a state of the pull request's review threads and `Decision` what it decides: those in
`Comments` are open comments and leave the decision as it is, the others request changes. Only a
changed decision has the reviews fetched again (`NeedsReviewRefresh`), so comments opened after
the first fetch may never be read (`CommentsReachAgent` in the findings).

One session and one repository: sessions share no pull request and no row, and the caches are
per repository. Left out: attribution of branches to sessions, credentials, batches of more
than one chunk, partial review windows, check logs, notifications. Whether the review interval
has passed is a set, `reviewRecent`, whose members leave it at any time (`ReviewDue`). CI runs
come in one order without new commits, so the head commit, the key of the commit guard, stays.

`ScmObserver` and `SessionLifecycle` meet in `EndSession`, which stands for `MarkTerminated`,
and in `MoodTurns`, which stands for the activity signals and the user's Kill and Restore.

### ReviewEngine and ReviewLedger

One worker session with its pull requests. A request is a program counter (`req[r].at`) with
what it has read; `lock` is the worker's mutex, which `TriggerStarts` to the end of a trigger
hold and which `Cancel` and `Submit` do not take. A trigger plans the passes from the stored
heads, supersedes and inserts per pull request, then asks the reviewer's pane, a new one
(`Spawn`) or the one that is there (`Notify`). Every call may fail, and what the code does then
is an action of its own (`InsertFails`, `PaneFails`, `FailRun`, `WriteFails`). `Submit` writes
the result, reads the current heads, applies the result to the worker through the nudge pipe
(the batch is the kind, its set of passes the signature) and marks the passes delivered.

`handed`, `fed` and `spent` are history: the passes a reviewer was asked for, those whose
feedback was typed, and those that `sendOnce` accounts for without typing once its attempts
are used up.

Notes on the code that the model follows: an error in the loop of inserts returns and leaves
the rows inserted before it running, with no reviewer (`review/review.go:230-253`); a failed
write of the handle after `Spawn` leaves a pane without a record (`review.go:287-292`);
delivery is per submission although the field is described per batch.

`ReviewLedger` keeps only the passes and which of them were answered for. `KeepsLedger` is the
refinement: the identity on `run`, and `answered <- fed \cup spent`.

### CdcPipeline and ChangeFeed

A transaction takes numbers for its rows as it writes them and shows them when it commits; the
store's write lock (`Alone`) keeps two from being open at a time, which is what makes numbers
appear in order. `PollRead` and `Publish` are the poller, `Connect`, `ReplayRead`,
`ReplayWrite`, `ReplayDone` and `LiveWrite` a stream, `Breaks` a client's connection and
`DaemonRestarts` the end of the process. A full live buffer cancels its stream; Go's `select`
then chooses at random between the end and the rows left in the buffer, and `MaxLuck` bounds
how often it picks the rows: it is at most the buffer's size, so that a stream which takes all
1024 rows by chance is left out. Rows pass through poller and buffers in the order of their
numbers, so a batch and a buffer are sets. `DeleteSession` removes the rows of a session that
never ran.

`ChangeFeed` is the log and what each client has; a client's step takes the next change still
in the log. `ImplementsFeed` maps its `top` to the last committed number. The interface also
refetches every 15 seconds, which is not part of the model: it would hide a gap.

### TerminalAttachment

The loop (`pc`) probes, attaches, publishes the stream, replays the size, flushes the input
typed before, reads, and attaches again or ends. The reader of the connection types (`Type`
under the lock, `Write` to the stream after it), resizes and closes. `a.mu` makes a step of
either atomic; what a step read under the lock and applies after it is kept in a variable of
its own (`asked`, `flush`, `direct`). Streams drop, panes die and return. The output pump is
left out. `Attached` requires a pane that is alive: an attach to one that died after its probe, whose
stream ends at once, is not modelled.

A loop that is closed after it has found the pane dead, or during the flush of early input, still
tells its client of the exit; `EndsClean` accepts that, `CloseIsSilent` says where it cannot
happen, and `NeverToldAfterClose` (findings) is what the comment says.

### TerminalMux

One pane and its connections. Each reader handles one frame at a time (`job`); an attachment
is a goroutine that may give up at any time (`GivesUp`) and then runs `onExit`, which takes
the connection's lock and then the manager's (`Forget`, `ExitLeaves`, `ExitTells`). `Reconcile`
is `reconcileLocked`: the largest grid among the eligible viewers, told to all of them. Sizes are
numbers ordered by area; two shapes of one area, the session channel and the notification hub
are left out.

### SessionSpawn

One project. A session is its number, which also names its pane and worktree; a deleted row gives
its number back. Orchestrators share one worktree, `Canonical`. A request runs a handler once:
what a teardown or rollback has still to do is a sequence of calls (`job[r].todo`), and a failure
replaces it by the rollback of that place (`UndoTree`, `UndoLaunch`, ...). A teardown of several
sessions (Cleanup's list, the orchestrators that `replace` retires) keeps the sessions that are
left as a set (`job[r].left`), takes up the one with the smallest number (`TakesUp`, `Retire`,
`Reclaim`), and has the calls of that one in `todo`. Any call of a rollback or of a cleanup may
fail, or be refused because the worktree is dirty: the code ignores the error and goes on with the
next one (`CallFails`), and parks a row that it cannot delete. A kill and a retirement return at a
call that fails (`CutOff`), and a kill leaves a session with a dirty worktree as it is and says so
(`KillRefused`). A request whose context is cut, and a crash, are a spawn all of whose calls to
come fail. `missed` is history: the runtimes, worktrees and rows that a rollback's failing call
was to get and did not, until another call gets them. `tmux.Create` cleans up after itself with a
context of its own, so it leaves no pane when it fails. `service.go:293` calls the look and the
spawn of an orchestrator "not atomic", but both stand under the project's lock (`LockFree`).

`SaveRestore` has `Restore` and boot; the endpoint that rolls a spawn back later is left out.

### TrackerIntake

The requests of `SessionSpawn` and one more actor: `poll` is the pass of the observer over the
issues that no row named when it read the rows (`PollStarts`), taken in any order. For each it
either passes over the issue (`PassesOver`) or calls `Spawn`: `TakesIssue` writes the row with
the issue and starts a request of kind `worker`, whose further steps, failures and rollbacks
are those of `SessionSpawn`; `SpawnReturns` goes on when it ended. `issue` is the durable
`issue_id` of a row and goes with it when the row is deleted. Between any two steps users
spawn, kill and clean up. `PollStops` is a list that failed or the end of the daemon.

Which issues the tracker lists is open at each poll, so an issue that a user's own session
names is one of those not listed, and `OneSessionPerIssue` speaks of the sessions that intake
started. Left out: several projects, which share no row; eligibility, the prompt's text and
its limit, the lookup of the provider; the backoff, which only delays a poll that may begin at
any time.

### DaemonProcess

A daemon is the number of its start, which stands for its PID: `HasProcess` is what a signal
to that PID finds, `aliens` the PIDs that another process has now. `Main(d)` is its main
goroutine from the stale check to the removal of the run file; `Watchdog` is the supervisor,
whose two locks (`watchConn`, then `armGrace`) are separate actions; timers have no length.
The app is a program counter from its start to its quit, `ao stop` another. `Crash`, `Wedge`
(a daemon that no longer answers) and headless starts are events. The app is connected
before the daemon knows: `LinkConnects` puts the connection into the socket's `queue`, `Accept`
takes it from there, counts it and stops the timer, under the lock. A timer that runs out in
between ends a daemon the app is connected to (`LinkKeepsAlive` in the findings); `NoFalseAlarm`
speaks of connections that were taken (`Linked`). That the daemon may take a connection before
the app has seen its own "connect" event is left out. A probe of a daemon that
serves times out only when it is wedged; one app runs at a time (Electron's single-instance
lock). The listener and the run file are written in one step (`Publish`); a failed write of
the run file, the Windows pipe, and the readiness and identity checks are left out.

### PaneSend

Any number of calls type into one pane. A call of `Send` reads the row through the guard,
pastes, pauses (a pause that the caller's departure does not cut), presses Enter, and polls
the row until it is active, the deadline passes, or it tries Enter again, through the guard,
at most `MaxAttempts` times. A `Nudge` is the same without confirmation, one at a time under the
reaction lock. The agent, its dialog, its input line (`draft`), the user who types there, and
the hook reports on their way to the row (`reports`) are the environment. How the row takes a
report is `SessionLifecycle`'s; here it takes it as it is. A failed paste may have reached the
pane. `taken`, `lost` and `stray` are history.

Left out: the text put before a Copilot orchestrator's message, texts above 16 KiB, which are
pasted in pieces, and the Windows runtime. The first prompt of a spawn is `Deliver` in
`SessionSpawn`.

## 3. Runs

| Run | Checks | Shows |
|---|---|---|
| `dialog` | `FlightsReleased`, `TrackedDialogHolds` | Lost and late posts, same-name siblings, failing writes, a restart: no tool traffic clears a tracked dialog, no ended session keeps a flight entry |
| `reaper` | `ReaperKillsOnlyDead`, `DeadPaneReaped` | The cycle against kills, relaunches, hooks, failing probes and writes and a restart: only dead launches are ended, and a quiet session without a pane is |
| `save` | `BootDestroysCaptured`, `BootRecovers`, `CompleteKillIsFinal` | Boot interrupted anywhere, failing calls, two requests at a time |
| `scm` | `EndsWithItsWork` | Two stacked pull requests, pauses, failing lists and writes, restarts: a merge ends the session only with its known work |
| `scm_live` | `NudgeNotRepeated`, `AttemptsKept`, `FailureReachesAgent`, `ReviewReachesAgent`, `FirstConflictReachesAgent`, `CleanMergeEndsSession` | One pull request and any two faults: nothing is repeated, no attempts are lost, failing runs reach the agent unless a failed batch is forgotten for a review, requests for changes and the first conflict reach it, a merge ends the session |
| `review` | `RunningIsHanded`, `OneReviewPerPR`, `KeepsLedger`, `FeedbackReaches` | Two requests of any kind on two pull requests with a push, a fault and a restart anywhere: the engine implements the ledger, no pass waits for nobody unless a call fails, feedback arrives as long as submissions do not overlap |
| `cdc` | `NothingMissed`, `ImplementsFeed`, `ChangeReaches` | Two writers, a deleted session, a full live buffer, a fault or restart anywhere: the stream implements the feed, and every change gets to the client |
| `attach` | `InputKept`, `EndsClean`, `CloseIsSilent`, `Ends`, `DeadPaneEnds` | Typing, resizing, closing, dropping streams and a pane that dies and returns: input stays in order, nothing is left open, the loop ends when it should, and one closed before it gave up tells nobody |
| `terminal` | `ViewersAgree`, `NoGhosts` | Two connections that open, resize, close and drop while attachments give up and the daemon shuts down: one grid for all viewers, held by nobody that is gone |
| `spawn` | `OneSessionPerIssue`, `NothingLost`, `WorkerKeepsTree`, `OneOrchestrator` | Module `MCTrackerIntake`. Three requests, for workers, orchestrators, kills or cleanups, and the intake's polls, each call of which, those of a rollback too, may fail: an issue gets one session, what a spawn leaves is on record or is what a failed call was to get, no worker loses its worktree, one orchestrator runs |
| `daemon` | `StartServes`, `DisconnectNotLost`, `NoFalseAlarm`, `ForsakenStops` | Two starts, two launches of the app and one crash, hang, `ao stop` or headless start: whatever run file a start finds, a daemon serves in the end unless all crash or are stopped, the watchdog loses no disconnect and takes no app for gone whose connection it took, and what an app leaves behind stops |
| `send` | `SubmittedOnce`, `Accounted`, `MessageSubmitted` | A message and a nudge typed into one pane while the agent, the user, faults and departing callers go on: a message is submitted once, a call that ends has left none in the input line but for a reason the code gives up on, and a message in the input line is submitted |

Where the code differs from its own comments and tests, "findings" in `PROJECT.json` says how.
The property that states each comment is defined in its module and is false of the model; the
runs above do not list these properties. To see a trace, run the module with one of these
configurations, or put the property into a copy of the run's configuration:

| Property | Module | Configuration | What the trace shows |
|---|---|---|---|
| `AnnouncedDialogHolds` | `MCSessionLifecycle` | `dialog_restart.cfg` | A restart between a tool's start and its dialog makes a sibling the candidate |
| `EscalationPinged` | `MCSessionLifecycle` | as `dialog` | The ping of a pause is lost, and its escalation is not announced since "the user was already pinged" |
| `KilledStaysDead` | `SaveRestore` | `killed_resurrected.cfg` | A kill that preserved a dirty worktree is undone by the next boot |
| `BootDestroysCaptured` | `SaveRestore` | `lan_boot.cfg` | A phone's Restore during boot puts an agent into a worktree boot is about to remove |
| `ChecksFetchedBeforeETag` | `MCScmObserver` | `etag_lost.cfg` | A failed batch and a review-only refresh commit the ETag of checks that were never fetched |
| `MergeEndsSession` | `MCScmObserver` | `merge_lost.cfg` | A merge whose reaction failed is never delivered again |
| `CommentsReachAgent` | `MCScmObserver` | as `scm_live` | Comments opened after the first fetch that leave the decision as it is are never fetched |
| `ConflictReachesAgent` | `MCScmObserver` | `conflict_again.cfg` | The second conflict of a pull request is not nudged |
| `SuppressedRefires` | `MCReviewEngine` | `review_suppressed.cfg` | Feedback that the guard held back is never sent |
| `FeedbackUnblocked` | `MCReviewEngine` | as `review` | Of two submissions that overlap, one leaves a pass of the other complete and never delivered |
| `IsolatedWorktree` | `MCTrackerIntake` | `isolated.cfg` | A cleanup removes the worktree in which the next orchestrator works |
| `KillStops`, `NoPhantom`, `DeletesNothingBuilt` | `MCTrackerIntake` | as `spawn` | A kill during a spawn is undone by it; a spawn whose rollback calls all fail leaves a row that looks live; one whose launch fails and whose worktree is not removed deletes the row of it all the same |
| `FailedIssueRetried` | `MCTrackerIntake` | as `spawn` | An issue whose spawn failed after its launch counts as seen for good |
| `GridConverges` | `TerminalAttachment` | as `attach` | A resize between the replay's read and its call is overwritten by the older size |
| `NeverToldAfterClose` | `TerminalAttachment` | as `attach` | A client that closes once the pane was found dead, or while early input is flushed, is told of the exit |
| `NotEvicted` | `MCTerminalMux` | as `terminal` | An exit removes the viewer that was opened again meanwhile |
| `HeadlessUnarmed`, `OneDaemon`, `GraceKept`, `LinkKeepsAlive`, `OwnFileRemoved`, `DaemonReplaced`, `AppOwnedStops` | `DaemonProcess` | as `daemon` | Check-then-act between processes, see the findings |
| `ActiveMeansAccepted`, `NudgeNotAtPrompt` | `PaneSend` | as `send` | A busy session confirms a message it never took; a nudge is submitted with the user's draft |

Bounds, and why they are enough:

* `dialog`: one session, since no rule relates two; two tools of one name, the smallest number
  with which a post can be mistaken for another's; `MaxInflight` 2, which two tools never exceed,
  so the reset at the cap does not happen here (the theorem `DialogIsSafe` holds for every cap);
  two posts under way, so that they can pass each other; one restart; the clock stands still, as
  no rule of the dialog reads it.
* `reaper`: a window of one tick and a clock of five values, so that a row can be older than,
  as old as, and younger than the cycle's start, and can leave the window in the middle of a
  cycle; untagged hooks, whose signals move the row through every state without tools; one post
  under way; one restart. Only one session: the reaper's list is handled one by one.
* `save`: two pieces of work (one captured, one not), two requests (a Kill against a Restore),
  any number of daemon stops, every call may fail.
* `scm`: two pull requests, the second stacked on the first, the smallest number with which a
  sibling can hold back or miss a completion; four changes at the provider or of the session's
  mood, enough to open both, merge one and pause; one fault. One CI run and no reviews, which
  no rule of completion reads.
* `scm_live`: one pull request, since the liveness of two is that of one with a longer poll; a
  CI that fails twice, so that a signature replaces another; comments that leave the decision,
  and then a request for changes; three nudges for reviews, of which there are two; three changes
  and two faults of any kind, so that a failure can be followed by a restart. Three properties
  have premises, without which the code keeps no such promise: `FailureReachesAgent` that no
  failed batch is forgotten for a review (`ChecksForgotten`, see `etag_lost`),
  `ReviewReachesAgent`, which is about requests for changes, at most one fault
  (`observer.go:985`), and `CleanMergeEndsSession` none (`merge_lost`). No moods: a nudge
  suppressed while the user is asked is not sent later, which the code does not promise either.
* `review`: two pull requests and two passes, so that a submission can carry two results and a
  pass can supersede another; two requests at a time, three begun; one turn of the world (a push, a
  merge, a mood, the pane's death) and one fault, so that each meets each step. `FeedbackReaches` has
  the premises that nothing fails, is cancelled or makes the worker unable to listen (`Undisturbed`)
  and that no two submissions overlap (`OneSubmission`): `SuppressedRefires` and
  `FeedbackUnblocked` are what is false without them. That feedback is not repeated is
  no property of this run, the pipe is that of `scm_live`; the theorem `SpecNoRepeat` says it.
* `cdc`: three rows of two writers and two sessions; batches of two and pages and buffers of
  one, so that a batch is not the whole log, a page is full and a buffer overflows; one fault.
  One client: streams share nothing but the poller's order.
* `attach`: three sizes with 0 for none, three chunks (early, flushed, direct), one resize, two faults
  with one reattachment allowed, so that the limit is reached.
* `terminal`: two connections, since a grid is shared by at least two; three attachments, so
  that one is opened again while its predecessor exits; two grids; one resize beside the opens.
* `spawn`: three requests, so that a spawn, a kill and a cleanup meet; two numbers, so that one is
  given again while another is held; one issue, since the rule relates two sessions of one issue.
  A poll's spawn is one of the three requests, so it meets any two of the users'. `FewStanding`:
  no step is taken from a state in which failing calls have left more than one runtime or worktree
  standing; the theorems have no such bound. Requests are symmetric, and no property is temporal.
  `"plain"`, an orchestrator without the lock, is left out for time: it takes the steps of a
  worker's spawn, and the theorems include it.
* `daemon`: two starts, the smallest number with a predecessor; two launches of the app; one
  event of those listed, each of which already meets every state of the others.
* `send`: one message and one nudge, the smallest number of writers that can mix; three moves
  of the agent and its user, enough for a turn, a dialog and its answer; three faults, so that as
  many Enters as `MaxAttempts` can be lost.

The configurations of the findings use the smallest instance that shows the trace.

Deadlock checking is on in `dialog`, `reaper`, `save`, `scm` and `scm_live`, whose loops never
end. In the others a bounded number of requests, rows or starts is used up, or the one
attachment ends, and the system rightly stops: their configurations say `CHECK_DEADLOCK FALSE`,
and the liveness properties say what must have happened before.

### Fairness

No fairness is assumed of agents, users, hooks, apps, the provider, the clock or the arrival
of requests, and every fault is bounded: a call that fails for ever gives no liveness. For the code:

* `SessionLifecycle`: weak fairness of each step of the reaper's goroutine, a ticker loop that
  nothing but shutdown stops (`observe/reaper/reaper.go:94-108`), and of the probe of each
  listed session, which returns within the command's timeout; strong fairness of a probe with a
  definite answer and of a verdict that is written, as neither tmux nor the store answers with
  an error for ever.
* `ScmObserver`: weak fairness of the poll, a ticker loop likewise (`observe/observer.go:26-50`)
  whose calls have timeouts, and of the passing of the review interval.
* `ReviewEngine`: weak fairness of the steps of a request that has begun.
* `CdcPipeline`: weak fairness of the poller's steps, a loop on a ticker, of a stream's steps,
  and of the client's reconnection, which the browser's `EventSource` and the interface's own
  timer see to. A stream whose buffer is full may be slow for as long as it likes before that.
* `TerminalAttachment`: weak fairness of the loop and of a write that has begun; of the end of
  a stream whose pane is dead, and of the reader's `Close` once the manager shuts down
  (`Shutdown` cancels the connections).
* `DaemonProcess`: weak fairness of each daemon's main goroutine (`Main(d)`), and of its
  watchdog: the accept loop, the goroutines and the timers (`WatchdogGoes(d)`). Nothing of the
  app, of `ao stop` or of a crash.
* `PaneSend`: weak fairness of each step of a call that has begun.

## 4. Proofs

All for arbitrary sets of sessions, tools, names, edits and requests and arbitrary bounds.

| Theorem | Statement | Argument |
|---|---|---|
| `ActivityProofs!TypeCorrect` | `Spec => []TypeOK` | by action |
| `!FlightsAreReleased` | `Spec => []FlightsReleased` | with `LegacyUntracked`: only a tagged signal creates an entry, and the one tagged signal that terminates a row is a turn boundary, which drops the entry |
| `!ReaperIsSafe` | `Spec => ReaperKillsOnlyDead` | with `VerdictSound`: a "dead" verdict is about a session whose pane is gone, or that was terminated or relaunched since; a relaunch stamps `lastAt` no older than `tickAt`, which counts as recent |
| `!DialogIsSafe` | `Spec => TrackedDialogHolds` | with `CandidateSound`: while a dialog is tracked, the only possible candidate is its own tool, and that tool has sent no post |
| `!PaneInvariant` | `PaneSpec => []PaneInv` | a step of a call replaces its record by one of the right shape (`CallAdvances`); an Enter comes only while tries are left (`TriesSound`) |
| `!MessageSubmittedOnce` | `PaneSpec => []SubmittedOnce` | with the calls' places: what is in the input line or was submitted has its call past the paste, and no step leads a call back before it (`CallsKept`, `DraftKept`) |
| `!NoMessageForgotten` | `PaneSpec => []Accounted` | with `LossCounted`: while its call goes on, a message in the input line has lost as many Enters as were pressed on it; each way a call ends then is one that `Excused` names (`CallFine`), and no other call or user changes the count (`OthersFine`) |
| `DaemonProofs!TypeCorrect` | `Spec => []TypeOK` | by action |
| `!CaptureThenDestroy` | `~LanArmed`: `Spec => BootDestroysCaptured` | with `BootIsAlone` and `CaptureSound`: from the probe to the removal nothing runs that could change the worktree |
| `!KillIsFinal` | `~LanArmed`: `Spec => CompleteKillIsFinal` | with `KillSound`: a completed kill left no marker, and boot relaunches only with one |
| `!BootsRecover` | `Spec => BootRecovers` | with `OwedSound`, a conjunct per step of boot: what is owed is a live session with its work (`OwedLive`), or a saved one whose work is in its worktree (`InTree`) or in a ref that the marker names and that applies cleanly (`InRef`); each holds at the start of the next boot wherever this one is cut |
| `!DaemonInvariant` | `DaemonSpec => [](DaemonTypeOK /\ WatchSound)` | the types, part by part, with `ListenSound` (what has not served yet has no watchdog state) and `LinkSound`: the count is exactly the connections that were taken and not hung up, and those that hung up and were not counted out yet. Every step of the accept loop, the goroutines and the app's end keeps it |
| `!NoDisconnectIsLost` | `DaemonSpec => []DisconnectNotLost` | part of `WatchSound`: the last disconnect leaves an arming goroutine, an arming one leaves a timer, and a timer that is not stopped leaves the request (`WatchMoves`, `WatchHangs`, `WatchEnds`) |
| `!NoAlarmIsFalse` | `DaemonSpec => NoFalseAlarm` | a timer's function looks at the count under the lock, and by `LinkSound` that is not zero once the connection was taken; before, it may be (`LinkKeepsAlive`) |
| `SendOnceProofs!NoRepeat` | `NudgeSpec => NudgeNotRepeated` | with `RecordSound`: without doubt, what the agent was told last is what the loaded record says; a paste needs another signature |
| `!AttemptsGrow` | `NudgeSpec => AttemptsKept` | with `RecordSound`: a record is written only when loaded, and a loaded one has at least the row's attempts |
| `!NudgeTypesHold` | `NudgeSpec => []NudgeTypeOK` | by action |
| `ScmObserverProofs!ScmImplementsNudge` | `ScmSpec => NudgeSpec` | with `FactsTyped` and `PollTyped`: every nudge that a reaction queues has a kind and a signature, so each step is one of `SendOnce` or leaves its variables alone |
| `!ScmNoRepeat`, `!ScmAttemptsGrow` | the two properties, for `ScmSpec` | from the refinement |
| `!ScmTypesHold` | `ScmSpec => []ScmTypeOK` | the same invariant |
| `!EndWaitsForWork` | `ScmSpec => EndsWithItsWork` | with `SettledIsObserved`: a row of the poll's subjects is open until the dispatch stores what was observed of it, and completion reads the rows |
| `ReviewEngineProofs!SpecTypes` | `Spec => []TypeOK` | by action |
| `!SpecNobodyForgotten` | `Spec => []RunningIsHanded` | with `HandSound`: while nothing fails, a trigger begins without passes of its own, and those it records the pane for were handed over; the lock keeps another trigger from superseding them in between |
| `!SpecOneReview` | `Spec => []OneReviewPerPR` | with `LockSound`, `RowSound`, `PlaceSound`: one trigger at a time, and what it is about to insert for a pull request has no pass under way, since it has superseded it |
| `!SpecKeepsLedger` | `Spec => KeepsLedger` | with `SubmitSound`, `FedSound`: a pass that is about to be marked delivered was answered for; each step is one of the ledger or a stutter |
| `!SpecNoRepeat` | `Spec => FeedbackNotRepeated` | every step is one of `SendOnce` or leaves its variables alone, so `NoRepeat` of `SendOnceProofs` applies |
| `CdcProofs!CdcTypesHold` | `Spec => []CdcTypeOK` | with `LiveSound`: an overflow cancels the stream |
| `!CdcImplementsFeed` | `Spec => ImplementsFeed` | with `TxSound` (uncommitted numbers are above the log), `PollSound` (what is not read yet is above the cursor), `PageSound` and `LiveSound` (what a client has not seen is in its page, its buffer, the batch, or still to be read) |
| `!CdcMissesNothing` | `Spec => []NothingMissed` | from the refinement and the feed's own invariant |
| `TerminalProofs!MuxTypesHold` | `Spec => []MuxTypeOK` | by action |
| `!ViewersHaveOneGrid` | `Spec => []ViewersAgree` | inductive with the types: every change of viewers or sizes ends in `Reconcile` |
| `!NoGhostsRemain` | `Spec => []NoGhosts` | with `MuxInv`: whoever is in the shared terminal has an entry, or somebody about to take it out |
| `!AttachmentTypesHold` | `AttachmentSpec => []AttachmentTypeOK` | by action |
| `!InputIsKept` | `AttachmentSpec => []InputKept` | with `OneWay` (one of flush and reader writes at a time), `InOrder`, and `Complete` while the first stream lasts |
| `!LoopEndsClean` | `AttachmentSpec => []EndsClean` | with `LoopSound`: what is open at each place of the loop |
| `IntakeProofs!IntakeInvariant`, `!IntakeTypeOK` | `IntakeSpec => []SpawnTypeOK` and more | with `SpawnSound`, see below |
| `!IntakeOneSessionPerIssue` | `IntakeSpec => []OneSessionPerIssue` | with `IntakeSound`: no row names an issue that the poll has still to take, since only the poll gives a row an issue and takes it off its list in the same step |
| `!IntakeKept` | `IntakeSpec => []` of what the next three rest on | with `SpawnSound`, `TreeSound`, `LeftSound`, `KeepSound`, `OrchestratorSound` |
| `!IntakeNothingLost` | `IntakeSpec => []NothingLost` | with `OwnSound`, `TreeSound`, `LeftSound`: a runtime, a row that looks live or a worktree has an owner that is on its way, done, or has the call that gets it to come; a failing call puts what it leaves into `missed`, and only a call that gets it takes it out (`MissedStep`). Each error ignored is one more case, so the claim is about the calls that fail, and what they were to get |
| `!IntakeWorkerKeepsTree` | `IntakeSpec => []WorkerKeepsTree` | with `KeepSound`: a call that removes a worktree comes before one that ends the same row |
| `!IntakeOneOrchestrator` | `IntakeSpec => []OneOrchestrator` | with `OrchestratorSound`: the holder of the lock ended every orchestrator it found, or has still the call to, before it creates one |

The proofs of `IntakeProofs` speak of any number of requests that interleave, each with a sequence
of calls of any length to come, so none unfolds a sequence: what a call may do is said by its
place (`CallSound`), and `TailFacts` carries it from a sequence to its tail. `SpawnSound` is a
conjunction of a part per request (`ReqSound`) and one per row (`RowSound`, `HeldSound`). A step
changes one request and at most one row, and the others must not notice: `Kept` says what a step
of one request leaves alone, is proved once for each action, and gives the rest (a row that is
`Settled`, past its mark with no deletion to come, stays what it is but for its end). The part of
the request itself is one lemma per handler. The number of a deleted row is given out again, so
the ownership of a row (`Owner(i)`) and the request's own memory of it (`Mine(r)`) are related in
both directions in `RowSound` and `OwnSound`; without it `WorkerKeepsTree` is not inductive, since
a rollback could remove its successor's worktree.

The assumption `~LanArmed` is needed: `lan_boot.cfg` gives the counterexample without it. The
inductive strengthenings stand at the end of the modules they strengthen. The constants'
assumptions (`IdsAssumption`, `BoundsAssumption`, `FlagsAssumption`, `NudgeAssumption`,
`ScmAssumption`, `ReviewAssumption`, `CdcAssumption`, `AttachmentAssumption`, `MuxAssumption`,
`SpawnAssumption`, `IntakeAssumption`, `DaemonAssumption`, `PaneAssumption`) are evaluated by TLC
in every run of their modules. `CdcAssumption` is the one with content: `MaxLuck <= LiveBuffer` is
what keeps a cancelled stream from taking its whole buffer.

`EndWaitsForWork` needs that `discoverNewPRs` stores an open row before the dispatch: without
it `SettledIsObserved` is not inductive, since the rows would say nothing of a new sibling.
`CiRun`, `ReviewRun` and the stack are arbitrary there, as are the calls that fail.

The type invariants of the modules with proofs are proved and are not part of a run: the theorem
says more.

Model-checked only: liveness, which with ENABLED is beyond the prover. These are
`DeadPaneReaped`, `Ends`, `DeadPaneEnds`, `ChangeReaches`, `FeedbackReaches`, `ForsakenStops`,
`StartServes`, `MessageSubmitted`, `FailureReachesAgent`, `ReviewReachesAgent`,
`FirstConflictReachesAgent` and `CleanMergeEndsSession`. `CloseIsSilent` is an action property
that is not proved. The other properties of the runs are theorems.

Facts that need induction over data, and anything written with a RECURSIVE operator, are out
of the prover's reach as well; the modules with proofs have neither.

## 5. Not modelled

The components with status `not_modelled` in `PROJECT.json`, each with its reason:

* the SQLite store beyond the change log's triggers and the write lock: each write is one
  atomic step of the models; SQL and generated code have no control of their own;
* session, project, pull-request and notification services, the HTTP controllers, the API
  specification, the CLI: validation and read models over the rows, one request at a time;
* agent, reviewer, SCM and tracker adapters: command lines and API calls of outside programs,
  which appear as the environment of the models that call them;
* the Windows runtime, the same contract on another platform;
* the desktop interface, but for its part in the daemon's process and in the event stream.

Within the modelled parts: telemetry; the event tables of agent adapters other than
claude-code; multi-repository projects; metadata other than the handles; the text of prompts
and nudges; and what section 2 names under each module.

## 6. Plan

Done: `SessionLifecycle`, `SaveRestore`, `SendOnce`, `ScmObserver`, `ReviewEngine` over
`ReviewLedger`, `CdcPipeline` over `ChangeFeed`, `TerminalAttachment`, `TerminalMux`,
`SessionSpawn`, `TrackerIntake`, `DaemonProcess`, `PaneSend`, their runs and their proofs.

Next:

1. The safety that the liveness properties of the observer need, as `NoMessageForgotten` is that
   of `MessageSubmitted`: what `ScmObserver` owes (`owed`) stays recorded as pending until it is
   told.
2. That `KillSound` and `CaptureSound` are kept by each request with the LAN listener on, under
   the weakest condition on the requests that makes it so.
3. Multi-repository save and restore, which composes several instances of the worktree part of
   `SaveRestore`.
