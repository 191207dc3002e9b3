--------------------------- MODULE SessionLifecycle ---------------------------
(***************************************************************************)
(* The lifecycle manager: the one reducer through which agent hooks, the   *)
(* reaper and the session manager change a session's durable row           *)
(* (internal/lifecycle/manager.go, runtime.go), the reaper that feeds it   *)
(* probe results (internal/observe/reaper/reaper.go), and, as environment, *)
(* the agent in its tmux pane and the hook processes that post its         *)
(* activity signals.                                                       *)
(*                                                                         *)
(* Every method of the manager runs under one mutex, so each is one        *)
(* action.  What interleaves is everything around them: hook posts that    *)
(* arrive late, out of order or never; a reaper cycle that reads the       *)
(* clock, lists, probes and reports in separate steps; launches and kills  *)
(* between those steps; daemon restarts that lose the in-memory tool       *)
(* tracking.                                                               *)
(***************************************************************************)
EXTENDS Integers, FiniteSets

CONSTANTS
  Session,      \* session ids
  NoSession,    \* "no session": not a member of Session
  Tool,         \* tool-use ids; an id is never used twice
  NoTool,       \* the empty tool-use id: not a member of Tool
  Name,         \* tool names (Bash, Edit, ...)
  NoName,       \* the empty tool name: not a member of Name
  ToolName,     \* the name each tool use carries
  Legacy,       \* sessions whose hook CLI does not tag signals with an event
  Window,       \* defaultRecentActivityWindow, in clock ticks
  MaxInflight,  \* maxInflightTools
  Reliable,     \* does every hook post arrive, a tool's pre-tool-use post
                \* before its dialog opens or it ends?
  ReaperOn,     \* is the reaper loop started?
  StoreFails,   \* may a write of the sessions table fail?
  MaxTime,      \* bound: last clock tick
  MaxWire,      \* bound: hook posts under way per session
  MaxRestarts   \* bound: daemon restarts

ASSUME IdsAssumption ==
  /\ NoSession \notin Session
  /\ NoTool \notin Tool
  /\ NoName \notin Name
  /\ ToolName \in [Tool -> Name]
  /\ Legacy \subseteq Session

ASSUME BoundsAssumption ==
  /\ Window \in Nat
  /\ MaxInflight \in Nat \ {0}
  /\ Reliable \in BOOLEAN
  /\ ReaperOn \in BOOLEAN
  /\ StoreFails \in BOOLEAN
  /\ MaxTime \in Nat
  /\ MaxWire \in Nat
  /\ MaxRestarts \in Nat

VARIABLES
  \* The sessions table (durable).
  row,       \* per session: terminated, state, lastAt, signalled, handle
  \* The manager's memory.
  flight,    \* per session: the toolFlight entry
  ping,      \* per session: the needs-input notification of the current pause
  launching, \* sessions whose runtime exists but is not yet marked spawned
  \* The reaper's cycle.
  pc, tickAt, todo, probing, probe,
  \* The environment.
  now,       \* the wall clock
  restarts,  \* daemon restarts so far
  pane,      \* per session: the tmux pane
  phase,     \* per session and tool use: how far it got
  dialog,    \* per session: the tool use whose permission dialog is on screen
  wire,      \* per session: hook posts sent and not yet delivered
  \* History.
  heard      \* per session: what the manager knows of the dialog on screen

daemonVars == <<flight, ping, launching>>
reaperVars == <<pc, tickAt, todo, probing, probe>>
agentVars  == <<pane, phase, dialog>>
vars == <<row, daemonVars, reaperVars, now, restarts, agentVars, wire, heard>>

-----------------------------------------------------------------------------
(* Activity states and hook signals.                                       *)

ActivityState == {"active", "idle", "waiting_input", "blocked", "exited"}

IsSticky(a)   == a \in {"waiting_input", "blocked"}
NeedsInput(a) == a \in {"waiting_input", "blocked"}

ToolUseEvents      == {"pre-tool-use", "post-tool-use", "post-tool-use-failure"}
PostToolUseEvents  == {"post-tool-use", "post-tool-use-failure"}
TurnBoundaryEvents == {"user-prompt-submit", "stop", "session-end"}
Events == ToolUseEvents \cup TurnBoundaryEvents
            \cup {"", "permission-request", "notification"}

Signal == [event : Events, state : ActivityState,
           tool : Tool \cup {NoTool}, name : Name \cup {NoName}]

Plain(e, a) == [event |-> e, state |-> a, tool |-> NoTool, name |-> NoName]

PreToolUse(t) == [event |-> "pre-tool-use", state |-> "active",
                  tool |-> t, name |-> ToolName[t]]

PostToolUse(t, e) == [event |-> e, state |-> "active",
                      tool |-> t, name |-> ToolName[t]]

\* The permission hook names the blocking tool but carries no tool-use id.
PermissionRequest(t) == [event |-> "permission-request", state |-> "blocked",
                         tool |-> NoTool, name |-> ToolName[t]]

\* What a hook CLI reports: the event-to-state table of the claude-code adapter.
TurnSignals   == {Plain("user-prompt-submit", "active"), Plain("stop", "idle")}
NoticeSignals == {Plain("notification", "waiting_input"),
                  Plain("notification", "idle")}
DialogNotice  == Plain("notification", "blocked")
SessionEnd    == Plain("session-end", "exited")
LegacySignals == {Plain("", a) : a \in ActivityState \ {"exited"}}
LegacyEnd     == Plain("", "exited")

EndSignal(s) == IF s \in Legacy THEN LegacyEnd ELSE SessionEnd

TaggedSignals ==
  TurnSignals \cup NoticeSignals \cup {DialogNotice, SessionEnd}
    \cup {PreToolUse(t) : t \in Tool} \cup {PermissionRequest(t) : t \in Tool}
    \cup {PostToolUse(t, e) : t \in Tool, e \in PostToolUseEvents}

SignalsOf(s) == IF s \in Legacy THEN LegacySignals \cup {LegacyEnd}
                                ELSE TaggedSignals

-----------------------------------------------------------------------------
(* The tool-flight state and the blocked-precedence rule.                  *)

Flight == [inflight : SUBSET Tool, candidate : Tool \cup {NoTool}]

\* A missing toolFlight entry and an empty one are indistinguishable.
NoFlight == [inflight |-> {}, candidate |-> NoTool]

\* The tracking side effects of a tool event, which land whatever the state
\* decision is.  Reaching the cap resets the map before the insertion.
TrackTool(f, sig) ==
  [f EXCEPT !.inflight =
     IF sig.event = "pre-tool-use" /\ sig.tool # NoTool
       THEN (IF Cardinality(@) >= MaxInflight THEN {} ELSE @) \cup {sig.tool}
     ELSE IF sig.event \in PostToolUseEvents THEN @ \ {sig.tool} ELSE @]

SameName(inflight, name) == {t \in inflight : ToolName[t] = name}

\* Mutant: any in-flight tool of that name will do.
BlockedCandidateAny(inflight, name) ==
  IF SameName(inflight, name) # {}
    THEN CHOOSE t \in inflight : ToolName[t] = name
    ELSE NoTool

\* The unique in-flight tool of that name; none when the match is ambiguous.
BlockedCandidate(inflight, name) ==
  IF \E t \in inflight : SameName(inflight, name) = {t}
    THEN CHOOSE t \in inflight : SameName(inflight, name) = {t}
    ELSE NoTool

\* The post of the tool whose dialog blocked the session.
AnswersDialog(f, sig) ==
  /\ sig.event \in PostToolUseEvents
  /\ f.candidate # NoTool
  /\ sig.tool = f.candidate

\* Does the precedence rule drop the signal's state write?
Suppressed(f, cur, sig) ==
  /\ sig.event # ""
  /\ sig.state # "blocked"
  /\ IF cur = "blocked"
       THEN sig.event \notin TurnBoundaryEvents /\ ~AnswersDialog(f, sig)
       ELSE IsSticky(cur) /\ sig.event \in ToolUseEvents

\* The flight entry after the signal.
NextFlight(f, cur, sig) ==
  LET g == TrackTool(f, sig) IN
  IF sig.event = "" THEN f
  ELSE IF sig.state = "blocked"
    THEN IF sig.name # NoName
           THEN [g EXCEPT !.candidate = BlockedCandidate(g.inflight, sig.name)]
           ELSE g
  ELSE IF sig.event \in TurnBoundaryEvents THEN NoFlight
  ELSE IF cur = "blocked" /\ AnswersDialog(f, sig)
    THEN [g EXCEPT !.candidate = NoTool]
  ELSE g

-----------------------------------------------------------------------------
(* The session row and the reducer's writes.                               *)

Row == [terminated : BOOLEAN, state : ActivityState, lastAt : Nat,
        signalled : BOOLEAN,   \* FirstSignalAt is set
        handle : BOOLEAN]      \* RuntimeHandleID is set

\* seedRecord: the row Spawn creates before anything is launched.
SeedRow == [terminated |-> FALSE, state |-> "idle", lastAt |-> 0,
            signalled |-> FALSE, handle |-> FALSE]

Terminated(r, at) ==
  [r EXCEPT !.terminated = TRUE, !.state = "exited", !.lastAt = at]

\* The row of a launch: its hooks have to prove themselves anew.
Spawned(r, at) ==
  [r EXCEPT !.terminated = FALSE, !.state = "idle", !.lastAt = at,
            !.signalled = FALSE, !.handle = TRUE]

\* The row a non-suppressed signal writes.
SignalRow(r, sig) ==
  [r EXCEPT !.state = sig.state, !.lastAt = now, !.signalled = TRUE,
            !.terminated = (sig.state = "exited")]

\* Same-state repeats are dropped, except the first signal of a launch.
Repeats(r, sig) == r.state = sig.state /\ r.signalled

\* Mutant: an idle row counts as paused on the user, however old.
HasRecentActivityIdle(r, at) ==
  /\ r.state # "exited"
  /\ r.state # "active" \/ at - r.lastAt <= Window

HasRecentActivity(r, at) ==
  /\ r.state # "exited"
  /\ IsSticky(r.state) \/ at - r.lastAt <= Window

\* Mutant: a failed probe counts as death.
RuntimeNotAlive(pr, r, at) == pr # "alive" /\ ~HasRecentActivity(r, at)

RuntimeClearlyDead(pr, r, at) == pr = "dead" /\ ~HasRecentActivity(r, at)

\* The needs-input ping of the pause the row is in: "due" between the row
\* write and the notification call that follows the unlock, "lost" when that
\* call fails or the daemon stops before it.  A ping still due when its pause
\* ends goes out all the same; nothing depends on it and it is not followed.
Ping == {"none", "due", "sent", "lost"}

PingAfter(p, old, new) ==
  IF ~NeedsInput(new) THEN "none"
  ELSE IF ~NeedsInput(old) THEN "due"
  ELSE p

\* What the manager knows of the dialog on screen once it has processed sig:
\* "tracked" when the dialog's own permission request was its last named
\* snapshot and the dialog's tool was in flight at that moment.
HeardAfter(s, sig) ==
  IF dialog[s] = NoTool \/ sig.state # "blocked" \/ sig.name = NoName
    THEN heard[s]
  ELSE IF ToolName[dialog[s]] # sig.name
    THEN IF heard[s] = "no" THEN "no" ELSE "untracked"
  ELSE IF dialog[s] \in flight'[s].inflight THEN "tracked" ELSE "untracked"

-----------------------------------------------------------------------------
(* ApplyActivitySignal: one disjunct per way out of the method.            *)

SignalAfterTermination(s) ==
  /\ row[s].terminated
  /\ flight' = [flight EXCEPT ![s] = NoFlight]
  /\ UNCHANGED <<row, ping, heard>>

\* Suppressed by the precedence rule, a repeat, or a store write that fails:
\* the tracking has happened, the row stays as it is.
SignalNotWritten(s, sig) ==
  /\ ~row[s].terminated
  /\ Suppressed(flight[s], row[s].state, sig) \/ Repeats(row[s], sig) \/ StoreFails
  /\ flight' = [flight EXCEPT ![s] = NextFlight(flight[s], row[s].state, sig)]
  /\ heard' = [heard EXCEPT ![s] = HeardAfter(s, sig)]
  /\ UNCHANGED <<row, ping>>

SignalWritten(s, sig) ==
  /\ ~row[s].terminated
  /\ ~Suppressed(flight[s], row[s].state, sig)
  /\ ~Repeats(row[s], sig)
  /\ flight' = [flight EXCEPT ![s] = NextFlight(flight[s], row[s].state, sig)]
  /\ row' = [row EXCEPT ![s] = SignalRow(row[s], sig)]
  /\ ping' = [ping EXCEPT ![s] = PingAfter(ping[s], row[s].state, sig.state)]
  /\ heard' = [heard EXCEPT ![s] = HeardAfter(s, sig)]

\* The hook post reaches the daemon.
ApplyActivitySignal(s, sig) ==
  /\ sig \in wire[s]
  /\ wire' = [wire EXCEPT ![s] = @ \ {sig}]
  /\ \/ SignalAfterTermination(s)
     \/ SignalNotWritten(s, sig)
     \/ SignalWritten(s, sig)
  /\ UNCHANGED <<launching, reaperVars, now, restarts, agentVars>>

\* The daemon is unreachable or the post times out: the hook CLI logs and gives up.
LoseSignal(s, sig) ==
  /\ ~Reliable
  /\ sig \in wire[s]
  /\ wire' = [wire EXCEPT ![s] = @ \ {sig}]
  /\ UNCHANGED <<row, daemonVars, reaperVars, now, restarts, agentVars, heard>>

\* emitNotification, after the mutex is released; an error is only logged.
EmitNotification(s) ==
  /\ ping[s] = "due"
  /\ \E p \in {"sent", "lost"} : ping' = [ping EXCEPT ![s] = p]
  /\ UNCHANGED <<row, flight, launching, reaperVars, now, restarts, agentVars,
                 wire, heard>>

-----------------------------------------------------------------------------
(* MarkSpawned, MarkTerminated and the launches that call them.            *)

\* runtime.Create for a new session or for the restore of a terminated one.
\* tmux refuses a session name that exists, so the pane must be gone.
CreateRuntime(s) ==
  /\ pane[s] = "none"
  /\ s \notin launching
  /\ row[s].terminated \/ ~row[s].handle
  /\ pane' = [pane EXCEPT ![s] = "agent"]
  /\ launching' = launching \cup {s}
  /\ UNCHANGED <<row, flight, ping, reaperVars, now, restarts, phase, dialog,
                 wire, heard>>

MarkSpawned(s) ==
  /\ s \in launching
  /\ launching' = launching \ {s}
  /\ row' = [row EXCEPT ![s] = Spawned(row[s], now)]
  /\ ping' = [ping EXCEPT ![s] = "none"]
  /\ UNCHANGED <<flight, reaperVars, now, restarts, agentVars, wire, heard>>

\* delete(m.flights, id), and its mutant that forgets to.
ReleaseFlightNot(s) == UNCHANGED flight
ReleaseFlight(s) == flight' = [flight EXCEPT ![s] = NoFlight]

TerminateRow(s, at) ==
  /\ row' = [row EXCEPT ![s] = Terminated(row[s], at)]
  /\ ping' = [ping EXCEPT ![s] = "none"]

\* Called by Kill, by boot reconciliation, by a merged PR, by a terminal issue.
\* The flight entry goes even when the store write then fails.
MarkTerminated(s) ==
  /\ ~row[s].terminated
  /\ ReleaseFlight(s)
  /\ \/ TerminateRow(s, now)
     \/ StoreFails /\ UNCHANGED <<row, ping>>
  /\ UNCHANGED <<launching, reaperVars, now, restarts, agentVars, wire, heard>>

-----------------------------------------------------------------------------
(* The reaper's cycle, one step per call it makes.                         *)

\* Tick reads the clock before it lists.
ReaperStart ==
  /\ ReaperOn
  /\ pc = "idle"
  /\ pc' = "list"
  /\ tickAt' = now
  /\ UNCHANGED <<row, daemonVars, todo, probing, probe, now, restarts,
                 agentVars, wire, heard>>

\* The snapshot: live rows; a row without a handle is skipped by probeOne.
ReaperList ==
  /\ pc = "list"
  /\ pc' = "probe"
  /\ todo' = {s \in Session : ~row[s].terminated /\ row[s].handle}
  /\ UNCHANGED <<row, daemonVars, tickAt, probing, probe, now, restarts,
                 agentVars, wire, heard>>

\* IsAlive asks tmux for the pane: the keep-alive shell counts as alive.
IsAlive(s) == IF pane[s] = "none" THEN "dead" ELSE "alive"

Probed(s, answer) ==
  /\ pc = "probe"
  /\ s \in todo
  /\ todo' = todo \ {s}
  /\ probing' = s
  /\ probe' = answer
  /\ pc' = "apply"
  /\ UNCHANGED <<row, daemonVars, tickAt, now, restarts, agentVars, wire, heard>>

ReaperProbe(s) == Probed(s, IsAlive(s))
ReaperProbeFails(s) == Probed(s, "failed")

ReaperDone ==
  /\ pc = "probe"
  /\ todo = {}
  /\ pc' = "idle"
  /\ UNCHANGED <<row, daemonVars, tickAt, todo, probing, probe, now, restarts,
                 agentVars, wire, heard>>

\* ApplyRuntimeObservation with the cycle's start time as ObservedAt.
ApplyRuntimeObservation ==
  /\ pc = "apply"
  /\ pc' = "probe"
  /\ probing' = NoSession
  /\ probe' = "none"
  /\ IF ~row[probing].terminated
        /\ RuntimeClearlyDead(probe, row[probing], tickAt)
       THEN /\ ReleaseFlight(probing)
            /\ \/ TerminateRow(probing, tickAt)
               \/ StoreFails /\ UNCHANGED <<row, ping>>
       ELSE UNCHANGED <<row, flight, ping>>
  /\ UNCHANGED <<launching, tickAt, todo, now, restarts, agentVars, wire, heard>>

-----------------------------------------------------------------------------
(* The environment: agents, panes, the clock, the daemon process.          *)

AgentRuns(s) == pane[s] = "agent"

Post(s, sigs) ==
  /\ sigs = {} \/ Cardinality(wire[s]) < MaxWire
  /\ wire' = [wire EXCEPT ![s] = @ \cup sigs]

agentUnchanged == <<row, daemonVars, reaperVars, now, restarts>>

\* The agent, or a parallel subagent of it, starts a tool.
StartTool(s, t) ==
  /\ s \notin Legacy
  /\ AgentRuns(s)
  /\ \A r \in Session : phase[r][t] = "unused"
  /\ phase' = [phase EXCEPT ![s][t] = "open"]
  /\ Post(s, {PreToolUse(t)})
  /\ UNCHANGED <<agentUnchanged, pane, dialog, heard>>

\* An agent runs a tool's pre-tool-use hook to its end before it goes on with
\* the tool; a hook that timed out leaves its post to arrive late or never.
PreReported(s, t) == Reliable => PreToolUse(t) \notin wire[s]

\* The permission dialog of an open tool appears; one is on screen at a time.
OpenDialog(s, t) ==
  /\ AgentRuns(s)
  /\ dialog[s] = NoTool
  /\ phase[s][t] = "open"
  /\ PreReported(s, t)
  /\ dialog' = [dialog EXCEPT ![s] = t]
  /\ heard' = [heard EXCEPT ![s] = "no"]
  /\ Post(s, {PermissionRequest(t)})
  /\ UNCHANGED <<agentUnchanged, pane, phase>>

\* The user decides.  Answering fires no hook; a denied tool never runs.
AnswerDialog(s) ==
  /\ AgentRuns(s)
  /\ dialog[s] # NoTool
  /\ dialog' = [dialog EXCEPT ![s] = NoTool]
  /\ heard' = [heard EXCEPT ![s] = "no"]
  /\ \E p \in {"open", "done"} : phase' = [phase EXCEPT ![s][dialog[s]] = p]
  /\ UNCHANGED <<agentUnchanged, pane, wire>>

FinishTool(s, t) ==
  /\ AgentRuns(s)
  /\ phase[s][t] = "open"
  /\ dialog[s] # t
  /\ PreReported(s, t)
  /\ phase' = [phase EXCEPT ![s][t] = "done"]
  /\ \E e \in PostToolUseEvents : Post(s, {PostToolUse(t, e)})
  /\ UNCHANGED <<agentUnchanged, pane, dialog, heard>>

\* Prompts and turn ends happen with no dialog on screen; notices any time.
ReportTurn(s) ==
  /\ AgentRuns(s)
  /\ s \notin Legacy
  /\ \E sig \in TurnSignals \cup NoticeSignals \cup {DialogNotice} :
       /\ sig \in TurnSignals => dialog[s] = NoTool
       /\ sig = DialogNotice => dialog[s] # NoTool
       /\ Post(s, {sig})
  /\ UNCHANGED <<agentUnchanged, agentVars, heard>>

ReportLegacy(s) ==
  /\ AgentRuns(s)
  /\ s \in Legacy
  /\ \E sig \in LegacySignals : Post(s, {sig})
  /\ UNCHANGED <<agentUnchanged, agentVars, heard>>

\* The agent process ends: its open tools and its dialog go with it.
AgentStops(s, p, sigs) ==
  /\ pane' = [pane EXCEPT ![s] = p]
  /\ phase' = [phase EXCEPT ![s] =
                 [t \in Tool |-> IF @[t] = "open" THEN "done" ELSE @[t]]]
  /\ dialog' = [dialog EXCEPT ![s] = NoTool]
  /\ heard' = [heard EXCEPT ![s] = "no"]
  /\ Post(s, sigs)
  /\ UNCHANGED agentUnchanged

\* It quits and its session-end hook fires: the keep-alive shell takes the pane.
AgentQuits(s) == AgentRuns(s) /\ AgentStops(s, "shell", {EndSignal(s)})

\* It crashes or is killed: no hook; the keep-alive shell takes the pane.
AgentCrashes(s) == AgentRuns(s) /\ AgentStops(s, "shell", {})

\* The pane goes: runtime.Destroy, or the tmux server dies.  A live agent may
\* or may not get its session-end hook out.
PaneGoes(s) ==
  /\ pane[s] # "none"
  /\ \E sigs \in {{}, {EndSignal(s)}} :
       /\ sigs # {} => AgentRuns(s)
       /\ AgentStops(s, "none", sigs)

Advance ==
  /\ now < MaxTime
  /\ now' = now + 1
  /\ UNCHANGED <<row, daemonVars, reaperVars, restarts, agentVars, wire, heard>>

\* The daemon process restarts: the manager's and the reaper's memory is gone.
RestartDaemon ==
  /\ restarts < MaxRestarts
  /\ restarts' = restarts + 1
  /\ flight' = [s \in Session |-> NoFlight]
  /\ ping' = [s \in Session |-> IF ping[s] = "due" THEN "lost" ELSE ping[s]]
  /\ launching' = {}
  /\ pc' = "idle"
  /\ todo' = {}
  /\ probing' = NoSession
  /\ probe' = "none"
  /\ UNCHANGED <<row, tickAt, now, agentVars, wire, heard>>

-----------------------------------------------------------------------------

Init ==
  /\ row = [s \in Session |-> SeedRow]
  /\ flight = [s \in Session |-> NoFlight]
  /\ ping = [s \in Session |-> "none"]
  /\ launching = {}
  /\ pc = "idle" /\ tickAt = 0 /\ todo = {} /\ probing = NoSession /\ probe = "none"
  /\ now = 0
  /\ restarts = 0
  /\ pane = [s \in Session |-> "none"]
  /\ phase = [s \in Session |-> [t \in Tool |-> "unused"]]
  /\ dialog = [s \in Session |-> NoTool]
  /\ wire = [s \in Session |-> {}]
  /\ heard = [s \in Session |-> "no"]

Reaper ==
  \/ ReaperStart
  \/ ReaperList
  \/ \E s \in Session : ReaperProbe(s) \/ ReaperProbeFails(s)
  \/ ApplyRuntimeObservation
  \/ ReaperDone

Manager(s) ==
  \/ \E sig \in wire[s] : ApplyActivitySignal(s, sig)
  \/ EmitNotification(s)
  \/ CreateRuntime(s)
  \/ MarkSpawned(s)
  \/ MarkTerminated(s)

Agent(s) ==
  \/ \E t \in Tool : StartTool(s, t) \/ OpenDialog(s, t) \/ FinishTool(s, t)
  \/ AnswerDialog(s)
  \/ ReportTurn(s)
  \/ ReportLegacy(s)
  \/ AgentQuits(s)
  \/ AgentCrashes(s)
  \/ PaneGoes(s)
  \/ \E sig \in wire[s] : LoseSignal(s, sig)

Next ==
  \/ Reaper
  \/ \E s \in Session : Manager(s) \/ Agent(s)
  \/ Advance
  \/ RestartDaemon

Spec == Init /\ [][Next]_vars

\* The reaper's goroutine keeps running and a probe that can be answered
\* definitely is, again and again, not answered with an error every time; nor
\* does the write of a verdict fail every time.
Fairness ==
  /\ WF_vars(ReaperStart)
  /\ WF_vars(ReaperList)
  /\ WF_vars(ReaperDone)
  /\ WF_vars(ApplyRuntimeObservation)
  /\ SF_vars(ApplyRuntimeObservation /\ row' # row)
  /\ \A s \in Session : WF_vars(ReaperProbe(s) \/ ReaperProbeFails(s))
                       /\ SF_vars(ReaperProbe(s))

FairSpec == Spec /\ Fairness

-----------------------------------------------------------------------------
(* Properties.                                                             *)

\* Types; a session whose hooks are untagged has no tool or dialog to track, a
\* verdict to apply is somebody's, a post under way is one its session can send.
TypeOK ==
  /\ row \in [Session -> Row]
  /\ flight \in [Session -> Flight]
  /\ ping \in [Session -> Ping]
  /\ launching \subseteq Session
  /\ pc \in {"idle", "list", "probe", "apply"}
  /\ tickAt \in Nat
  /\ todo \subseteq Session
  /\ probing \in Session \cup {NoSession}
  /\ probe \in {"none", "alive", "dead", "failed"}
  /\ pc = "apply" => probing \in Session
  /\ now \in Nat
  /\ restarts \in Nat
  /\ pane \in [Session -> {"none", "agent", "shell"}]
  /\ phase \in [Session -> [Tool -> {"unused", "open", "done"}]]
  /\ dialog \in [Session -> Tool \cup {NoTool}]
  /\ \A s \in Legacy : dialog[s] = NoTool /\ \A t \in Tool : phase[s][t] = "unused"
  /\ wire \in [Session -> SUBSET Signal]
  /\ \A s \in Session : wire[s] \subseteq SignalsOf(s)
  /\ heard \in [Session -> {"no", "untracked", "tracked"}]

\* A tool-shaped signal delivered in this step took the row out of blocked.
ToolSignalClears(s) ==
  /\ row[s].state = "blocked"
  /\ row'[s].state # "blocked"
  /\ \E sig \in wire[s] \ wire'[s] : sig.event \in ToolUseEvents

\* While the dialog the manager was told of is on screen, and the tool behind
\* it was in flight when the manager recorded the block, no tool traffic of
\* the same session (a parallel subagent, a same-name sibling, a late post)
\* takes the row out of blocked: applyToolPrecedenceLocked's whole purpose.
TrackedDialogHolds ==
  [][\A s \in Session : heard[s] = "tracked" => ~ToolSignalClears(s)]_vars

\* The unconditional form of the toolFlight comment: once a dialog has been
\* announced, nothing tool-shaped clears the block while it is on screen, a
\* daemon restart included ("fail-safe staleness, never a spurious clear").
AnnouncedDialogHolds ==
  [][\A s \in Session : heard[s] # "no" => ~ToolSignalClears(s)]_vars

\* A terminated session holds no tool-flight entry, whichever of the hook, the
\* reaper and the session manager terminated it: "a leaked entry would
\* otherwise persist for the daemon's life".
FlightsReleased ==
  \A s \in Session : row[s].terminated => flight[s] = NoFlight

\* A pause that escalates is not announced again because "the user was already
\* pinged once for this pause" (manager.go:185-187): its ping was not lost.
EscalationPinged ==
  [][\A s \in Session :
       NeedsInput(row[s].state) /\ NeedsInput(row'[s].state)
         /\ row'[s].state # row[s].state
       => ping[s] # "lost"]_vars

\* A verdict of the reaper never ends a launch whose pane exists: not when the
\* session was killed and relaunched between the probe and the report, not
\* when the probe failed.
ReaperKillsOnlyDead ==
  [][\A s \in Session :
       probing = s /\ probing' = NoSession
         /\ ~row[s].terminated /\ row'[s].terminated
       => pane[s] = "none"]_vars

\* A launch that is marked live, has been quiet for the window and is not
\* paused on the user is "quiet"; the reaper must get to it.
Quiet(s) ==
  /\ row[s].handle
  /\ ~row[s].terminated
  /\ ~IsSticky(row[s].state)
  /\ now - row[s].lastAt > Window

\* A session whose pane is gone and that stays quiet is terminated.
DeadPaneReaped ==
  \A s \in Session : (Quiet(s) /\ pane[s] = "none") ~> ~Quiet(s)

-----------------------------------------------------------------------------
(* The inductive strengthenings ActivityProofs uses.                       *)

\* Untagged signals never reach the tool-flight state.
LegacyUntracked == \A s \in Legacy : flight[s] = NoFlight

\* A pending "dead" verdict is about a session that has a handle and whose
\* pane is gone, or that was terminated or relaunched since the cycle began.
VerdictSound ==
  /\ tickAt <= now
  /\ \A s \in Session : row[s].state = "exited" => row[s].terminated
  /\ \A s \in todo : row[s].handle
  /\ pc = "apply" /\ probe = "dead" =>
       /\ row[probing].handle
       /\ \/ pane[probing] = "none"
          \/ row[probing].terminated
          \/ row[probing].lastAt >= tickAt

\* A tool whose dialog is open has sent no post; a post under way is of a tool
\* that has ended; a tracked dialog's tool is the only possible candidate.
CandidateSound ==
  \A s \in Session :
    /\ heard[s] # "no" => dialog[s] # NoTool
    /\ dialog[s] # NoTool => phase[s][dialog[s]] = "open"
    /\ \A t \in Tool, e \in PostToolUseEvents :
         PostToolUse(t, e) \in wire[s] => phase[s][t] = "done"
    /\ heard[s] = "tracked" => flight[s].candidate \in {NoTool, dialog[s]}
=============================================================================
