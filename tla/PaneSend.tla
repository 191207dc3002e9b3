------------------------------- MODULE PaneSend -------------------------------
(***************************************************************************)
(* Messages typed into a session's pane: Send with its confirmation loop,  *)
(* the nudges of the lifecycle manager, the guard that both go through,    *)
(* and the paste, pause and Enter of the tmux runtime                      *)
(* (session_manager/manager.go, sessionguard/guard.go, tmux/tmux.go).      *)
(*                                                                         *)
(* Any number of calls write to the pane at once, and the agent, its user  *)
(* and the hooks that report to the row go on meanwhile.  A message is its *)
(* call.  Time is left out: a deadline may pass after any poll.            *)
(***************************************************************************)
EXTENDS Integers, Sequences

CONSTANTS
  Send,         \* calls of Send, to a harness that is safe to confirm
  Nudge,        \* calls of the lifecycle manager's sendOnce
  MaxAttempts,  \* sendConfirm.maxAttempts
  MaxMoves,     \* steps of the agent and of its user
  MaxFaults     \* faults: failed calls, lost signals and Enters, restarts, callers that leave

ASSUME PaneAssumption ==
  /\ Send \cap Nudge = {} /\ "user" \notin Send \cup Nudge
  /\ MaxAttempts \in Nat \ {0}
  /\ {MaxMoves, MaxFaults} \subseteq Nat

VARIABLES
  activity, \* the activity state on record; "exited" stands for terminated, too
  agent,   \* "prompt", "busy", "dialog" (it asks for a permission) or "shell" (it is gone)
  draft,   \* texts in its input line
  reports, \* reports of its hooks on their way
  calls,   \* the calls
  taken,   \* history: messages submitted to the agent
  lost,    \* history: Enters of a call that left its message in the input line
  stray,   \* history: calls that pressed Enter in a dialog or a shell
  moves,   \* what MaxMoves bounds
  faults   \* what MaxFaults bounds

paneVars == <<agent, draft, reports, taken, lost, stray>>
sendVars == <<activity, paneVars, calls, moves, faults>>

Call == Send \cup Nudge
User == "user"
New == [step |-> "new", tries |-> 0, left |-> FALSE, result |-> "none"]

PaneInit ==
  /\ activity = "idle" /\ agent = "prompt" /\ draft = {} /\ reports = <<>>
  /\ calls = [c \in Call |-> New]
  /\ taken = {} /\ lost = [c \in Call |-> 0] /\ stray = {}
  /\ moves = 0 /\ faults = 0

Fault == faults < MaxFaults /\ faults' = faults + 1 /\ UNCHANGED moves
Calm == UNCHANGED <<moves, faults>>

At(c, step) == calls[c].step = step
Goes(c, step) == calls' = [calls EXCEPT ![c].step = step]
Ends(c, result) == calls' = [calls EXCEPT ![c].step = "done", ![c].result = result]

---------------------------------------------------------------------------
(* A call. *)

\* A nudge holds the lock of the reactions.
Asked(c) ==
  /\ At(c, "new")
  /\ c \in Nudge => \A n \in Nudge : calls[n].step \in {"new", "done"}
  /\ Goes(c, "guard") /\ UNCHANGED <<activity, paneVars>> /\ Calm

\* The end of the call's context: its client has gone, or the request timed out.
Leaves(c) ==
  /\ c \in Send /\ calls[c].step \notin {"new", "done"} /\ ~calls[c].left
  /\ calls' = [calls EXCEPT ![c].left = TRUE]
  /\ Fault /\ UNCHANGED <<activity, paneVars>>

\* Mutant: the pause before Enter ends with the request.
CutAnywhere(c) == TRUE

\* Once a paste is in the pane, the pause and its Enter are detached from the request.
Cut(c) == ~(calls[c].step = "settle")

Heard(c) == ~(calls[c].left /\ Cut(c))

Abandon(c) ==
  /\ calls[c].step \notin {"new", "done"} /\ ~Heard(c)
  /\ Ends(c, "cut") /\ UNCHANGED <<activity, paneVars>> /\ Calm

\* Guard.send with the policies of Deliver and Nudge
Refuses(c) ==
  \/ activity \in {"exited", "blocked"}
  \/ activity = "waiting" /\ c \in Nudge

\* The guard reads the row, for a message or for another Enter.
Guarded(c) ==
  /\ calls[c].step \in {"guard", "again"} /\ Heard(c)
  /\ IF Refuses(c) THEN Ends(c, "refused")
     ELSE Goes(c, IF At(c, "guard") THEN "paste" ELSE "enter")
  /\ UNCHANGED <<activity, paneVars>> /\ Calm

\* The text goes to the input line, to the dialog or to the shell.
Typed(texts) == draft' = IF agent \in {"prompt", "busy"} THEN draft \cup texts ELSE draft

\* The messenger reads the row again, for its handle.
Paste(c) ==
  /\ At(c, "paste") /\ Heard(c)
  /\ IF activity = "exited"
     THEN Ends(c, "error") /\ UNCHANGED draft
     ELSE Goes(c, "settle") /\ Typed({c})
  /\ UNCHANGED <<activity, agent, reports, taken, lost, stray>> /\ Calm

Submit(extra) ==
  /\ taken' = taken \cup (draft \ {User}) /\ draft' = {}
  /\ agent' = "busy" /\ reports' = Append(reports, "active") /\ UNCHANGED <<lost, extra>>

\* Where an Enter goes: it answers a dialog, runs a shell's line, submits the input line.
Enters(c) ==
  \/ /\ agent = "dialog" /\ agent' = "busy" /\ reports' = Append(reports, "active")
     /\ stray' = stray \cup {c} /\ UNCHANGED <<draft, taken, lost>> /\ Calm
  \/ /\ agent = "shell" /\ stray' = stray \cup {c}
     /\ UNCHANGED <<agent, reports, draft, taken, lost>> /\ Calm
  \/ /\ agent \in {"prompt", "busy"} /\ draft = {}
     /\ UNCHANGED paneVars /\ Calm
  \/ /\ agent \in {"prompt", "busy"} /\ draft # {}
     /\ Submit(stray) /\ Calm
  \/ /\ agent \in {"prompt", "busy"} /\ draft # {}   \* the input absorbs it
     /\ lost' = [lost EXCEPT ![c] = @ + 1]
     /\ UNCHANGED <<agent, reports, draft, taken, stray>> /\ Fault

Enter(c) ==
  /\ calls[c].step \in {"settle", "enter"} /\ Heard(c)
  /\ Enters(c)
  /\ calls' = [calls EXCEPT ![c].step = IF c \in Send THEN "wait" ELSE "done",
                            ![c].tries = @ + 1,
                            ![c].result = IF c \in Send THEN @ ELSE "sent"]
  /\ UNCHANGED activity

\* waitForActive: a poll that decides.
Decided(c) ==
  /\ At(c, "wait") /\ Heard(c)
  /\ activity \in {"active", "blocked"}
  /\ Ends(c, activity) /\ UNCHANGED <<activity, paneVars>> /\ Calm

\* Mutant: one Enter less.
SpentEarly(c) == calls[c].tries + 1 >= MaxAttempts

Spent(c) == calls[c].tries >= MaxAttempts

\* Mutant: the whole message once more.
Resends(c) ==
  /\ At(c, "wait") /\ Heard(c)
  /\ activity \notin {"active", "blocked"}
  /\ IF Spent(c) THEN Ends(c, "spent") ELSE Goes(c, "guard")
  /\ UNCHANGED <<activity, paneVars>> /\ Calm

\* waitForActive: the deadline passes; confirmActive: once more, or never.
TimesOut(c) ==
  /\ At(c, "wait") /\ Heard(c)
  /\ activity \notin {"active", "blocked"}
  /\ IF Spent(c) THEN Ends(c, "spent") ELSE Goes(c, "again")
  /\ UNCHANGED <<activity, paneVars>> /\ Calm

\* A read of the store or a tmux command fails; a paste that does may be in the pane.
Fails(c) ==
  /\ calls[c].step \notin {"new", "done"}
  /\ \/ UNCHANGED draft
     \/ At(c, "paste") /\ Typed({c})
  /\ Ends(c, "fault") /\ Fault
  /\ UNCHANGED <<activity, agent, reports, taken, lost, stray>>

Step(c) == Guarded(c) \/ Paste(c) \/ Enter(c) \/ Decided(c) \/ TimesOut(c) \/ Abandon(c)

\* The daemon restarts: nothing of a call is durable.
Restart ==
  /\ calls' = [c \in Call |->
       IF calls[c].step \in {"new", "done"} THEN calls[c]
       ELSE [calls[c] EXCEPT !.step = "done", !.result = "fault"]]
  /\ Fault /\ UNCHANGED <<activity, paneVars>>

---------------------------------------------------------------------------
(* The agent and its user. *)

Move == moves < MaxMoves /\ moves' = moves + 1 /\ UNCHANGED <<activity, calls, faults>>
Reports(signal) == reports' = Append(reports, signal)

UserTypes ==
  /\ agent \in {"prompt", "busy"} /\ draft' = draft \cup {User}
  /\ Move /\ UNCHANGED <<agent, reports, taken, lost, stray>>

UserEnters ==
  /\ agent \in {"prompt", "busy"} /\ draft # {} /\ Submit(stray)
  /\ Move

OpensDialog ==
  /\ agent = "busy" /\ agent' = "dialog" /\ Reports("blocked")
  /\ Move /\ UNCHANGED <<draft, taken, lost, stray>>

UserAnswers ==
  /\ agent = "dialog" /\ agent' = "busy" /\ Reports("active")
  /\ Move /\ UNCHANGED <<draft, taken, lost, stray>>

\* stop and idle_prompt, or agent_needs_input
TurnEnds ==
  /\ agent = "busy" /\ agent' = "prompt" /\ \E s \in {"idle", "waiting"} : Reports(s)
  /\ Move /\ UNCHANGED <<draft, taken, lost, stray>>

Quits ==
  /\ agent # "shell" /\ agent' = "shell" /\ draft' = {} /\ Reports("exited")
  /\ Move /\ UNCHANGED <<taken, lost, stray>>

\* The lifecycle manager takes a report.
SignalArrives ==
  /\ reports # <<>> /\ reports' = Tail(reports)
  /\ activity' = IF activity = "exited" THEN activity ELSE Head(reports)
  /\ UNCHANGED <<agent, draft, calls, taken, lost, stray, moves, faults>>

SignalLost ==
  /\ reports # <<>> /\ reports' = Tail(reports)
  /\ Fault /\ UNCHANGED <<activity, agent, draft, calls, taken, lost, stray>>

AgentSide ==
  \/ UserTypes \/ UserEnters \/ OpensDialog \/ UserAnswers \/ TurnEnds \/ Quits
  \/ SignalArrives \/ SignalLost

---------------------------------------------------------------------------
PaneNext ==
  \/ \E c \in Call : Asked(c) \/ Leaves(c) \/ Step(c) \/ Fails(c)
  \/ Restart \/ AgentSide

PaneSpec == PaneInit /\ [][PaneNext]_sendVars

\* A call that has begun goes on.
FairPaneSpec == PaneSpec /\ \A c \in Call : WF_sendVars(Step(c))

---------------------------------------------------------------------------
(* Properties. *)

\* However often its Enter is repeated, whatever fails and whoever leaves, a message
\* gets into the input line once and is submitted once (Send, confirmActive: what is
\* repeated is the Enter).
SubmittedOnce == \A c \in Call :
  /\ c \in draft \cup taken => calls[c].step \notin {"new", "guard", "paste"}
  /\ c \notin draft \cap taken

Excused(c) ==
  \/ agent = "shell" \/ c \in stray
  \/ calls[c].result = "fault"
  \/ lost[c] > 0 /\ (calls[c].left \/ calls[c].result \in {"active", "blocked", "refused", "error"})
  \/ lost[c] >= MaxAttempts

\* A call of Send that is over has left its message in the input line only for a reason the
\* code gives up on: every Enter it may press was absorbed; one was, and then its caller left or
\* the row spoke of something else; a read or a tmux command failed; its Enter went into a
\* dialog; the agent is gone.  That a caller leaves in the pause before Enter, or that two
\* messages meet in the line, is no reason (confirmActive, SendMessage).
Accounted == \A c \in Send : c \in draft /\ At(c, "done") => Excused(c)

\* A message in the input line is submitted: its Enter comes though the caller has left, and
\* a call that goes on makes up for every lost one but the last.
MessageSubmitted == \A c \in Send : c \in draft ~> (c \in taken \/ Excused(c))

---------------------------------------------------------------------------
(* What comments say and the code does not keep. *)

\* "waitActive: the session went active - the prompt was accepted, done" (manager.go:1637)
ActiveMeansAccepted == \A c \in Send : calls[c].result = "active" => c \notin draft

\* "It refuses whenever the session awaits the human in any form - blocked on a decision or
\* waiting at the prompt" (guard.go:114-117)
NudgeNotAtPrompt ==
  [][\A c \in Nudge : At(c, "guard") /\ calls'[c].step = "paste" =>
       ~(agent = "prompt" /\ reports = <<>>)]_sendVars

---------------------------------------------------------------------------
(* The type invariant and the strengthenings that ActivityProofs uses. *)

States == {"idle", "active", "waiting", "blocked", "exited"}
CallTypes == [step : {"new", "guard", "paste", "settle", "enter", "wait", "again", "done"},
              tries : 0..MaxAttempts, left : BOOLEAN,
              result : {"none", "cut", "refused", "error", "sent", "active", "blocked", "spent", "fault"}]

\* With it: no call presses Enter more often than sendConfirm.maxAttempts.
PaneTypeOK ==
  /\ activity \in States /\ reports \in Seq(States)
  /\ agent \in {"prompt", "busy", "dialog", "shell"}
  /\ draft \subseteq Call \cup {User} /\ taken \subseteq Call /\ stray \subseteq Call
  /\ calls \in [Call -> CallTypes] /\ lost \in [Call -> Nat]
  /\ moves \in 0..MaxMoves /\ faults \in 0..MaxFaults

\* Enters are counted where they may still be pressed.
TriesSound == \A c \in Call :
  /\ calls[c].step \in {"settle", "enter", "again"} => calls[c].tries < MaxAttempts
  /\ calls[c].step \in {"new", "guard", "paste", "settle"} => calls[c].tries = 0
  /\ calls[c].step \in {"wait", "again", "enter"} => c \in Send

\* Each Enter pressed on a message that is still there, and not into a dialog, was lost.
Counted(c) ==
  /\ calls[c].step \in {"wait", "again", "enter"} => calls[c].tries > 0
  /\ c \in draft \ stray /\ ~At(c, "done") => lost[c] = calls[c].tries
  /\ lost[c] <= calls[c].tries
LossCounted == \A c \in Send : Counted(c)
=============================================================================
