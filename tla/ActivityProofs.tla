--------------------------- MODULE ActivityProofs ---------------------------
(***************************************************************************)
(* Proofs about the sessions' activity and what is typed on its word:      *)
(* SessionLifecycle, for every set of sessions, tool uses and names, every *)
(* window, cap and bound; and PaneSend, for every set of calls, number of  *)
(* attempts and bound.                                                     *)
(***************************************************************************)
EXTENDS SessionLifecycle, PaneSend, TLAPS

---------------------------------------------------------------------------
(* SessionLifecycle. *)

LEMMA PlainTyped ==
  ASSUME NEW e \in Events, NEW a \in ActivityState
  PROVE  Plain(e, a) \in Signal
  BY DEF Plain, Signal

LEMMA ToolSignalsTyped ==
  ASSUME NEW t \in Tool
  PROVE  /\ PreToolUse(t) \in Signal
         /\ PermissionRequest(t) \in Signal
         /\ \A e \in PostToolUseEvents : PostToolUse(t, e) \in Signal
<1>1. ToolName[t] \in Name
  BY IdsAssumption
<1>2. PostToolUseEvents \cup {"pre-tool-use", "permission-request"} \subseteq Events
  BY DEF PostToolUseEvents, Events, ToolUseEvents
<1>3. {"active", "blocked"} \subseteq ActivityState
  BY DEF ActivityState
<1> QED
  BY <1>1, <1>2, <1>3 DEF PreToolUse, PermissionRequest, PostToolUse, Signal

\* What a hook CLI can send is a signal.
LEMMA SignalsTyped == \A s \in Session : SignalsOf(s) \subseteq Signal
<1>1. TurnSignals \cup NoticeSignals \cup {DialogNotice, SessionEnd} \subseteq Signal
  <2>1. {"user-prompt-submit", "stop", "notification", "session-end"} \subseteq Events
    BY DEF Events, TurnBoundaryEvents
  <2>2. {"active", "idle", "waiting_input", "blocked", "exited"} \subseteq ActivityState
    BY DEF ActivityState
  <2> QED
    BY <2>1, <2>2, PlainTyped DEF TurnSignals, NoticeSignals, DialogNotice, SessionEnd
<1>2. LegacySignals \cup {LegacyEnd} \subseteq Signal
  <2>1. "" \in Events /\ "exited" \in ActivityState
    BY DEF Events, ActivityState
  <2> QED
    BY <2>1, PlainTyped DEF LegacySignals, LegacyEnd
<1> QED
  BY <1>1, <1>2, ToolSignalsTyped DEF SignalsOf, TaggedSignals

\* The candidate is an in-flight tool of the name, or none.
LEMMA CandidateTyped ==
  ASSUME NEW inflight \in SUBSET Tool, NEW name
  PROVE  BlockedCandidate(inflight, name) \in inflight \cup {NoTool}
<1>1. CASE \E t \in inflight : SameName(inflight, name) = {t}
  <2>1. PICK t \in inflight : SameName(inflight, name) = {t}
    BY <1>1
  <2>2. (CHOOSE x \in inflight : SameName(inflight, name) = {x}) \in inflight
    BY <2>1
  <2> QED
    BY <1>1, <2>2 DEF BlockedCandidate
<1>2. CASE ~\E t \in inflight : SameName(inflight, name) = {t}
  BY <1>2 DEF BlockedCandidate
<1> QED
  BY <1>1, <1>2

LEMMA TrackToolTyped ==
  ASSUME NEW f \in Flight, NEW sig \in Signal
  PROVE  /\ TrackTool(f, sig) \in Flight
         /\ TrackTool(f, sig).candidate = f.candidate
  BY DEF TrackTool, Flight, Signal

\* Folding a signal into a flight entry yields a flight entry.
LEMMA NextFlightTyped ==
  ASSUME NEW f \in Flight, NEW cur, NEW sig \in Signal
  PROVE  NextFlight(f, cur, sig) \in Flight
<1> DEFINE g == TrackTool(f, sig)
<1>1. g \in Flight
  BY TrackToolTyped
<1>2. BlockedCandidate(g.inflight, sig.name) \in Tool \cup {NoTool}
  BY <1>1, CandidateTyped DEF Flight
<1>3. NoFlight \in Flight
  BY DEF NoFlight, Flight
<1> HIDE DEF g
<1>4. /\ [g EXCEPT !.candidate = BlockedCandidate(g.inflight, sig.name)] \in Flight
      /\ [g EXCEPT !.candidate = NoTool] \in Flight
  BY <1>1, <1>2 DEF Flight
<1> QED
  BY <1>1, <1>3, <1>4 DEF NextFlight, g

-----------------------------------------------------------------------------
(* Type correctness.                                                       *)

LEMMA TypeInit == Init => TypeOK
  BY IdsAssumption
  DEF Init, TypeOK, Row, SeedRow, ActivityState, Flight, NoFlight, Ping

LEMMA SignalRowTyped ==
  ASSUME NEW r \in Row, NEW sig \in Signal, now \in Nat
  PROVE  SignalRow(r, sig) \in Row
  BY DEF SignalRow, Row, Signal

LEMMA RowsTyped ==
  ASSUME NEW r \in Row, NEW at \in Nat
  PROVE  Terminated(r, at) \in Row /\ Spawned(r, at) \in Row
  BY DEF Terminated, Spawned, Row, ActivityState

LEMMA NoFlightTyped == NoFlight \in Flight
  BY DEF NoFlight, Flight

LEMMA TypeSignal ==
  ASSUME TypeOK, NEW s \in Session, NEW sig \in wire[s], ApplyActivitySignal(s, sig)
  PROVE  TypeOK'
<1>1. sig \in Signal
  BY DEF TypeOK
<1>2. flight' \in [Session -> Flight]
  <2>1. NextFlight(flight[s], row[s].state, sig) \in Flight
    BY <1>1, NextFlightTyped DEF TypeOK
  <2>2. NoFlight \in Flight
    BY DEF NoFlight, Flight
  <2>3. PICK f \in Flight : flight' = [flight EXCEPT ![s] = f]
    BY <2>1, <2>2 DEF ApplyActivitySignal, SignalAfterTermination, SignalNotWritten,
      SignalWritten
  <2> QED
    BY <2>3 DEF TypeOK
<1>3. row' \in [Session -> Row]
  BY <1>1, SignalRowTyped DEF ApplyActivitySignal, SignalAfterTermination, SignalNotWritten,
    SignalWritten, TypeOK
<1>4. ping' \in [Session -> Ping]
  BY DEF ApplyActivitySignal, SignalAfterTermination, SignalNotWritten, SignalWritten,
    TypeOK, Ping, PingAfter
<1>5. heard' \in [Session -> {"no", "untracked", "tracked"}]
  BY DEF ApplyActivitySignal, SignalAfterTermination, SignalNotWritten, SignalWritten,
    TypeOK, HeardAfter
<1>6. /\ wire' \in [Session -> SUBSET Signal]
      /\ \A r \in Session : wire'[r] \subseteq SignalsOf(r)
  BY DEF ApplyActivitySignal, TypeOK
<1> QED
  BY <1>2, <1>3, <1>4, <1>5, <1>6
  DEF ApplyActivitySignal, TypeOK, reaperVars, agentVars

LEMMA TypeManager ==
  ASSUME TypeOK, NEW s \in Session, Manager(s)
  PROVE  TypeOK'
<1>1. CASE \E sig \in wire[s] : ApplyActivitySignal(s, sig)
  BY <1>1, TypeSignal
<1>2. CASE EmitNotification(s)
  BY <1>2 DEF EmitNotification, TypeOK, Ping, reaperVars, agentVars
<1>3. CASE CreateRuntime(s)
  BY <1>3 DEF CreateRuntime, TypeOK, reaperVars
<1>4. CASE MarkSpawned(s)
  <2>1. row' \in [Session -> Row]
    BY <1>4, RowsTyped DEF MarkSpawned, TypeOK
  <2> QED
    BY <1>4, <2>1 DEF MarkSpawned, TypeOK, Ping, reaperVars, agentVars
<1>5. CASE MarkTerminated(s)
  <2>1. row' \in [Session -> Row]
    BY <1>5, RowsTyped DEF MarkTerminated, TerminateRow, TypeOK
  <2>2. flight' \in [Session -> Flight]
    BY <1>5, NoFlightTyped DEF MarkTerminated, ReleaseFlight, TypeOK
  <2> QED
    BY <1>5, <2>1, <2>2 DEF MarkTerminated, TerminateRow, TypeOK, Ping, reaperVars, agentVars
<1> QED
  BY <1>1, <1>2, <1>3, <1>4, <1>5 DEF Manager

LEMMA TypeReaper ==
  ASSUME TypeOK, Reaper
  PROVE  TypeOK'
<1>1. CASE ReaperStart
  BY <1>1 DEF ReaperStart, TypeOK, daemonVars, agentVars
<1>2. CASE ReaperList
  BY <1>2 DEF ReaperList, TypeOK, daemonVars, agentVars
<1>3. CASE \E s \in Session : ReaperProbe(s) \/ ReaperProbeFails(s)
  BY <1>3 DEF ReaperProbe, ReaperProbeFails, Probed, IsAlive, TypeOK, daemonVars, agentVars
<1>4. CASE ApplyRuntimeObservation
  <2>1. probing \in Session
    BY <1>4 DEF ApplyRuntimeObservation, TypeOK
  <2>2. row' \in [Session -> Row]
    BY <1>4, <2>1, RowsTyped DEF ApplyRuntimeObservation, TerminateRow, TypeOK
  <2>3. flight' \in [Session -> Flight]
    BY <1>4, <2>1, NoFlightTyped DEF ApplyRuntimeObservation, ReleaseFlight, TypeOK
  <2>4. ping' \in [Session -> Ping]
    BY <1>4, <2>1 DEF ApplyRuntimeObservation, TerminateRow, TypeOK, Ping
  <2> QED
    BY <1>4, <2>2, <2>3, <2>4 DEF ApplyRuntimeObservation, TypeOK, agentVars
<1>5. CASE ReaperDone
  BY <1>5 DEF ReaperDone, TypeOK, daemonVars, agentVars
<1> QED
  BY <1>1, <1>2, <1>3, <1>4, <1>5 DEF Reaper

\* Posting signals of the session's own vocabulary keeps the wire typed.
LEMMA PostTyped ==
  ASSUME TypeOK, NEW s \in Session, NEW sigs, sigs \subseteq SignalsOf(s), Post(s, sigs)
  PROVE  /\ wire' \in [Session -> SUBSET Signal]
         /\ \A r \in Session : wire'[r] \subseteq SignalsOf(r)
  BY SignalsTyped DEF Post, TypeOK

LEMMA TypeAgentStops ==
  ASSUME TypeOK, NEW s \in Session, NEW p \in {"none", "agent", "shell"},
         NEW sigs \in {{}, {EndSignal(s)}}, AgentStops(s, p, sigs)
  PROVE  TypeOK'
<1>1. sigs \subseteq SignalsOf(s)
  BY DEF EndSignal, SignalsOf, TaggedSignals
<1>2. Post(s, sigs)
  BY DEF AgentStops
<1>3. phase' \in [Session -> [Tool -> {"unused", "open", "done"}]]
  BY DEF AgentStops, TypeOK
<1>4. \A r \in Legacy : dialog'[r] = NoTool /\ \A t \in Tool : phase'[r][t] = "unused"
  BY IdsAssumption DEF AgentStops, TypeOK
<1> QED
  BY <1>1, <1>2, <1>3, <1>4, PostTyped
  DEF AgentStops, TypeOK, agentUnchanged, daemonVars, reaperVars

LEMMA TypeAgent ==
  ASSUME TypeOK, NEW s \in Session, Agent(s)
  PROVE  TypeOK'
<1> USE DEF agentUnchanged, daemonVars, reaperVars, agentVars
<1>1. ASSUME NEW t \in Tool, StartTool(s, t)
      PROVE  TypeOK'
  <2>1. {PreToolUse(t)} \subseteq SignalsOf(s)
    BY <1>1 DEF StartTool, SignalsOf, TaggedSignals
  <2>2. phase' \in [Session -> [Tool -> {"unused", "open", "done"}]]
    BY <1>1 DEF StartTool, TypeOK
  <2>3. \A r \in Legacy, u \in Tool : phase'[r][u] = "unused"
    BY <1>1, IdsAssumption DEF StartTool, TypeOK
  <2> QED
    BY <1>1, <2>1, <2>2, <2>3, PostTyped DEF StartTool, TypeOK
<1>2. ASSUME NEW t \in Tool, OpenDialog(s, t)
      PROVE  TypeOK'
  <2>1. {PermissionRequest(t)} \subseteq SignalsOf(s)
    BY <1>2 DEF OpenDialog, TypeOK, SignalsOf, TaggedSignals
  <2> QED
    BY <1>2, <2>1, PostTyped DEF OpenDialog, TypeOK
<1>3. ASSUME NEW t \in Tool, FinishTool(s, t)
      PROVE  TypeOK'
  <2>1. PICK e \in PostToolUseEvents : Post(s, {PostToolUse(t, e)})
    BY <1>3 DEF FinishTool
  <2>2. s \notin Legacy
    BY <1>3 DEF FinishTool, TypeOK
  <2>3. {PostToolUse(t, e)} \subseteq SignalsOf(s)
    BY <2>2 DEF SignalsOf, TaggedSignals
  <2>4. phase' \in [Session -> [Tool -> {"unused", "open", "done"}]]
    BY <1>3 DEF FinishTool, TypeOK
  <2>5. \A r \in Legacy, u \in Tool : phase'[r][u] = "unused"
    BY <1>3, <2>2, IdsAssumption DEF FinishTool, TypeOK
  <2> QED
    BY <1>3, <2>1, <2>3, <2>4, <2>5, PostTyped DEF FinishTool, TypeOK
<1>4. CASE AnswerDialog(s)
  <2>1. dialog[s] \in Tool
    BY <1>4 DEF AnswerDialog, TypeOK
  <2>2. phase' \in [Session -> [Tool -> {"unused", "open", "done"}]]
    BY <1>4, <2>1 DEF AnswerDialog, TypeOK
  <2>3. PICK p \in {"open", "done"} : phase' = [phase EXCEPT ![s][dialog[s]] = p]
    BY <1>4 DEF AnswerDialog
  <2> QED
    BY <1>4, <2>1, <2>2, <2>3, IdsAssumption DEF AnswerDialog, TypeOK
<1>5. CASE ReportTurn(s)
  <2>1. PICK sig \in TurnSignals \cup NoticeSignals \cup {DialogNotice} : Post(s, {sig})
    BY <1>5 DEF ReportTurn
  <2>2. {sig} \subseteq SignalsOf(s)
    BY <1>5, <2>1 DEF ReportTurn, SignalsOf, TaggedSignals
  <2> QED
    BY <1>5, <2>1, <2>2, PostTyped DEF ReportTurn, TypeOK
<1>6. CASE ReportLegacy(s)
  <2>1. PICK sig \in LegacySignals : Post(s, {sig})
    BY <1>6 DEF ReportLegacy
  <2>2. {sig} \subseteq SignalsOf(s)
    BY <1>6, <2>1 DEF ReportLegacy, SignalsOf
  <2> QED
    BY <1>6, <2>1, <2>2, PostTyped DEF ReportLegacy, TypeOK
<1>7. CASE AgentQuits(s)
  BY <1>7, TypeAgentStops DEF AgentQuits
<1>8. CASE AgentCrashes(s)
  BY <1>8, TypeAgentStops DEF AgentCrashes
<1>9. CASE PaneGoes(s)
  BY <1>9, TypeAgentStops DEF PaneGoes
<1>10. ASSUME NEW sig \in wire[s], LoseSignal(s, sig)
       PROVE  TypeOK'
  BY <1>10 DEF LoseSignal, TypeOK
<1> QED
  BY <1>1, <1>2, <1>3, <1>4, <1>5, <1>6, <1>7, <1>8, <1>9, <1>10 DEF Agent

LEMMA TypeNext == TypeOK /\ [Next]_vars => TypeOK'
<1> SUFFICES ASSUME TypeOK, [Next]_vars PROVE TypeOK'
  OBVIOUS
<1>1. CASE Reaper
  BY <1>1, TypeReaper
<1>2. CASE \E s \in Session : Manager(s) \/ Agent(s)
  BY <1>2, TypeManager, TypeAgent
<1>3. CASE Advance
  BY <1>3 DEF Advance, TypeOK, daemonVars, reaperVars, agentVars
<1>4. CASE RestartDaemon
  BY <1>4 DEF RestartDaemon, TypeOK, Flight, NoFlight, Ping, agentVars
<1>5. CASE UNCHANGED vars
  BY <1>5 DEF vars, TypeOK, daemonVars, reaperVars, agentVars
<1> QED
  BY <1>1, <1>2, <1>3, <1>4, <1>5 DEF Next

\* The row, the tool-flight memory, the reaper's cycle and the hook posts
\* under way keep their types.
THEOREM TypeCorrect == Spec => []TypeOK
  BY TypeInit, TypeNext, PTL DEF Spec

-----------------------------------------------------------------------------
(* No terminated session holds a tool-flight entry.                        *)

\* What a legacy hook CLI sends is untagged; what a tagged one sends as
\* exited is a turn boundary, and a post is that of one tool.
LEMMA SignalVocabulary ==
  ASSUME NEW s \in Session, NEW sig \in SignalsOf(s)
  PROVE  /\ s \in Legacy => sig.event = ""
         /\ s \notin Legacy => sig.event # ""
         /\ s \notin Legacy /\ sig.state = "exited" => sig.event = "session-end"
         /\ sig.event \in PostToolUseEvents =>
              \E t \in Tool, e \in PostToolUseEvents : sig = PostToolUse(t, e)
<1>0. \A e, a : Plain(e, a).event = e /\ Plain(e, a).state = a
  BY DEF Plain
<1>1. CASE s \in Legacy
  <2>1. \E a : sig = Plain("", a)
    BY <1>1 DEF SignalsOf, LegacySignals, LegacyEnd
  <2>2. sig.event = ""
    BY <1>0, <2>1
  <2> QED
    BY <1>1, <2>2 DEF PostToolUseEvents
<1>2. CASE s \notin Legacy
  <2>1. CASE sig \in TurnSignals \cup NoticeSignals \cup {DialogNotice, SessionEnd}
    <3>1. PICK e, a : /\ sig = Plain(e, a)
                      /\ e \in {"user-prompt-submit", "stop", "notification",
                                "session-end"}
                      /\ a = "exited" => e = "session-end"
      BY <2>1 DEF TurnSignals, NoticeSignals, DialogNotice, SessionEnd
    <3>2. sig.event = e /\ sig.state = a
      BY <3>1, <1>0
    <3> QED
      BY <1>2, <3>1, <3>2 DEF PostToolUseEvents
  <2>2. CASE \E t \in Tool : sig = PreToolUse(t)
    BY <1>2, <2>2 DEF PreToolUse, PostToolUseEvents
  <2>3. CASE \E t \in Tool : sig = PermissionRequest(t)
    BY <1>2, <2>3 DEF PermissionRequest, PostToolUseEvents
  <2>4. CASE \E t \in Tool, e \in PostToolUseEvents : sig = PostToolUse(t, e)
    <3>0. PICK t \in Tool, e \in PostToolUseEvents : sig = PostToolUse(t, e)
      BY <2>4
    <3>1. sig.event # "" /\ sig.state # "exited"
      BY <3>0 DEF PostToolUse, PostToolUseEvents
    <3> QED
      BY <1>2, <2>4, <3>1
  <2>5. \/ sig \in TurnSignals \cup NoticeSignals \cup {DialogNotice, SessionEnd}
        \/ \E t \in Tool : sig = PreToolUse(t)
        \/ \E t \in Tool : sig = PermissionRequest(t)
        \/ \E t \in Tool, e \in PostToolUseEvents : sig = PostToolUse(t, e)
    <3>1. sig \in TaggedSignals
      BY <1>2 DEF SignalsOf
    <3> QED
      BY <3>1 DEF TaggedSignals
  <2> QED
    BY <2>1, <2>2, <2>3, <2>4, <2>5, Zenon
<1> QED
  BY <1>1, <1>2

FlightInv == TypeOK /\ LegacyUntracked /\ FlightsReleased

LEMMA FlightInit == Init => LegacyUntracked /\ FlightsReleased
  BY IdsAssumption DEF Init, LegacyUntracked, FlightsReleased, SeedRow

LEMMA FlightSignal ==
  ASSUME FlightInv, NEW s \in Session, NEW sig \in wire[s], ApplyActivitySignal(s, sig)
  PROVE  LegacyUntracked' /\ FlightsReleased'
<1> USE DEF FlightInv
<1>1. sig \in SignalsOf(s)
  BY DEF TypeOK
<1> DEFINE f == NextFlight(flight[s], row[s].state, sig)
<1>2. s \in Legacy => f = flight[s]
  BY <1>1, SignalVocabulary DEF NextFlight
<1>3. s \notin Legacy /\ sig.state = "exited" => f = NoFlight
  BY <1>1, SignalVocabulary DEF NextFlight, TurnBoundaryEvents
<1> HIDE DEF f
<1>4. s \in Legacy => flight[s] = NoFlight
  BY DEF LegacyUntracked
<1>5. CASE SignalAfterTermination(s)
  BY <1>5 DEF SignalAfterTermination, TypeOK, LegacyUntracked, FlightsReleased
<1>6. CASE SignalNotWritten(s, sig)
  <2>1. flight' = [flight EXCEPT ![s] = f] /\ row' = row /\ ~row[s].terminated
    BY <1>6 DEF SignalNotWritten, f
  <2> QED
    BY <1>2, <1>4, <2>1, IdsAssumption DEF TypeOK, LegacyUntracked, FlightsReleased
<1>7. CASE SignalWritten(s, sig)
  <2>1. /\ flight' = [flight EXCEPT ![s] = f]
        /\ row' = [row EXCEPT ![s] = SignalRow(row[s], sig)]
    BY <1>7 DEF SignalWritten, f
  <2>2. SignalRow(row[s], sig).terminated => sig.state = "exited"
    <3>1. row[s] \in Row
      BY DEF TypeOK
    <3>2. SignalRow(row[s], sig).terminated = (sig.state = "exited")
      BY <3>1 DEF SignalRow, Row
    <3> QED
      BY <3>2
  <2> QED
    BY <1>2, <1>3, <1>4, <2>1, <2>2, IdsAssumption
    DEF TypeOK, LegacyUntracked, FlightsReleased
<1> QED
  BY <1>5, <1>6, <1>7 DEF ApplyActivitySignal

LEMMA FlightNext ==
  FlightInv /\ [Next]_vars => LegacyUntracked' /\ FlightsReleased'
<1> SUFFICES ASSUME FlightInv, [Next]_vars
             PROVE  LegacyUntracked' /\ FlightsReleased'
  OBVIOUS
<1> USE DEF FlightInv
<1> DEFINE Goal == LegacyUntracked' /\ FlightsReleased'
<1>1. CASE flight' = flight /\ row' = row
  BY <1>1 DEF LegacyUntracked, FlightsReleased
<1>2. ASSUME NEW s \in Session, ReleaseFlight(s),
             \A r \in Session \ {s} : row'[r] = row[r]
      PROVE  Goal
  BY <1>2 DEF ReleaseFlight, TypeOK, LegacyUntracked, FlightsReleased
<1>3. ASSUME NEW s \in Session, Manager(s)
      PROVE  Goal
  <2>1. CASE \E sig \in wire[s] : ApplyActivitySignal(s, sig)
    BY <2>1, FlightSignal
  <2>2. CASE MarkSpawned(s)
    <3>1. Spawned(row[s], now).terminated = FALSE
      BY DEF Spawned, TypeOK, Row
    <3> QED
      BY <2>2, <3>1 DEF MarkSpawned, TypeOK, LegacyUntracked, FlightsReleased
  <2>3. CASE MarkTerminated(s)
    BY <2>3, <1>2 DEF MarkTerminated, TerminateRow, TypeOK
  <2> QED
    BY <1>1, <1>3, <2>1, <2>2, <2>3 DEF Manager, EmitNotification, CreateRuntime
<1>4. CASE Reaper
  <2>1. CASE ApplyRuntimeObservation
    BY <2>1, <1>1, <1>2 DEF ApplyRuntimeObservation, TerminateRow, TypeOK
  <2> QED
    BY <1>1, <1>4, <2>1 DEF Reaper, ReaperStart, ReaperList, ReaperProbe,
      ReaperProbeFails, Probed, ReaperDone, daemonVars
<1>5. ASSUME NEW s \in Session, Agent(s)
      PROVE  Goal
  BY <1>1, <1>5 DEF Agent, StartTool, OpenDialog, AnswerDialog, FinishTool, ReportTurn,
    ReportLegacy, AgentQuits, AgentCrashes, PaneGoes, AgentStops, LoseSignal,
    agentUnchanged, daemonVars
<1>6. CASE Advance
  BY <1>1, <1>6 DEF Advance, daemonVars
<1>7. CASE RestartDaemon
  BY <1>7, IdsAssumption DEF RestartDaemon, LegacyUntracked, FlightsReleased
<1>8. CASE UNCHANGED vars
  BY <1>1, <1>8 DEF vars, daemonVars
<1> QED
  BY <1>3, <1>4, <1>5, <1>6, <1>7, <1>8 DEF Next

\* Whichever path terminated it, a terminated session holds no tool-flight
\* entry: the manager's memory does not grow with dead sessions, and the next
\* launch starts with no candidate of the previous one.
THEOREM FlightsAreReleased == Spec => []FlightsReleased
<1>1. Init => FlightInv
  BY TypeInit, FlightInit DEF FlightInv
<1>2. FlightInv /\ [Next]_vars => FlightInv'
  BY TypeNext, FlightNext DEF FlightInv
<1>3. FlightInv => FlightsReleased
  BY DEF FlightInv
<1> QED
  BY <1>1, <1>2, <1>3, PTL DEF Spec

-----------------------------------------------------------------------------
(* The reaper never ends a launch whose pane exists.                       *)

VerdictInv == TypeOK /\ VerdictSound

LEMMA VerdictInit == Init => VerdictSound
  BY DEF Init, VerdictSound, SeedRow

\* What each write of the reducer does to the fields the verdict depends on.
LEMMA SignalRowFields ==
  ASSUME NEW r \in Row, NEW sig \in Signal, now \in Nat
  PROVE  /\ SignalRow(r, sig).state = "exited" => SignalRow(r, sig).terminated
         /\ SignalRow(r, sig).handle = r.handle
         /\ SignalRow(r, sig).lastAt = now
  BY DEF SignalRow, Row, Signal

LEMMA LaunchRowFields ==
  ASSUME NEW r \in Row, NEW at \in Nat
  PROVE  /\ Terminated(r, at).terminated
         /\ Terminated(r, at).handle = r.handle
         /\ Spawned(r, at).state = "idle"
         /\ Spawned(r, at).handle
         /\ Spawned(r, at).lastAt = at
         /\ ~Spawned(r, at).terminated
  BY DEF Terminated, Spawned, Row

\* A write of one row that keeps the handle and either terminates the session
\* or stamps the present time leaves every pending verdict sound.
LEMMA VerdictWrite ==
  ASSUME VerdictInv, NEW s \in Session, NEW q \in Row,
         row' = [row EXCEPT ![s] = q],
         q.state = "exited" => q.terminated,
         row[s].handle => q.handle,
         q.terminated \/ q.lastAt = now,
         UNCHANGED <<reaperVars, now, pane>>
  PROVE  VerdictSound'
<1> USE DEF VerdictInv, reaperVars
<1>1. \A r \in Session : row'[r] = IF r = s THEN q ELSE row[r]
  BY DEF TypeOK
<1>2. \A r \in Session : row[r].handle => row'[r].handle
  BY <1>1
<1>3. pc' = "apply" /\ probe' = "dead" =>
        /\ row'[probing].handle
        /\ pane[probing] = "none" \/ row'[probing].terminated
             \/ row'[probing].lastAt >= tickAt
  BY <1>1, <1>2 DEF VerdictSound, TypeOK
<1> QED
  BY <1>1, <1>2, <1>3 DEF VerdictSound, TypeOK

LEMMA VerdictManager ==
  ASSUME VerdictInv, NEW s \in Session, Manager(s)
  PROVE  VerdictSound'
<1> USE DEF VerdictInv, reaperVars, agentVars
<1>0. row[s] \in Row /\ now \in Nat
  BY DEF TypeOK
<1>1. ASSUME NEW sig \in wire[s], ApplyActivitySignal(s, sig)
      PROVE  VerdictSound'
  <2>1. CASE row' = row
    BY <1>1, <2>1 DEF ApplyActivitySignal, VerdictSound
  <2>2. CASE SignalWritten(s, sig)
    <3>1. sig \in Signal
      BY DEF TypeOK
    <3>2. SignalRow(row[s], sig) \in Row
      BY <3>1, <1>0, SignalRowTyped
    <3> QED
      BY <1>0, <1>1, <2>2, <3>1, <3>2, SignalRowFields, VerdictWrite
      DEF SignalWritten, ApplyActivitySignal
  <2> QED
    BY <1>1, <2>1, <2>2 DEF ApplyActivitySignal, SignalAfterTermination, SignalNotWritten
<1>2. CASE EmitNotification(s)
  BY <1>2 DEF EmitNotification, VerdictSound
<1>3. CASE CreateRuntime(s)
  BY <1>3 DEF CreateRuntime, VerdictSound, TypeOK
<1>4. CASE MarkSpawned(s)
  <2>1. Spawned(row[s], now) \in Row
    BY <1>0, RowsTyped
  <2>2. /\ Spawned(row[s], now).state = "idle"
        /\ Spawned(row[s], now).handle
        /\ Spawned(row[s], now).lastAt = now
    BY <1>0, LaunchRowFields
  <2> QED
    BY <1>4, <2>1, <2>2, VerdictWrite DEF MarkSpawned
<1>5. CASE MarkTerminated(s)
  <2>1. CASE row' = row
    BY <1>5, <2>1 DEF MarkTerminated, VerdictSound
  <2>2. CASE TerminateRow(s, now)
    <3>1. Terminated(row[s], now) \in Row
      BY <1>0, RowsTyped
    <3>2. /\ Terminated(row[s], now).terminated
          /\ Terminated(row[s], now).handle = row[s].handle
      BY <1>0, LaunchRowFields
    <3> QED
      BY <1>5, <2>2, <3>1, <3>2, VerdictWrite DEF MarkTerminated, TerminateRow
  <2> QED
    BY <1>5, <2>1, <2>2 DEF MarkTerminated
<1> QED
  BY <1>1, <1>2, <1>3, <1>4, <1>5 DEF Manager

LEMMA VerdictReaper ==
  ASSUME VerdictInv, Reaper
  PROVE  VerdictSound'
<1> USE DEF VerdictInv, agentVars
<1>1. CASE ReaperStart
  BY <1>1 DEF ReaperStart, VerdictSound, TypeOK
<1>2. CASE ReaperList
  BY <1>2 DEF ReaperList, VerdictSound, TypeOK
<1>3. ASSUME NEW s \in Session, NEW answer, Probed(s, answer),
             answer = "dead" => pane[s] = "none"
      PROVE  VerdictSound'
  BY <1>3 DEF Probed, VerdictSound, TypeOK
<1>4. ASSUME NEW s \in Session, ReaperProbe(s) \/ ReaperProbeFails(s)
      PROVE  VerdictSound'
  BY <1>3, <1>4 DEF ReaperProbe, ReaperProbeFails, IsAlive
<1>5. CASE ApplyRuntimeObservation
  <2>1. CASE row' = row
    BY <1>5, <2>1 DEF ApplyRuntimeObservation, VerdictSound
  <2>2. CASE TerminateRow(probing, tickAt)
    <3>1. probing \in Session /\ row[probing] \in Row /\ tickAt \in Nat
      BY <1>5 DEF ApplyRuntimeObservation, TypeOK
    <3>2. \A r \in Session :
            row'[r] = IF r = probing THEN Terminated(row[r], tickAt) ELSE row[r]
      BY <2>2, <3>1 DEF TerminateRow, TypeOK
    <3>3. /\ Terminated(row[probing], tickAt).terminated
          /\ Terminated(row[probing], tickAt).handle = row[probing].handle
      BY <3>1, LaunchRowFields
    <3>4. pc' = "probe" /\ tickAt' = tickAt /\ todo' = todo /\ now' = now
      BY <1>5 DEF ApplyRuntimeObservation
    <3>5. \A r \in Session : row[r].handle => row'[r].handle
      BY <3>2, <3>3
    <3>6. ASSUME NEW r \in todo PROVE row'[r].handle
      BY <3>5 DEF VerdictSound, TypeOK
    <3>7. ASSUME NEW r \in Session, row'[r].state = "exited" PROVE row'[r].terminated
      BY <3>2, <3>3, <3>7 DEF VerdictSound
    <3> QED
      BY <3>4, <3>6, <3>7 DEF VerdictSound
  <2> QED
    BY <1>5, <2>1, <2>2 DEF ApplyRuntimeObservation
<1>6. CASE ReaperDone
  BY <1>6 DEF ReaperDone, VerdictSound
<1> QED
  BY <1>1, <1>2, <1>4, <1>5, <1>6 DEF Reaper

LEMMA VerdictNext == VerdictInv /\ [Next]_vars => VerdictSound'
<1> SUFFICES ASSUME VerdictInv, [Next]_vars PROVE VerdictSound'
  OBVIOUS
<1> USE DEF VerdictInv
<1>1. ASSUME NEW s \in Session, Manager(s)
      PROVE  VerdictSound'
  BY <1>1, VerdictManager
<1>2. CASE Reaper
  BY <1>2, VerdictReaper
<1>3. ASSUME NEW s \in Session, Agent(s)
      PROVE  VerdictSound'
  <2>1. /\ UNCHANGED <<row, reaperVars, now>>
        /\ \/ pane' = pane
           \/ \E p : pane' = [pane EXCEPT ![s] = p] /\ (pane[s] # "none" \/ p = "none")
    BY <1>3 DEF Agent, StartTool, OpenDialog, AnswerDialog, FinishTool, ReportTurn,
      ReportLegacy, AgentQuits, AgentCrashes, AgentRuns, PaneGoes, AgentStops, LoseSignal,
      agentUnchanged, agentVars
  <2> QED
    BY <2>1 DEF VerdictSound, TypeOK, reaperVars
<1>4. CASE Advance
  BY <1>4 DEF Advance, VerdictSound, TypeOK, reaperVars, agentVars
<1>5. CASE RestartDaemon
  BY <1>5 DEF RestartDaemon, VerdictSound, agentVars
<1>6. CASE UNCHANGED vars
  BY <1>6 DEF vars, VerdictSound, reaperVars, agentVars
<1> QED
  BY <1>1, <1>2, <1>3, <1>4, <1>5, <1>6 DEF Next

LEMMA ReaperStepKillsOnlyDead ==
  ASSUME VerdictInv, [Next]_vars, NEW s \in Session,
         probing = s, probing' = NoSession, ~row[s].terminated, row'[s].terminated
  PROVE  pane[s] = "none"
<1> USE DEF VerdictInv
<1>1. ApplyRuntimeObservation \/ RestartDaemon
  BY IdsAssumption, ZenonT(60) DEF Next, vars, Reaper, ReaperStart, ReaperList, ReaperProbe,
    ReaperProbeFails, Probed, ReaperDone, Manager, ApplyActivitySignal,
    EmitNotification, CreateRuntime, MarkSpawned, MarkTerminated, Agent, StartTool,
    OpenDialog, AnswerDialog, FinishTool, ReportTurn, ReportLegacy, AgentQuits,
    AgentCrashes, PaneGoes, AgentStops, LoseSignal, Advance, agentUnchanged, reaperVars
<1>2. ApplyRuntimeObservation /\ row' # row
  BY <1>1 DEF RestartDaemon
<1>3. pc = "apply" /\ RuntimeClearlyDead(probe, row[s], tickAt)
  BY <1>2 DEF ApplyRuntimeObservation
<1>4. row[s].state # "exited"
  BY DEF VerdictSound
<1>5. tickAt - row[s].lastAt > Window
  BY <1>3, <1>4, BoundsAssumption
  DEF RuntimeClearlyDead, HasRecentActivity, TypeOK, Row
<1>6. row[s].lastAt < tickAt
  BY <1>5, BoundsAssumption DEF TypeOK, Row
<1> QED
  BY <1>3, <1>6 DEF VerdictSound, RuntimeClearlyDead, TypeOK, Row

\* The reaper's verdict, reported after the probe, after the listing and after
\* the clock was read, never ends a launch whose pane exists: a kill and
\* relaunch in between is protected by the activity time MarkSpawned stamps, a
\* failed probe by the reducer's guard.
THEOREM ReaperIsSafe == Spec => ReaperKillsOnlyDead
<1>1. Init => VerdictInv
  BY TypeInit, VerdictInit DEF VerdictInv
<1>2. VerdictInv /\ [Next]_vars => VerdictInv'
  BY TypeNext, VerdictNext DEF VerdictInv
<1>3. VerdictInv /\ [Next]_vars =>
        [\A s \in Session :
           probing = s /\ probing' = NoSession
             /\ ~row[s].terminated /\ row'[s].terminated
           => pane[s] = "none"]_vars
  BY ReaperStepKillsOnlyDead
<1> QED
  BY <1>1, <1>2, <1>3, PTL DEF Spec, ReaperKillsOnlyDead

-----------------------------------------------------------------------------
(* No tool traffic clears the block of a tracked dialog.                   *)

DialogInv == TypeOK /\ CandidateSound

\* A unique-name match that contains t is t.
LEMMA CandidateUnique ==
  ASSUME NEW inflight, NEW t \in inflight
  PROVE  BlockedCandidate(inflight, ToolName[t]) \in {NoTool, t}
<1>1. t \in SameName(inflight, ToolName[t])
  BY DEF SameName
<1>2. \A u \in inflight : SameName(inflight, ToolName[t]) = {u} => u = t
  BY <1>1
<1> QED
  BY <1>2 DEF BlockedCandidate

\* A signal that names no tool, or does not block, only keeps or drops the
\* candidate; one that does recomputes it from the in-flight set it leaves.
LEMMA NextCandidate ==
  ASSUME NEW f \in Flight, NEW cur, NEW sig \in Signal
  PROVE  LET g == NextFlight(f, cur, sig) IN
         /\ sig.state # "blocked" \/ sig.name = NoName =>
              g.candidate \in {NoTool, f.candidate}
         /\ sig.event # "" /\ sig.state = "blocked" /\ sig.name # NoName =>
              g.candidate = BlockedCandidate(g.inflight, sig.name)
<1> DEFINE h == TrackTool(f, sig)
<1>1. h \in Flight /\ h.candidate = f.candidate
  BY TrackToolTyped DEF TrackTool, Flight
<1> HIDE DEF h
<1>2. \A c : /\ [h EXCEPT !.candidate = c].candidate = c
             /\ [h EXCEPT !.candidate = c].inflight = h.inflight
  BY <1>1 DEF Flight
<1>3. NoFlight.candidate = NoTool
  BY DEF NoFlight
<1>4. NextFlight(f, cur, sig) =
        IF sig.event = "" THEN f
        ELSE IF sig.state = "blocked"
          THEN IF sig.name # NoName
                 THEN [h EXCEPT !.candidate = BlockedCandidate(h.inflight, sig.name)]
                 ELSE h
        ELSE IF sig.event \in TurnBoundaryEvents THEN NoFlight
        ELSE IF cur = "blocked" /\ AnswersDialog(f, sig)
          THEN [h EXCEPT !.candidate = NoTool]
        ELSE h
  BY DEF NextFlight, h
<1> QED
  BY <1>1, <1>2, <1>3, <1>4

\* The four conjuncts of CandidateSound for one session.
DialogSound(s) ==
  /\ heard[s] # "no" => dialog[s] # NoTool
  /\ dialog[s] # NoTool => phase[s][dialog[s]] = "open"
  /\ \A t \in Tool, e \in PostToolUseEvents :
       PostToolUse(t, e) \in wire[s] => phase[s][t] = "done"
  /\ heard[s] = "tracked" => flight[s].candidate \in {NoTool, dialog[s]}

LEMMA DialogInit == Init => CandidateSound
  BY DEF Init, CandidateSound, NoFlight

LEMMA DialogSignal ==
  ASSUME DialogInv, NEW s \in Session, NEW sig \in wire[s], ApplyActivitySignal(s, sig)
  PROVE  DialogSound(s)'
<1> USE DEF DialogInv, agentVars
<1>1. sig \in Signal /\ sig \in SignalsOf(s) /\ flight[s] \in Flight
  BY DEF TypeOK
<1>2. DialogSound(s)
  BY DEF CandidateSound, DialogSound
<1>3. wire'[s] \subseteq wire[s] /\ dialog' = dialog /\ phase' = phase
  BY DEF ApplyActivitySignal, TypeOK
<1>4. CASE SignalAfterTermination(s)
  <2>1. flight'[s].candidate = NoTool /\ heard' = heard
    BY <1>4 DEF SignalAfterTermination, TypeOK, NoFlight
  <2> QED
    BY <1>2, <1>3, <2>1 DEF DialogSound
<1>5. CASE SignalNotWritten(s, sig) \/ SignalWritten(s, sig)
  <2> DEFINE f == NextFlight(flight[s], row[s].state, sig)
  <2>1. flight'[s] = f /\ heard'[s] = HeardAfter(s, sig)
    BY <1>5 DEF SignalNotWritten, SignalWritten, TypeOK
  <2>2. /\ sig.state # "blocked" \/ sig.name = NoName =>
             f.candidate \in {NoTool, flight[s].candidate}
        /\ sig.event # "" /\ sig.state = "blocked" /\ sig.name # NoName =>
             f.candidate = BlockedCandidate(f.inflight, sig.name)
    BY <1>1, NextCandidate
  <2> HIDE DEF f
  <2>3. heard'[s] # "no" => dialog[s] # NoTool
    BY <1>2, <2>1 DEF HeardAfter, DialogSound
  <2>4. ASSUME heard'[s] = "tracked"
        PROVE  f.candidate \in {NoTool, dialog[s]}
    <3>1. CASE sig.state # "blocked" \/ sig.name = NoName
      <4>1. heard[s] = "tracked"
        BY <2>1, <2>4, <3>1 DEF HeardAfter
      <4> QED
        BY <4>1, <1>2, <2>2, <3>1 DEF DialogSound
    <3>2. CASE sig.state = "blocked" /\ sig.name # NoName
      <4>1. /\ dialog[s] # NoTool
            /\ ToolName[dialog[s]] = sig.name
            /\ dialog[s] \in f.inflight
        BY <1>2, <2>1, <2>4, <3>2 DEF HeardAfter, DialogSound
      <4>2. s \notin Legacy
        BY <4>1 DEF TypeOK
      <4>3. sig.event # ""
        BY <1>1, <4>2, SignalVocabulary
      <4> QED
        BY <2>2, <3>2, <4>1, <4>3, CandidateUnique
    <3> QED
      BY <3>1, <3>2
  <2> QED
    BY <1>2, <1>3, <2>1, <2>3, <2>4 DEF DialogSound
<1> QED
  BY <1>4, <1>5 DEF ApplyActivitySignal

\* Only a tool's own post is a PostToolUse signal.
LEMMA PostsAreDistinct ==
  ASSUME NEW t \in Tool, NEW e \in PostToolUseEvents
  PROVE  /\ \A u \in Tool : PostToolUse(t, e) # PreToolUse(u)
         /\ \A u \in Tool : PostToolUse(t, e) # PermissionRequest(u)
         /\ \A u \in Tool, x \in PostToolUseEvents :
              PostToolUse(t, e) = PostToolUse(u, x) => t = u
         /\ \A x, a : x \notin PostToolUseEvents => PostToolUse(t, e) # Plain(x, a)
  BY DEF PostToolUse, PreToolUse, PermissionRequest, Plain, PostToolUseEvents

\* Neither is a turn report, a notice, a session end or an untagged report.
LEMMA ReportsAreNotPosts ==
  ASSUME NEW g \in TurnSignals \cup NoticeSignals \cup {DialogNotice, SessionEnd,
                     LegacyEnd} \cup LegacySignals
  PROVE  \A t \in Tool, e \in PostToolUseEvents : g # PostToolUse(t, e)
<1>1. PICK x, a : /\ g = Plain(x, a)
                  /\ x \in {"user-prompt-submit", "stop", "notification",
                            "session-end", ""}
  <2>1. CASE g \in LegacySignals
    BY <2>1 DEF LegacySignals
  <2>2. CASE g \notin LegacySignals
    BY <2>2 DEF TurnSignals, NoticeSignals, DialogNotice, SessionEnd, LegacyEnd
  <2> QED
    BY <2>1, <2>2
<1>2. x \notin PostToolUseEvents
  BY <1>1 DEF PostToolUseEvents
<1> QED
  BY <1>1, <1>2, PostsAreDistinct

\* An agent step either leaves a session's tools and dialog alone, posting
\* nothing that is a tool's post, or is one of the steps below.
LEMMA DialogAgent ==
  ASSUME DialogInv, NEW s \in Session, Agent(s)
  PROVE  DialogSound(s)'
<1> USE DEF DialogInv, agentUnchanged, daemonVars
<1>0. DialogSound(s) /\ dialog[s] \in Tool \cup {NoTool}
  BY DEF CandidateSound, DialogSound, TypeOK
<1>p. \A sigs : Post(s, sigs) => wire'[s] = wire[s] \cup sigs
  BY DEF Post, TypeOK
<1>f. flight' = flight
  BY DEF Agent, StartTool, OpenDialog, AnswerDialog, FinishTool, ReportTurn,
    ReportLegacy, AgentQuits, AgentCrashes, PaneGoes, AgentStops, LoseSignal
<1>1. ASSUME NEW t \in Tool, StartTool(s, t)
      PROVE  DialogSound(s)'
  <2>1. /\ wire'[s] = wire[s] \cup {PreToolUse(t)}
        /\ dialog' = dialog /\ heard' = heard
        /\ phase[s][t] = "unused"
        /\ \A u \in Tool : phase'[s][u] = IF u = t THEN "open" ELSE phase[s][u]
    BY <1>1, <1>p DEF StartTool, TypeOK
  <2> QED
    BY <1>0, <1>f, <2>1, PostsAreDistinct DEF DialogSound
<1>2. ASSUME NEW t \in Tool, OpenDialog(s, t)
      PROVE  DialogSound(s)'
  <2>1. /\ wire'[s] = wire[s] \cup {PermissionRequest(t)}
        /\ dialog'[s] = t /\ heard'[s] = "no" /\ phase' = phase
        /\ phase[s][t] = "open"
    BY <1>2, <1>p DEF OpenDialog, TypeOK
  <2> QED
    BY <1>0, <2>1, IdsAssumption, PostsAreDistinct DEF DialogSound
<1>3. CASE AnswerDialog(s)
  <2>1. /\ wire' = wire /\ dialog'[s] = NoTool /\ heard'[s] = "no"
        /\ dialog[s] # NoTool
        /\ \A u \in Tool : u # dialog[s] => phase'[s][u] = phase[s][u]
    BY <1>3, <1>0 DEF AnswerDialog, TypeOK
  <2> QED
    BY <1>0, <2>1 DEF DialogSound
<1>4. ASSUME NEW t \in Tool, FinishTool(s, t)
      PROVE  DialogSound(s)'
  <2>1. PICK e \in PostToolUseEvents :
          /\ wire'[s] = wire[s] \cup {PostToolUse(t, e)}
          /\ dialog' = dialog /\ heard' = heard /\ dialog[s] # t
          /\ \A u \in Tool : phase'[s][u] = IF u = t THEN "done" ELSE phase[s][u]
    BY <1>4, <1>p DEF FinishTool, TypeOK
  <2>2. \A u \in Tool, x \in PostToolUseEvents :
          PostToolUse(u, x) \in wire'[s] => PostToolUse(u, x) \in wire[s] \/ u = t
    BY <2>1, PostsAreDistinct
  <2> QED
    BY <1>0, <1>f, <2>1, <2>2 DEF DialogSound
<1>5. CASE ReportTurn(s) \/ ReportLegacy(s)
  <2>1. PICK g \in TurnSignals \cup NoticeSignals \cup {DialogNotice} \cup LegacySignals :
          wire'[s] = wire[s] \cup {g}
    BY <1>5, <1>p DEF ReportTurn, ReportLegacy
  <2>2. dialog' = dialog /\ heard' = heard /\ phase' = phase
    BY <1>5 DEF ReportTurn, ReportLegacy, agentVars
  <2> QED
    BY <1>0, <1>f, <2>1, <2>2, ReportsAreNotPosts DEF DialogSound
<1>6. CASE AgentQuits(s) \/ AgentCrashes(s) \/ PaneGoes(s)
  <2>1. PICK p, sigs : AgentStops(s, p, sigs) /\ sigs \subseteq {EndSignal(s)}
    BY <1>6 DEF AgentQuits, AgentCrashes, PaneGoes
  <2>2. /\ wire'[s] = wire[s] \cup sigs
        /\ dialog'[s] = NoTool /\ heard'[s] = "no"
        /\ \A u \in Tool : phase[s][u] = "done" => phase'[s][u] = "done"
    BY <2>1, <1>p DEF AgentStops, TypeOK
  <2>3. EndSignal(s) \in {SessionEnd, LegacyEnd}
    BY DEF EndSignal
  <2>4. \A u \in Tool, x \in PostToolUseEvents :
          PostToolUse(u, x) \in wire'[s] => PostToolUse(u, x) \in wire[s]
    BY <2>1, <2>2, <2>3, ReportsAreNotPosts
  <2> QED
    BY <1>0, <2>2, <2>4 DEF DialogSound
<1>7. ASSUME NEW sig \in wire[s], LoseSignal(s, sig)
      PROVE  DialogSound(s)'
  BY <1>0, <1>7, <1>f DEF LoseSignal, DialogSound, TypeOK, agentVars
<1> QED
  BY <1>1, <1>2, <1>3, <1>4, <1>5, <1>6, <1>7 DEF Agent

LEMMA DialogNext == DialogInv /\ [Next]_vars => CandidateSound'
<1> SUFFICES ASSUME DialogInv, [Next]_vars, NEW s \in Session
             PROVE  DialogSound(s)'
  BY DEF CandidateSound, DialogSound
<1> USE DEF DialogInv
<1>0. DialogSound(s)
  BY DEF CandidateSound, DialogSound
<1>1. CASE /\ wire'[s] = wire[s] /\ dialog'[s] = dialog[s] /\ phase'[s] = phase[s]
           /\ heard'[s] = heard[s] /\ flight'[s].candidate \in {NoTool, flight[s].candidate}
  BY <1>0, <1>1 DEF DialogSound
<1>2. ASSUME NEW r \in Session, Manager(r)
      PROVE  DialogSound(s)'
  <2>1. ASSUME NEW sig \in wire[r], ApplyActivitySignal(r, sig)
        PROVE  DialogSound(s)'
    <3>1. CASE r = s
      BY <2>1, <3>1, DialogSignal
    <3>2. CASE r # s
      BY <1>1, <2>1, <3>2 DEF ApplyActivitySignal, SignalAfterTermination,
        SignalNotWritten, SignalWritten, TypeOK, agentVars
    <3> QED
      BY <3>1, <3>2
  <2>2. CASE MarkTerminated(r)
    BY <1>1, <2>2 DEF MarkTerminated, ReleaseFlight, NoFlight, TypeOK, agentVars
  <2>3. CASE EmitNotification(r) \/ CreateRuntime(r) \/ MarkSpawned(r)
    BY <1>1, <2>3 DEF EmitNotification, CreateRuntime, MarkSpawned, agentVars
  <2> QED
    BY <1>2, <2>1, <2>2, <2>3 DEF Manager
<1>3. CASE Reaper
  <2>1. CASE ApplyRuntimeObservation
    BY <1>1, <2>1 DEF ApplyRuntimeObservation, ReleaseFlight, NoFlight, TypeOK, agentVars
  <2> QED
    BY <1>1, <1>3, <2>1 DEF Reaper, ReaperStart, ReaperList, ReaperProbe,
      ReaperProbeFails, Probed, ReaperDone, daemonVars, agentVars
<1>4. ASSUME NEW r \in Session, Agent(r)
      PROVE  DialogSound(s)'
  <2>1. CASE r = s
    BY <1>4, <2>1, DialogAgent
  <2>2. CASE r # s
    BY <1>1, <1>4, <2>2 DEF Agent, StartTool, OpenDialog, AnswerDialog, FinishTool,
      ReportTurn, ReportLegacy, AgentQuits, AgentCrashes, PaneGoes, AgentStops, LoseSignal,
      Post, agentUnchanged, daemonVars, agentVars, TypeOK
  <2> QED
    BY <2>1, <2>2
<1>5. CASE Advance \/ UNCHANGED vars
  BY <1>1, <1>5 DEF Advance, vars, daemonVars, agentVars
<1>6. CASE RestartDaemon
  BY <1>1, <1>6 DEF RestartDaemon, NoFlight, agentVars
<1> QED
  BY <1>2, <1>3, <1>4, <1>5, <1>6 DEF Next

\* Who can take a row out of blocked while consuming a tool-shaped post.
LEMMA ToolClearIsWritten ==
  ASSUME DialogInv, [Next]_vars, NEW s \in Session,
         NEW sig \in wire[s] \ wire'[s], row'[s] # row[s]
  PROVE  SignalWritten(s, sig)
<1> USE DEF DialogInv
<1>1. ASSUME NEW r \in Session, Agent(r) PROVE FALSE
  BY <1>1 DEF Agent, StartTool, OpenDialog, AnswerDialog, FinishTool, ReportTurn,
    ReportLegacy, AgentQuits, AgentCrashes, PaneGoes, AgentStops, LoseSignal, agentUnchanged
<1>2. ASSUME NEW r \in Session, NEW g \in wire[r], ApplyActivitySignal(r, g)
      PROVE  SignalWritten(s, sig)
  <2>1. r = s /\ g = sig
    BY <1>2 DEF ApplyActivitySignal, TypeOK
  <2> QED
    BY <1>2, <2>1 DEF ApplyActivitySignal, SignalAfterTermination, SignalNotWritten
<1> QED
  BY <1>1, <1>2 DEF Next, vars, Reaper, ReaperStart, ReaperList, ReaperProbe,
    ReaperProbeFails, Probed, ReaperDone, ApplyRuntimeObservation, Manager,
    EmitNotification, CreateRuntime, MarkSpawned, MarkTerminated, Advance, RestartDaemon

LEMMA TrackedStep ==
  ASSUME DialogInv, [Next]_vars, NEW s \in Session, heard[s] = "tracked"
  PROVE  ~ToolSignalClears(s)
<1> USE DEF DialogInv
<1> SUFFICES ASSUME NEW sig \in wire[s] \ wire'[s], sig.event \in ToolUseEvents,
                    row[s].state = "blocked", row'[s].state # "blocked"
             PROVE  FALSE
  BY DEF ToolSignalClears
<1>1. SignalWritten(s, sig)
  BY ToolClearIsWritten
<1>2. sig \in SignalsOf(s)
  BY DEF TypeOK
<1>3. row'[s].state = sig.state
  <2>1. row[s] \in Row /\ row'[s] = SignalRow(row[s], sig)
    BY <1>1 DEF SignalWritten, TypeOK
  <2> QED
    BY <2>1 DEF SignalRow, Row
<1>4. AnswersDialog(flight[s], sig)
  BY <1>1, <1>3 DEF SignalWritten, Suppressed, ToolUseEvents, TurnBoundaryEvents
<1>5. PICK t \in Tool, e \in PostToolUseEvents : sig = PostToolUse(t, e)
  BY <1>2, <1>4, SignalVocabulary DEF AnswersDialog
<1>6. t = dialog[s]
  BY <1>4, <1>5, IdsAssumption DEF AnswersDialog, PostToolUse, CandidateSound
<1>7. phase[s][t] = "done" /\ phase[s][t] = "open"
  BY <1>5, <1>6 DEF CandidateSound
<1> QED
  BY <1>7

\* While the tool behind the dialog on screen was in flight when the block was
\* recorded, no tool traffic clears the block: every candidate the manager can
\* then hold is the dialog's own tool, whose post cannot exist yet.
THEOREM DialogIsSafe == Spec => TrackedDialogHolds
<1>1. Init => DialogInv
  BY TypeInit, DialogInit DEF DialogInv
<1>2. DialogInv /\ [Next]_vars => DialogInv'
  BY TypeNext, DialogNext DEF DialogInv
<1>3. DialogInv /\ [Next]_vars =>
        [\A s \in Session : heard[s] = "tracked" => ~ToolSignalClears(s)]_vars
  BY TrackedStep
<1> QED
  BY <1>1, <1>2, <1>3, PTL DEF Spec, TrackedDialogHolds

---------------------------------------------------------------------------
(* PaneSend. *)

\* A call's step, as a record: what it may be, for the parts of the invariant.
Advanced(c) ==
  \E rec \in CallTypes :
    /\ calls' = [calls EXCEPT ![c] = rec]
    /\ rec.step \in {"settle", "enter", "again"} => rec.tries < MaxAttempts
    /\ rec.step \in {"new", "guard", "paste", "settle"} => rec.tries = 0
    /\ rec.step \in {"wait", "again", "enter"} => c \in Send
    /\ calls[c].step \notin {"new", "guard", "paste"} => rec.step \notin {"new", "guard", "paste"}

LEMMA CallAdvances ==
  ASSUME PaneTypeOK, TriesSound, NEW c \in Call,
         Asked(c) \/ Leaves(c) \/ Step(c) \/ Fails(c)
  PROVE  Advanced(c)
<1>1. PICK w : w = calls[c]  OBVIOUS
<1>2. /\ w \in CallTypes /\ w.tries \in Nat
      /\ w.step \in {"settle", "enter", "again"} => w.tries < MaxAttempts
      /\ w.step \in {"new", "guard", "paste", "settle"} => w.tries = 0
      /\ w.step \in {"wait", "again", "enter"} => c \in Send
  BY <1>1, PaneAssumption DEF PaneTypeOK, TriesSound, CallTypes
<1>3. ASSUME NEW s \in {"guard", "settle", "again"}, Goes(c, s),
             s = "guard" => w.step = "new",
             s = "settle" => w.step = "paste",
             s = "again" => w.step = "wait" /\ w.tries < MaxAttempts
      PROVE  Advanced(c)
  <2>1. PICK rec : rec = [w EXCEPT !.step = s]  OBVIOUS
  <2>2. calls' = [calls EXCEPT ![c] = rec]  BY <1>1, <1>3, <2>1 DEF Goes, PaneTypeOK
  <2>3. rec \in CallTypes /\ rec.step = s /\ rec.tries = w.tries
    BY <1>2, <2>1 DEF CallTypes
  <2>4. s = "again" => c \in Send  BY <1>2, <1>3
  <2>5. s = "settle" => rec.tries = 0 /\ 0 < MaxAttempts  BY <1>2, <1>3, <2>3, PaneAssumption
  <2>6. s = "guard" => rec.tries = 0  BY <1>2, <1>3, <2>3
  <2>7. calls[c].step \notin {"new", "guard", "paste"} => s = "again"  BY <1>1, <1>3
  <2> QED  BY <1>3, <2>2, <2>3, <2>4, <2>5, <2>6, <2>7 DEF Advanced
<1>4. ASSUME NEW how \in {"cut", "refused", "error", "active", "blocked", "spent", "fault"}, Ends(c, how)
      PROVE  Advanced(c)
  <2>1. PICK rec : rec = [w EXCEPT !.step = "done", !.result = how]  OBVIOUS
  <2>2. calls' = [calls EXCEPT ![c] = rec]  BY <1>1, <1>4, <2>1 DEF Ends, PaneTypeOK
  <2>3. rec \in CallTypes /\ rec.step = "done"  BY <1>2, <2>1 DEF CallTypes
  <2> QED  BY <2>2, <2>3 DEF Advanced
<1>5. CASE Asked(c)  BY <1>1, <1>3, <1>5 DEF Asked, At
<1>6. CASE Leaves(c)
  <2>1. PICK rec : rec = [w EXCEPT !.left = TRUE]  OBVIOUS
  <2>2. calls' = [calls EXCEPT ![c] = rec]  BY <1>1, <1>6, <2>1 DEF Leaves, PaneTypeOK
  <2>3. rec \in CallTypes /\ rec.step = w.step /\ rec.tries = w.tries
    BY <1>2, <2>1 DEF CallTypes
  <2> QED  BY <1>1, <1>2, <2>2, <2>3 DEF Advanced
<1>7. CASE Abandon(c)  BY <1>4, <1>7 DEF Abandon
<1>8. CASE Guarded(c)
  <2>1. CASE Refuses(c)  BY <1>4, <1>8, <2>1 DEF Guarded
  <2>2. CASE ~Refuses(c)
    <3>1. PICK s : s = IF At(c, "guard") THEN "paste" ELSE "enter"  OBVIOUS
    <3>3. PICK rec : rec = [w EXCEPT !.step = s]  OBVIOUS
    <3>4. calls' = [calls EXCEPT ![c] = rec]
      BY <1>1, <1>8, <2>2, <3>1, <3>3 DEF Guarded, Goes, PaneTypeOK
    <3>5. rec \in CallTypes /\ rec.step = s /\ rec.tries = w.tries
      BY <1>2, <3>1, <3>3 DEF CallTypes
    <3> QED  BY <1>1, <1>2, <1>8, <3>1, <3>4, <3>5, PaneAssumption DEF Guarded, At, Advanced
  <2> QED  BY <2>1, <2>2
<1>9. CASE Paste(c)  BY <1>1, <1>3, <1>4, <1>9 DEF Paste, At
<1>10. CASE Enter(c)
  <2>1. PICK s : s = IF c \in Send THEN "wait" ELSE "done"  OBVIOUS
  <2>2. PICK how : how = IF c \in Send THEN w.result ELSE "sent"  OBVIOUS
  <2>3. PICK rec : rec = [w EXCEPT !.step = s, !.tries = w.tries + 1, !.result = how]  OBVIOUS
  <2>4. calls' = [calls EXCEPT ![c] = rec]
    BY <1>1, <1>10, <2>1, <2>2, <2>3 DEF Enter, PaneTypeOK
  <2>5. w.tries + 1 \in 0..MaxAttempts  BY <1>1, <1>2, <1>10, PaneAssumption DEF Enter
  <2>6. how \in {"none", "cut", "refused", "error", "sent", "active", "blocked", "spent", "fault"}
    BY <1>2, <2>2 DEF CallTypes
  <2>7. rec \in CallTypes /\ rec.step = s
    BY <1>2, <2>1, <2>3, <2>5, <2>6 DEF CallTypes
  <2> QED  BY <2>1, <2>4, <2>7 DEF Advanced
<1>11. CASE Decided(c)
  <2>1. PICK how \in {"active", "blocked"} : how = activity  BY <1>11 DEF Decided
  <2>2. Ends(c, how)  BY <1>11, <2>1 DEF Decided
  <2> QED  BY <1>4, <2>2
<1>12. CASE TimesOut(c)
  <2>1. CASE Spent(c)  BY <1>4, <1>12, <2>1 DEF TimesOut
  <2>2. CASE ~Spent(c)
    <3>1. w.tries < MaxAttempts  BY <1>1, <1>2, <2>2, PaneAssumption DEF Spent
    <3> QED  BY <1>1, <1>3, <1>12, <2>2, <3>1 DEF TimesOut, At
  <2> QED  BY <2>1, <2>2
<1>13. CASE Fails(c)  BY <1>4, <1>13 DEF Fails
<1> QED  BY <1>5, <1>6, <1>7, <1>8, <1>9, <1>10, <1>11, <1>12, <1>13 DEF Step

\* A restart ends every call that is under way.
LEMMA RestartEnds ==
  ASSUME PaneTypeOK, Restart, NEW c \in Call
  PROVE  /\ calls'[c] \in CallTypes
         /\ \/ calls'[c] = calls[c] /\ calls[c].step \in {"new", "done"}
            \/ calls'[c].step = "done"
<1>1. PICK w : w = calls[c]  OBVIOUS
<1>2. w \in CallTypes  BY <1>1 DEF PaneTypeOK
<1>3. PICK rec : rec = [w EXCEPT !.step = "done", !.result = "fault"]  OBVIOUS
<1>4. rec \in CallTypes /\ rec.step = "done"  BY <1>2, <1>3 DEF CallTypes
<1>5. calls'[c] = IF w.step \in {"new", "done"} THEN w ELSE rec  BY <1>1, <1>3 DEF Restart
<1> QED  BY <1>1, <1>2, <1>4, <1>5

\* The calls, by the record each has become.
LEMMA CallsKept ==
  ASSUME PaneTypeOK, TriesSound, [PaneNext]_sendVars
  PROVE  /\ calls' \in [Call -> CallTypes] /\ TriesSound'
         /\ \A c \in Call : calls[c].step \notin {"new", "guard", "paste"}
                              => calls'[c].step \notin {"new", "guard", "paste"}
<1>1. CASE UNCHANGED calls  BY <1>1 DEF PaneTypeOK, TriesSound
<1>2. ASSUME NEW c \in Call, Asked(c) \/ Leaves(c) \/ Step(c) \/ Fails(c)
      PROVE  /\ calls' \in [Call -> CallTypes] /\ TriesSound'
             /\ \A d \in Call : calls[d].step \notin {"new", "guard", "paste"}
                                  => calls'[d].step \notin {"new", "guard", "paste"}
  <2>1. PICK rec \in CallTypes :
           /\ calls' = [calls EXCEPT ![c] = rec]
           /\ rec.step \in {"settle", "enter", "again"} => rec.tries < MaxAttempts
           /\ rec.step \in {"new", "guard", "paste", "settle"} => rec.tries = 0
           /\ rec.step \in {"wait", "again", "enter"} => c \in Send
           /\ calls[c].step \notin {"new", "guard", "paste"} => rec.step \notin {"new", "guard", "paste"}
    BY <1>2, CallAdvances DEF Advanced
  <2>2. calls'[c] = rec /\ \A d \in Call : d # c => calls'[d] = calls[d]
    BY <2>1 DEF PaneTypeOK
  <2> QED  BY <2>1, <2>2 DEF PaneTypeOK, TriesSound
<1>3. CASE Restart
  <2>1. \A c \in Call : /\ calls'[c] \in CallTypes
                        /\ \/ calls'[c] = calls[c] /\ calls[c].step \in {"new", "done"}
                           \/ calls'[c].step = "done"
    BY <1>3, RestartEnds
  <2>2. calls' \in [Call -> CallTypes]  BY <1>3, <2>1 DEF Restart
  <2>3. TriesSound'  BY <2>1 DEF TriesSound
  <2> QED  BY <2>1, <2>2, <2>3
<1>4. CASE AgentSide
  BY <1>1, <1>4 DEF AgentSide, UserTypes, UserEnters, OpensDialog, UserAnswers, TurnEnds, Quits, Move,
                    SignalArrives, SignalLost
<1> QED  BY <1>1, <1>2, <1>3, <1>4 DEF PaneNext, sendVars

\* What the input line holds is what it held, a message that is pasted, or the user's.
LEMMA DraftKept ==
  ASSUME PaneTypeOK, SubmittedOnce, [PaneNext]_sendVars,
         \A c \in Call : calls[c].step \notin {"new", "guard", "paste"}
                            => calls'[c].step \notin {"new", "guard", "paste"}
  PROVE  /\ SubmittedOnce'
         /\ draft' \subseteq Call \cup {User} /\ taken' \subseteq Call
<1> USE DEF PaneTypeOK, paneVars
<1>1. User \notin Call  BY PaneAssumption DEF User, Call
<1>2. CASE UNCHANGED <<draft, taken>>  BY <1>2 DEF SubmittedOnce
<1>3. CASE draft' = {} /\ taken' = taken  BY <1>3 DEF SubmittedOnce
<1>4. CASE draft' = {} /\ taken' = taken \cup (draft \ {User})
  BY <1>1, <1>4 DEF SubmittedOnce
<1>5. CASE draft' = draft \cup {User} /\ taken' = taken
  BY <1>1, <1>5 DEF SubmittedOnce
<1>6. ASSUME NEW c \in Call, At(c, "paste"), draft' = draft \cup {c}, taken' = taken,
             calls'[c].step \notin {"new", "guard", "paste"}
      PROVE  SubmittedOnce' /\ draft' \subseteq Call \cup {User} /\ taken' \subseteq Call
  BY <1>6 DEF SubmittedOnce, At
<1>7. ASSUME NEW c \in Call, Asked(c) \/ Leaves(c) \/ Abandon(c) \/ Guarded(c) \/ Decided(c) \/ TimesOut(c)
      PROVE  UNCHANGED <<draft, taken>>
  BY <1>7 DEF Asked, Leaves, Abandon, Guarded, Decided, TimesOut
<1>8. ASSUME NEW c \in Call, Paste(c) \/ Fails(c)
      PROVE  \/ UNCHANGED <<draft, taken>>
             \/ /\ At(c, "paste") /\ draft' = draft \cup {c} /\ taken' = taken
                /\ calls'[c].step \in {"settle", "done"}
  <2>1. calls[c] \in CallTypes  OBVIOUS
  <2>2. ASSUME NEW how, Ends(c, how) PROVE calls'[c].step = "done"
    BY <2>1, <2>2 DEF Ends, CallTypes
  <2>3. ASSUME Goes(c, "settle") PROVE calls'[c].step = "settle"
    BY <2>1, <2>3 DEF Goes, CallTypes
  <2>4. CASE Paste(c)
    BY <2>3, <2>4 DEF Paste, Typed
  <2>5. CASE Fails(c)
    BY <2>2, <2>5 DEF Fails, Typed
  <2> QED  BY <1>8, <2>4, <2>5
<1>9. ASSUME NEW c \in Call, Enter(c)
      PROVE  UNCHANGED <<draft, taken>> \/ (draft' = {} /\ taken' = taken \cup (draft \ {User}))
  BY <1>9 DEF Enter, Enters, Submit
<1>10. CASE Restart  BY <1>2, <1>10 DEF Restart
<1>11. CASE AgentSide
  <2>1. \/ UNCHANGED <<draft, taken>>
        \/ draft' = {} /\ taken' = taken
        \/ draft' = {} /\ taken' = taken \cup (draft \ {User})
        \/ draft' = draft \cup {User} /\ taken' = taken
    BY <1>11 DEF AgentSide, UserTypes, UserEnters, OpensDialog, UserAnswers, TurnEnds, Quits,
                 SignalArrives, SignalLost, Submit
  <2> QED  BY <1>2, <1>3, <1>4, <1>5, <2>1
<1>12. CASE UNCHANGED sendVars  BY <1>2, <1>12 DEF sendVars
<1> QED
  <2>1. ASSUME NEW c \in Call, Paste(c) \/ Fails(c)
        PROVE  SubmittedOnce' /\ draft' \subseteq Call \cup {User} /\ taken' \subseteq Call
    BY <1>2, <1>6, <1>8, <2>1
  <2>2. ASSUME NEW c \in Call, Asked(c) \/ Leaves(c) \/ Step(c) \/ Fails(c)
        PROVE  SubmittedOnce' /\ draft' \subseteq Call \cup {User} /\ taken' \subseteq Call
    BY <1>2, <1>4, <1>7, <1>9, <2>1, <2>2 DEF Step
  <2> QED  BY <1>10, <1>11, <1>12, <2>2 DEF PaneNext

\* The rest of the types.
LEMMA PaneKept ==
  ASSUME PaneTypeOK, [PaneNext]_sendVars
  PROVE  /\ activity' \in States /\ reports' \in Seq(States)
         /\ agent' \in {"prompt", "busy", "dialog", "shell"}
         /\ stray' \subseteq Call /\ lost' \in [Call -> Nat]
         /\ moves' \in 0..MaxMoves /\ faults' \in 0..MaxFaults
<1> USE PaneAssumption DEF PaneTypeOK, paneVars, Calm, Fault
<1>1. \A s \in States : Append(reports, s) \in Seq(States)  OBVIOUS
<1>2. {"active", "blocked", "idle", "waiting", "exited"} \subseteq States  BY DEF States
<1>3. ASSUME NEW c \in Call, Asked(c) \/ Leaves(c) \/ Abandon(c) \/ Guarded(c) \/ Decided(c) \/ TimesOut(c)
                               \/ Paste(c) \/ Fails(c)
      PROVE  UNCHANGED <<activity, agent, reports, lost, stray, moves>> /\ faults' \in 0..MaxFaults
  BY <1>3 DEF Asked, Leaves, Abandon, Guarded, Decided, TimesOut, Paste, Fails
<1>4. ASSUME NEW c \in Call, Enter(c)
      PROVE  /\ activity' = activity /\ reports' \in {reports, Append(reports, "active")}
             /\ agent' \in {agent, "busy"} /\ stray' \in {stray, stray \cup {c}}
             /\ lost' \in {lost, [lost EXCEPT ![c] = @ + 1]}
             /\ moves' = moves /\ faults' \in 0..MaxFaults
  BY <1>4 DEF Enter, Enters, Submit
<1>5. ASSUME NEW c \in Call, Enter(c) PROVE lost' \in [Call -> Nat]  BY <1>4, <1>5
<1>6. CASE Restart
  <2>1. faults' = faults + 1 /\ faults < MaxFaults  BY <1>6 DEF Restart
  <2>2. faults' \in 0..MaxFaults  BY <2>1
  <2>3. UNCHANGED <<activity, agent, reports, lost, stray, moves>>  BY <1>6 DEF Restart
  <2> QED  BY <2>2, <2>3
<1>7. CASE UserTypes \/ UserEnters \/ OpensDialog \/ UserAnswers \/ TurnEnds \/ Quits
  <2>1. activity' = activity /\ faults' = faults /\ moves' \in 0..MaxMoves /\ UNCHANGED <<lost, stray>>
    BY <1>7 DEF UserTypes, UserEnters, OpensDialog, UserAnswers, TurnEnds, Quits, Move, Submit
  <2>2. agent' \in {"prompt", "busy", "dialog", "shell"}
    BY <1>7 DEF UserTypes, UserEnters, OpensDialog, UserAnswers, TurnEnds, Quits, Submit
  <2>3. reports' = reports \/ \E s \in States : reports' = Append(reports, s)
    BY <1>2, <1>7
       DEF UserTypes, UserEnters, OpensDialog, UserAnswers, TurnEnds, Quits, Submit, Reports
  <2> QED  BY <1>1, <2>1, <2>2, <2>3
<1>8. CASE SignalArrives \/ SignalLost
  <2>1. reports # <<>> /\ reports' = Tail(reports)  BY <1>8 DEF SignalArrives, SignalLost
  <2>2. Tail(reports) \in Seq(States) /\ Head(reports) \in States  BY <2>1
  <2> QED  BY <1>8, <2>1, <2>2 DEF SignalArrives, SignalLost
<1>9. CASE UNCHANGED sendVars  BY <1>9 DEF sendVars
<1>10. ASSUME NEW c \in Call, Asked(c) \/ Leaves(c) \/ Step(c) \/ Fails(c)
       PROVE  /\ activity' \in States /\ reports' \in Seq(States)
              /\ agent' \in {"prompt", "busy", "dialog", "shell"}
              /\ stray' \subseteq Call /\ lost' \in [Call -> Nat]
              /\ moves' \in 0..MaxMoves /\ faults' \in 0..MaxFaults
  <2>1. CASE Enter(c)
    <3>1. Enter(c) /\ lost' \in [Call -> Nat]  BY <1>5, <2>1
    <3>2. /\ activity' = activity /\ reports' \in {reports, Append(reports, "active")}
          /\ agent' \in {agent, "busy"} /\ stray' \in {stray, stray \cup {c}}
          /\ moves' = moves /\ faults' \in 0..MaxFaults
      BY <1>4, <2>1
    <3>3. reports' \in Seq(States)  BY <1>1, <1>2, <3>2
    <3> QED  BY <3>1, <3>2, <3>3
  <2>2. CASE ~Enter(c)
    <3>1. UNCHANGED <<activity, agent, reports, lost, stray, moves>> /\ faults' \in 0..MaxFaults
      <4> HIDE DEF PaneTypeOK, paneVars, Calm, Fault
      <4> QED  BY <1>3, <1>10, <2>2 DEF Step
    <3> QED  BY <3>1
  <2> QED  BY <2>1, <2>2
<1> QED  BY <1>6, <1>7, <1>8, <1>9, <1>10 DEF PaneNext, AgentSide

PaneInv == PaneTypeOK /\ TriesSound /\ SubmittedOnce

\* The types; that no call presses Enter more often than sendConfirm.maxAttempts;
\* that only Send waits for a confirmation; and SubmittedOnce.
THEOREM PaneInvariant == PaneSpec => []PaneInv
<1>1. PaneInit => PaneInv
  <2> SUFFICES ASSUME PaneInit PROVE PaneInv
    OBVIOUS
  <2>1. New \in CallTypes  BY PaneAssumption DEF New, CallTypes
  <2>2. \A c \in Call : calls[c] = New  BY DEF PaneInit
  <2>3. PaneTypeOK
    BY <2>1, PaneAssumption DEF PaneInit, PaneTypeOK, States
  <2> QED
    BY <2>2, <2>3, PaneAssumption DEF PaneInit, PaneInv, TriesSound, SubmittedOnce, New
<1>2. PaneInv /\ [PaneNext]_sendVars => PaneInv'
  <2> SUFFICES ASSUME PaneInv, [PaneNext]_sendVars PROVE PaneInv'
    OBVIOUS
  <2>1. PaneTypeOK /\ TriesSound /\ SubmittedOnce  BY DEF PaneInv
  <2>2. /\ calls' \in [Call -> CallTypes] /\ TriesSound'
        /\ \A c \in Call : calls[c].step \notin {"new", "guard", "paste"}
                             => calls'[c].step \notin {"new", "guard", "paste"}
    BY <2>1, CallsKept
  <2>3. SubmittedOnce' /\ draft' \subseteq Call \cup {User} /\ taken' \subseteq Call
    BY <2>1, <2>2, DraftKept
  <2>4. PaneTypeOK'  BY <2>1, <2>2, <2>3, PaneKept DEF PaneTypeOK
  <2> QED  BY <2>2, <2>3, <2>4 DEF PaneInv
<1> QED  BY <1>1, <1>2, PTL DEF PaneSpec

\* However often its Enter is repeated, whatever fails and whoever leaves, a message gets
\* into the input line once and is submitted once (Send, confirmActive).
THEOREM MessageSubmittedOnce == PaneSpec => []SubmittedOnce
<1>1. PaneInv => SubmittedOnce  BY DEF PaneInv
<1> QED  BY <1>1, PaneInvariant, PTL

-----------------------------------------------------------------------------
(* What becomes of a message whose call has ended. *)

Fine(c) == Counted(c) /\ (c \in draft /\ At(c, "done") => Excused(c))

\* A call that goes on, and one that ends, keep their tries and whether the caller left.
LEMMA GoesEnds ==
  ASSUME PaneTypeOK, NEW c \in Call, NEW s, Goes(c, s) \/ Ends(c, s)
  PROVE  /\ calls'[c].tries = calls[c].tries /\ calls'[c].left = calls[c].left
         /\ Goes(c, s) => calls'[c].step = s
         /\ Ends(c, s) => calls'[c].step = "done" /\ calls'[c].result = s
<1>1. PICK w : w = calls[c]  OBVIOUS
<1>2. w \in CallTypes  BY <1>1 DEF PaneTypeOK
<1>3. CASE Goes(c, s)
  <2>1. PICK rec : rec = [w EXCEPT !.step = s]  OBVIOUS
  <2>2. calls' = [calls EXCEPT ![c] = rec]  BY <1>1, <1>3, <2>1 DEF Goes, PaneTypeOK
  <2>3. rec.step = s /\ rec.tries = w.tries /\ rec.left = w.left /\ rec.result = w.result
    BY <1>2, <2>1 DEF CallTypes
  <2>4. calls'[c] = rec  BY <2>2 DEF PaneTypeOK
  <2>5. Ends(c, s) => rec.step = "done" /\ rec.result = s
    <3> SUFFICES ASSUME Ends(c, s) PROVE rec.step = "done" /\ rec.result = s
      OBVIOUS
    <3>1. PICK end : end = [w EXCEPT !.step = "done", !.result = s]  OBVIOUS
    <3>2. calls' = [calls EXCEPT ![c] = end]  BY <1>1, <3>1 DEF Ends, PaneTypeOK
    <3>3. end.step = "done" /\ end.result = s  BY <1>2, <3>1 DEF CallTypes
    <3> QED  BY <2>4, <3>2, <3>3 DEF PaneTypeOK
  <2> QED  BY <1>1, <2>3, <2>4, <2>5
<1>4. CASE ~Goes(c, s)
  <2>1. PICK rec : rec = [w EXCEPT !.step = "done", !.result = s]  OBVIOUS
  <2>2. calls' = [calls EXCEPT ![c] = rec]  BY <1>1, <1>4, <2>1 DEF Ends, PaneTypeOK
  <2>3. rec.step = "done" /\ rec.tries = w.tries /\ rec.left = w.left /\ rec.result = s
    BY <1>2, <2>1 DEF CallTypes
  <2> QED  BY <1>1, <1>4, <2>2, <2>3 DEF PaneTypeOK
<1> QED  BY <1>3, <1>4

\* A shell does not become an agent again.
LEMMA ShellStays ==
  ASSUME [PaneNext]_sendVars, agent = "shell"
  PROVE  agent' = "shell"
<1> USE DEF paneVars
<1>1. ASSUME NEW c \in Call, Enter(c) PROVE agent' = "shell"
  BY <1>1 DEF Enter, Enters
<1>2. ASSUME NEW c \in Call, Asked(c) \/ Leaves(c) \/ Abandon(c) \/ Guarded(c) \/ Decided(c) \/ TimesOut(c)
                               \/ Paste(c) \/ Fails(c)
      PROVE  agent' = agent
  BY <1>2 DEF Asked, Leaves, Abandon, Guarded, Decided, TimesOut, Paste, Fails
<1>3. CASE Restart  BY <1>3 DEF Restart
<1>4. CASE AgentSide
  BY <1>4 DEF AgentSide, UserTypes, UserEnters, OpensDialog, UserAnswers, TurnEnds, Quits,
              SignalArrives, SignalLost
<1>5. CASE UNCHANGED sendVars  BY <1>5 DEF sendVars
<1> QED  BY <1>1, <1>2, <1>3, <1>4, <1>5 DEF PaneNext, Step

\* What leaves a call, its losses and its message alone.
LEMMA OthersFine ==
  ASSUME NEW c \in Send, Fine(c), calls'[c] = calls[c], lost'[c] = lost[c], stray \subseteq stray',
         c \in draft' => c \in draft, agent = "shell" => agent' = "shell"
  PROVE  Fine(c)'
  BY DEF Fine, Counted, Excused, At

\* Where an Enter goes, for the message of its own call and of the others.
LEMMA EnterCounts ==
  ASSUME PaneTypeOK, NEW c \in Call, Enter(c)
  PROVE  /\ calls'[c].tries = calls[c].tries + 1
         /\ calls'[c].step = IF c \in Send THEN "wait" ELSE "done"
         /\ draft' \subseteq draft /\ stray \subseteq stray'
         /\ c \in draft' \ stray' => lost'[c] = lost[c] + 1
         /\ lost'[c] \in {lost[c], lost[c] + 1}
         /\ \A d \in Call \ {c} : calls'[d] = calls[d] /\ lost'[d] = lost[d]
<1>1. PICK w : w = calls[c]  OBVIOUS
<1>2. w \in CallTypes  BY <1>1 DEF PaneTypeOK
<1>3. PICK s : s = IF c \in Send THEN "wait" ELSE "done"  OBVIOUS
<1>4. PICK how : how = IF c \in Send THEN w.result ELSE "sent"  OBVIOUS
<1>5. PICK rec : rec = [w EXCEPT !.step = s, !.tries = w.tries + 1, !.result = how]  OBVIOUS
<1>6. calls' = [calls EXCEPT ![c] = rec]
  BY <1>1, <1>3, <1>4, <1>5 DEF Enter, PaneTypeOK
<1>7. rec.tries = w.tries + 1 /\ rec.step = s  BY <1>2, <1>5 DEF CallTypes
<1>8. calls'[c] = rec /\ \A d \in Call \ {c} : calls'[d] = calls[d]  BY <1>6 DEF PaneTypeOK
<1>9. /\ draft' \subseteq draft /\ stray \subseteq stray'
      /\ \/ lost' = lost /\ c \notin draft' \ stray'
         \/ lost' = [lost EXCEPT ![c] = @ + 1]
  BY DEF Enter, Enters, Submit, paneVars
<1>10. /\ \A d \in Call \ {c} : lost'[d] = lost[d]
       /\ lost'[c] \in {lost[c], lost[c] + 1}
       /\ c \in draft' \ stray' => lost'[c] = lost[c] + 1
  BY <1>9 DEF PaneTypeOK
<1> QED  BY <1>1, <1>3, <1>7, <1>8, <1>9, <1>10

\* A step of a call, for its own message.
LEMMA CallFine ==
  ASSUME PaneTypeOK, TriesSound, SubmittedOnce, NEW c \in Send, Fine(c),
         Asked(c) \/ Leaves(c) \/ Step(c) \/ Fails(c)
  PROVE  Fine(c)'
<1>1. c \in Call  BY DEF Call
<1>2. /\ calls[c].tries \in Nat /\ lost[c] \in Nat /\ MaxAttempts \in Nat \ {0}
      /\ calls[c].step \in {"new", "guard", "paste", "settle", "enter", "wait", "again", "done"}
      /\ calls[c].left \in BOOLEAN
  BY <1>1, PaneAssumption DEF PaneTypeOK, CallTypes
<1>3. c \in draft => calls[c].step \notin {"new", "guard", "paste"}
  BY <1>1 DEF SubmittedOnce
<1>4. ASSUME ~At(c, "done"), UNCHANGED paneVars, NEW s \in {"guard", "paste", "enter", "again"}, Goes(c, s),
             s \in {"guard", "paste"} => c \notin draft,
             s \in {"enter", "again"} => calls[c].tries > 0
      PROVE  Fine(c)'
  <2>1. calls'[c].tries = calls[c].tries /\ calls'[c].step = s  BY <1>1, <1>4, GoesEnds
  <2> QED  BY <1>2, <1>4, <2>1 DEF Fine, Counted, At, paneVars
<1>5. ASSUME ~At(c, "done"), UNCHANGED paneVars, NEW how, Ends(c, how),
             c \in draft => /\ calls[c].tries > 0
                            /\ \/ calls[c].left \/ how \in {"active", "blocked", "refused", "fault"}
                               \/ calls[c].tries >= MaxAttempts
      PROVE  Fine(c)'
  <2>1. /\ calls'[c].tries = calls[c].tries /\ calls'[c].left = calls[c].left
        /\ calls'[c].step = "done" /\ calls'[c].result = how
    BY <1>1, <1>5, GoesEnds
  <2> QED  BY <1>2, <1>5, <2>1 DEF Fine, Counted, Excused, At, paneVars
<1>6. CASE Asked(c)  BY <1>3, <1>4, <1>6 DEF Asked, At
<1>7. CASE Leaves(c)
  <2>1. PICK w : w = calls[c]  OBVIOUS
  <2>2. PICK rec : rec = [w EXCEPT !.left = TRUE]  OBVIOUS
  <2>3. calls' = [calls EXCEPT ![c] = rec]  BY <1>1, <1>7, <2>1, <2>2 DEF Leaves, PaneTypeOK
  <2>4. rec.step = w.step /\ rec.tries = w.tries  BY <1>1, <2>1, <2>2 DEF PaneTypeOK, CallTypes
  <2>5. calls'[c] = rec  BY <1>1, <2>3 DEF PaneTypeOK
  <2> QED  BY <1>7, <2>1, <2>4, <2>5 DEF Leaves, Fine, Counted, At, paneVars
<1>8. CASE Abandon(c)
  <2>1. calls[c].left /\ calls[c].step # "settle"  BY <1>8 DEF Abandon, Heard, Cut
  <2>2. c \in draft => calls[c].tries > 0
    BY <1>2, <1>3, <1>8, <2>1 DEF Abandon, Fine, Counted
  <2> QED  BY <1>5, <1>8, <2>1, <2>2 DEF Abandon, At
<1>9. CASE Guarded(c)
  <2>1. CASE Refuses(c)
    BY <1>3, <1>5, <1>9, <2>1 DEF Guarded, Fine, Counted, At
  <2>2. CASE ~Refuses(c)
    <3>1. PICK w : w = calls[c]  OBVIOUS
    <3>2. PICK s : s = IF At(c, "guard") THEN "paste" ELSE "enter"  OBVIOUS
    <3>3. PICK rec : rec = [w EXCEPT !.step = s]  OBVIOUS
    <3>4. calls' = [calls EXCEPT ![c] = rec]
      BY <1>1, <1>9, <2>2, <3>1, <3>2, <3>3 DEF Guarded, Goes, PaneTypeOK
    <3>5. rec.step = s /\ rec.tries = w.tries  BY <1>1, <3>1, <3>3 DEF PaneTypeOK, CallTypes
    <3>6. calls'[c] = rec  BY <1>1, <3>4 DEF PaneTypeOK
    <3> QED  BY <1>2, <1>3, <1>9, <3>1, <3>2, <3>5, <3>6 DEF Guarded, Fine, Counted, At, paneVars
  <2> QED  BY <2>1, <2>2
<1>10. CASE Paste(c)
  <2>1. c \notin draft /\ calls[c].tries = 0 /\ lost[c] = 0
    BY <1>1, <1>2, <1>3, <1>10 DEF Paste, At, TriesSound, Fine, Counted
  <2>2. CASE activity = "exited"  BY <1>5, <1>10, <2>1, <2>2 DEF Paste, At, paneVars
  <2>3. CASE activity # "exited"
    <3>1. calls'[c].tries = calls[c].tries /\ calls'[c].step = "settle"
      BY <1>1, <1>10, <2>3, GoesEnds DEF Paste
    <3> QED  BY <1>10, <2>1, <3>1 DEF Paste, Fine, Counted, At
  <2> QED  BY <2>2, <2>3
<1>11. CASE Enter(c)
  <2>1. /\ calls'[c].tries = calls[c].tries + 1 /\ calls'[c].step = "wait"
        /\ draft' \subseteq draft /\ stray \subseteq stray'
        /\ c \in draft' \ stray' => lost'[c] = lost[c] + 1
        /\ lost'[c] \in {lost[c], lost[c] + 1}
    BY <1>1, <1>11, EnterCounts
  <2>2. ~At(c, "done")  BY <1>11 DEF Enter, At
  <2> QED  BY <1>2, <2>1, <2>2 DEF Fine, Counted, At
<1>12. CASE Decided(c)  BY <1>5, <1>12 DEF Decided, Fine, Counted, At
<1>13. CASE TimesOut(c)  BY <1>2, <1>4, <1>5, <1>13 DEF TimesOut, Spent, Fine, Counted, At
<1>14. CASE Fails(c)
  <2>1. /\ calls'[c].tries = calls[c].tries /\ calls'[c].step = "done" /\ calls'[c].result = "fault"
    BY <1>1, <1>14, GoesEnds DEF Fails
  <2> QED  BY <1>14, <2>1 DEF Fails, Fine, Counted, Excused, At
<1> QED  BY <1>6, <1>7, <1>8, <1>9, <1>10, <1>11, <1>12, <1>13, <1>14 DEF Step

LEMMA AllFine ==
  ASSUME PaneTypeOK, TriesSound, SubmittedOnce, [PaneNext]_sendVars, NEW c \in Send, Fine(c)
  PROVE  Fine(c)'
<1>1. c \in Call /\ c # User  BY PaneAssumption DEF Call, User
<1>2. agent = "shell" => agent' = "shell"  BY ShellStays
<1>3. ASSUME NEW d \in Call, d # c, Asked(d) \/ Leaves(d) \/ Step(d) \/ Fails(d)
      PROVE  /\ calls'[c] = calls[c] /\ lost'[c] = lost[c] /\ stray \subseteq stray'
             /\ c \in draft' => c \in draft
  <2>1. CASE Enter(d)  BY <1>1, <1>3, <2>1, EnterCounts
  <2>2. CASE ~Enter(d)
    <3>1. lost' = lost /\ stray' = stray /\ (draft' = draft \/ draft' = draft \cup {d})
      BY <1>3, <2>2 DEF Step, Asked, Leaves, Abandon, Guarded, Paste, Decided, TimesOut, Fails, Typed, paneVars
    <3>2. \E rec : calls' = [calls EXCEPT ![d] = rec]
      <4>1. PICK w : w = calls[d]  OBVIOUS
      <4>2. ASSUME NEW s, Goes(d, s) PROVE calls' = [calls EXCEPT ![d] = [w EXCEPT !.step = s]]
        BY <4>1, <4>2 DEF Goes, PaneTypeOK
      <4>3. ASSUME NEW s, Ends(d, s)
            PROVE  calls' = [calls EXCEPT ![d] = [w EXCEPT !.step = "done", !.result = s]]
        BY <4>1, <4>3 DEF Ends, PaneTypeOK
      <4>4. CASE Leaves(d)
        <5>1. calls' = [calls EXCEPT ![d] = [w EXCEPT !.left = TRUE]]
          BY <4>1, <4>4 DEF Leaves, PaneTypeOK
        <5> QED  BY <5>1
      <4>5. CASE Guarded(d) /\ ~Refuses(d)
        <5>1. PICK s : s = IF At(d, "guard") THEN "paste" ELSE "enter"  OBVIOUS
        <5>2. calls' = [calls EXCEPT ![d] = [w EXCEPT !.step = s]]
          BY <4>1, <4>5, <5>1 DEF Guarded, Goes, PaneTypeOK
        <5> QED  BY <5>2
      <4>6. CASE ~Leaves(d) /\ ~(Guarded(d) /\ ~Refuses(d))
        <5>1. \E s : Goes(d, s) \/ Ends(d, s)
          BY <1>3, <2>2, <4>6
             DEF Step, Asked, Abandon, Guarded, Paste, Decided, TimesOut, Fails
        <5> QED  BY <4>2, <4>3, <5>1
      <4> QED  BY <4>4, <4>5, <4>6
    <3> QED  BY <1>1, <1>3, <3>1, <3>2 DEF PaneTypeOK
  <2> QED  BY <2>1, <2>2
<1>4. CASE Restart
  <2>1. \/ calls'[c] = calls[c]
        \/ /\ calls'[c].step = "done" /\ calls'[c].result = "fault" /\ calls'[c].tries = calls[c].tries
    <3>1. PICK w : w = calls[c]  OBVIOUS
    <3>2. PICK rec : rec = [w EXCEPT !.step = "done", !.result = "fault"]  OBVIOUS
    <3>3. rec.step = "done" /\ rec.result = "fault" /\ rec.tries = w.tries
      BY <1>1, <3>1, <3>2 DEF PaneTypeOK, CallTypes
    <3>4. calls'[c] \in {w, rec}  BY <1>1, <1>4, <3>1, <3>2 DEF Restart
    <3> QED  BY <3>1, <3>3, <3>4
  <2>2. UNCHANGED paneVars  BY <1>4 DEF Restart
  <2>3. CASE calls'[c] = calls[c]  BY <1>2, <2>2, <2>3, OthersFine DEF paneVars
  <2>4. CASE calls'[c].step = "done" /\ calls'[c].result = "fault" /\ calls'[c].tries = calls[c].tries
    BY <2>2, <2>4 DEF Fine, Counted, Excused, At, paneVars
  <2> QED  BY <2>1, <2>3, <2>4
<1>5. CASE AgentSide
  <2>1. calls' = calls /\ lost' = lost /\ stray' = stray /\ draft' \subseteq draft \cup {User}
    BY <1>5 DEF AgentSide, UserTypes, UserEnters, OpensDialog, UserAnswers, TurnEnds, Quits,
                SignalArrives, SignalLost, Move, Submit
  <2> QED  BY <1>1, <1>2, <2>1, OthersFine
<1>6. CASE UNCHANGED sendVars  BY <1>2, <1>6, OthersFine DEF sendVars, paneVars
<1>7. ASSUME NEW d \in Call, Asked(d) \/ Leaves(d) \/ Step(d) \/ Fails(d)
      PROVE  Fine(c)'
  <2>1. CASE d = c  BY <1>7, <2>1, CallFine
  <2>2. CASE d # c  BY <1>2, <1>3, <1>7, <2>2, OthersFine
  <2> QED  BY <2>1, <2>2
<1> QED  BY <1>4, <1>5, <1>6, <1>7 DEF PaneNext

\* A message that is left in the input line when its call ends is one that the code gives up
\* on: its Enters were all lost, or one was and the row, a fault or the caller's departure
\* ended the call, or it went into a dialog or a shell (Send, confirmActive).
THEOREM NoMessageForgotten == PaneSpec => []Accounted
<1>1. PaneInit => \A c \in Send : Fine(c)
  <2> SUFFICES ASSUME PaneInit, NEW c \in Send PROVE Fine(c)
    OBVIOUS
  <2>1. c \in Call /\ calls[c] = New /\ draft = {} /\ lost[c] = 0  BY DEF PaneInit, Call
  <2> QED  BY <2>1 DEF Fine, Counted, At, New
<1>2. PaneInv /\ (\A c \in Send : Fine(c)) /\ [PaneNext]_sendVars => (\A c \in Send : Fine(c))'
  BY AllFine DEF PaneInv
<1>3. (\A c \in Send : Fine(c)) => Accounted  BY DEF Fine, Accounted
<1> QED  BY <1>1, <1>2, <1>3, PaneInvariant, PTL DEF PaneSpec
=============================================================================
