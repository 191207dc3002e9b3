---------------------------- MODULE DaemonProcess ----------------------------
(***************************************************************************)
(* The daemon as a process: starts that look for a predecessor, the run    *)
(* file, the port and the supervisor socket, the watchdog that stops a     *)
(* daemon whose desktop app is gone, shutdown, `ao stop`, and the app that *)
(* attaches, spawns, replaces and leaves (internal/daemon,                 *)
(* daemon/supervisor, runfile, cli/stop.go, frontend/src/main.ts).         *)
(*                                                                         *)
(* A daemon is the number of its start and stands for its PID.  All share  *)
(* one run file, one configured port and one socket path.  One app runs at *)
(* a time.  Time is left out: a timer may elapse whenever it runs.         *)
(***************************************************************************)
EXTENDS Integers, FiniteSets

CONSTANTS
  MaxDaemons,  \* starts
  MaxOpens,    \* launches of the app, and starts its user asks for
  MaxEvents    \* faults, runs of ao stop, and daemons started without the app

ASSUME DaemonAssumption ==
  {MaxDaemons, MaxOpens, MaxEvents} \subseteq Nat

VARIABLES
  phase,      \* how far a daemon is
  owner,      \* AO_OWNER it was started with
  port,       \* it holds "main", the configured one, or "other", an ephemeral one
  seen,       \* daemon its start found in the run file
  file,       \* daemon the run file names
  sock,       \* daemon whose socket the path leads to
  listens,    \* daemons whose supervisor listener is open
  asked,      \* daemons asked over HTTP, or by their watchdog, to shut down
  cancelled,  \* daemons whose root context is cancelled
  wedged,     \* daemons that no longer answer
  aliens,     \* daemons whose PID another process has
  watch,      \* their watchdogs
  app,        \* the desktop app
  left,       \* daemons an app left behind when it quit
  stopper,    \* an ao stop
  opens,      \* what MaxOpens bounds
  events      \* what MaxEvents bounds

procs == <<phase, owner, port, seen>>
paths == <<file, sock, listens>>
flags == <<asked, cancelled, wedged, aliens>>
daemonVars == <<procs, paths, flags, watch, app, left, stopper, opens, events>>

Daemon == 1..MaxDaemons
None == 0
Trying == -1   \* a link that is retried
Booting == {"check", "probe", "boot"}   \* no signal handler, or maybe none
Running(d) == d # None /\ phase[d] \notin {"off", "refused", "gone"}
Alive(d) == Running(d) \/ d \in aliens
Answers(d, p) == phase[d] = "serve" /\ d \notin wedged /\ port[d] = p

\* `queue` is what waits for Accept: connections of which only the last may be the app's.
Asleep == [armed |-> FALSE, queue |-> 0, live |-> 0, eof |-> 0, arming |-> 0, timer |-> FALSE,
           loose |-> FALSE, old |-> 0, firing |-> FALSE]
Closed == [step |-> "closed", seen |-> None, child |-> None, fresh |-> FALSE, link |-> None]

DaemonInit ==
  /\ phase = [d \in Daemon |-> "off"]
  /\ owner = [d \in Daemon |-> "none"]
  /\ port = [d \in Daemon |-> "none"]
  /\ seen = [d \in Daemon |-> None]
  /\ file = None /\ sock = None /\ listens = {}
  /\ asked = {} /\ cancelled = {} /\ wedged = {} /\ aliens = {}
  /\ watch = [d \in Daemon |-> Asleep]
  /\ app = Closed /\ left = {}
  /\ stopper = [step |-> "done", seen |-> None]
  /\ opens = 0 /\ events = 0

Event == events < MaxEvents /\ events' = events + 1 /\ UNCHANGED opens

---------------------------------------------------------------------------
(* A daemon's main goroutine: Run. *)

Goes(d, from, to) == phase[d] = from /\ phase' = [phase EXCEPT ![d] = to]
DaemonOnly == UNCHANGED <<owner, watch, app, left, stopper, opens, events>>

\* Starts are taken in order: numbers carry no meaning.
Launch(d, o) ==
  /\ \A e \in Daemon : e < d <=> phase[e] # "off"
  /\ Goes(d, "off", "check")
  /\ owner' = [owner EXCEPT ![d] = o]

\* Someone runs "ao daemon".
StartHeadless(d) ==
  /\ Event /\ Launch(d, "none")
  /\ UNCHANGED <<port, seen, paths, flags, watch, app, left, stopper>>

\* No run file, or one of a dead process: safe to proceed.
CheckStale(d) ==
  /\ Goes(d, "check", IF Alive(file) THEN "probe" ELSE "boot")
  /\ seen' = [seen EXCEPT ![d] = IF Alive(file) THEN file ELSE None]
  /\ UNCHANGED <<port, paths, flags>> /\ DaemonOnly

\* Mutant: a live PID is taken for a daemon.
HasProcess(d) == Alive(d)

\* runFileOwnerServing
Serves(d) == d # None /\ Answers(d, port[d])

Refuse(d) ==
  /\ Serves(seen[d]) /\ Goes(d, "probe", "refused")
  /\ seen' = [seen EXCEPT ![d] = None]
  /\ app' = [app EXCEPT !.child = IF @ = d THEN None ELSE @]
  /\ UNCHANGED <<owner, port, paths, flags, watch, left, stopper, opens, events>>

Proceed(d) ==
  /\ ~Serves(seen[d]) /\ Goes(d, "probe", "boot")
  /\ seen' = [seen EXCEPT ![d] = None]
  /\ UNCHANGED <<port, paths, flags>> /\ DaemonOnly

Holds(d) == port[d] = "main" /\ phase[d] \in {"bound", "serve"}

\* The configured port, or an ephemeral one if it is taken.
Bind(d) ==
  /\ Goes(d, "boot", "bound")
  /\ port' = [port EXCEPT ![d] = IF \E e \in Daemon : Holds(e) THEN "other" ELSE "main"]
  /\ UNCHANGED <<seen, paths, flags>> /\ DaemonOnly

\* After Reconcile: whatever is at the socket path is removed, a failure leaves the daemon
\* without a watchdog, and the run file is written over.
Publish(d) ==
  /\ Goes(d, "bound", "serve")
  /\ \/ sock' = d /\ listens' = listens \cup {d}
     \/ sock' = None /\ UNCHANGED listens
  /\ file' = d
  /\ app' = [app EXCEPT !.fresh = app.step = "spawned"]
  /\ UNCHANGED <<owner, port, seen, flags, watch, left, stopper, opens, events>>

BeginDrain(d) ==
  /\ d \in asked \cup cancelled
  /\ Goes(d, "serve", "drain")
  /\ UNCHANGED <<port, seen, paths, flags>> /\ DaemonOnly

\* Run returns, and stop() cancels what still runs.
Returned(d) == cancelled' = cancelled \cup {d} /\ UNCHANGED <<asked, wedged, aliens>>

\* RemoveIfOwned reads ...
DrainEnds(d) ==
  /\ \/ file = d /\ Goes(d, "drain", "unlink") /\ UNCHANGED flags
     \/ file # d /\ Goes(d, "drain", "left") /\ Returned(d)
  /\ UNCHANGED <<port, seen, paths>> /\ DaemonOnly

\* ... and removes.
RemoveOwned(d) ==
  /\ Goes(d, "unlink", "left") /\ Returned(d)
  /\ file' = None
  /\ UNCHANGED <<port, seen, sock, listens>> /\ DaemonOnly

\* What is left of a process is what it stored.
Ends(d) ==
  /\ phase' = [phase EXCEPT ![d] = "gone"]
  /\ listens' = listens \ {d} /\ asked' = asked \ {d}
  /\ cancelled' = cancelled \ {d} /\ wedged' = wedged \ {d} /\ left' = left \ {d}
  /\ watch' = [watch EXCEPT ![d] = Asleep]
  /\ app' = [app EXCEPT !.link = IF @ = d THEN Trying ELSE @,
                        !.child = IF @ = d THEN None ELSE @]
  /\ UNCHANGED <<owner, port, seen, file, sock, stopper>>

Exit(d) == phase[d] = "left" /\ Ends(d) /\ UNCHANGED <<aliens, opens, events>>

Main(d) ==
  \/ CheckStale(d) \/ Refuse(d) \/ Proceed(d) \/ Bind(d) \/ Publish(d)
  \/ BeginDrain(d) \/ DrainEnds(d) \/ RemoveOwned(d) \/ Exit(d)

\* Its run file stays, and its PID may soon name another process.
Crash(d) == Event /\ Running(d) /\ Ends(d) /\ aliens' \in {aliens, aliens \cup {d}}

Wedge(d) ==
  /\ Event /\ phase[d] = "serve" /\ wedged' = wedged \cup {d}
  /\ UNCHANGED <<procs, paths, asked, cancelled, aliens, watch, app, left, stopper>>

---------------------------------------------------------------------------
(* The watchdog's goroutines. *)

WatchOnly == UNCHANGED <<procs, paths, flags, app, left, stopper, opens, events>>

\* Mutant: the count is read before it goes down.
WatchConnEarly(d) ==
  LET w == watch[d] IN
  /\ w.live > 0 /\ w.eof > 0
  /\ watch' = [watch EXCEPT ![d] =
       [w EXCEPT !.live = @ - 1, !.eof = @ - 1,
                 !.arming = @ + IF w.armed /\ w.live = 0 THEN 1 ELSE 0]]
  /\ WatchOnly

\* watchConn reads the end of a connection, counts down and unlocks.
WatchConn(d) ==
  LET w == watch[d] IN
  /\ w.live > 0 /\ w.eof > 0
  /\ watch' = [watch EXCEPT ![d] =
       [w EXCEPT !.live = @ - 1, !.eof = @ - 1,
                 !.arming = @ + IF w.armed /\ w.live = 1 THEN 1 ELSE 0]]
  /\ WatchOnly

\* A timer that was pending runs on, and nothing can stop it.
ArmGrace(d) ==
  LET w == watch[d] IN
  /\ w.arming > 0
  /\ watch' = [watch EXCEPT ![d] =
       [w EXCEPT !.arming = @ - 1, !.timer = TRUE, !.loose = FALSE,
                 !.old = @ + (IF w.timer THEN 1 ELSE 0) + (IF w.loose THEN 1 ELSE 0)]]
  /\ WatchOnly

\* Mutant: a timer that was not stopped is believed.
ElapseBlind(d, w) ==
  /\ watch' = [watch EXCEPT ![d] = [w EXCEPT !.firing = TRUE]]
  /\ WatchOnly

\* The callback forgets the pending timer, its own or not, and counts.
Elapse(d, w) ==
  /\ watch' = [watch EXCEPT ![d] = [w EXCEPT !.firing = @ \/ w.live = 0]]
  /\ WatchOnly

TimerElapses(d) == watch[d].timer /\ Elapse(d, [watch[d] EXCEPT !.timer = FALSE])
LooseElapses(d) == watch[d].loose /\ Elapse(d, [watch[d] EXCEPT !.loose = FALSE])
OldElapses(d) ==
  LET w == watch[d] IN
  /\ w.old > 0
  /\ Elapse(d, [w EXCEPT !.old = @ - 1, !.timer = FALSE, !.loose = w.timer \/ w.loose])

\* fireOnce.Do(srv.RequestShutdown)
Fire(d) ==
  /\ watch[d].firing
  /\ watch' = [watch EXCEPT ![d].firing = FALSE]
  /\ asked' = asked \cup {d}
  /\ UNCHANGED <<procs, paths, cancelled, wedged, aliens, app, left, stopper, opens, events>>

\* The oldest connection made is taken, hung up or not, and counted under the lock: the
\* first arms the watchdog, and each stops the pending timer.
Accepted(w, ended) ==
  [w EXCEPT !.armed = TRUE, !.queue = @ - 1, !.live = @ + 1,
            !.eof = @ + IF ended THEN 1 ELSE 0,
            !.timer = FALSE, !.loose = FALSE, !.old = @ + IF w.loose THEN 1 ELSE 0]

\* Only the last connection made may still be the app's.
Accept(d) ==
  /\ watch[d].queue > 0
  /\ watch' = [watch EXCEPT ![d] = Accepted(@, app.link # d \/ @.queue > 1)]
  /\ WatchOnly

\* ctx is done: Close unlinks the path, whoever is bound to it by now, and drops the
\* connections nobody took.
CloseListener(d) ==
  /\ d \in listens \cap cancelled
  /\ listens' = listens \ {d} /\ sock' = None
  /\ watch' = [watch EXCEPT ![d].queue = 0]
  /\ app' = [app EXCEPT !.link = IF @ = d /\ watch[d].queue > 0 THEN Trying ELSE @]
  /\ UNCHANGED <<procs, file, flags, left, stopper, opens, events>>

Watchdog(d) ==
  \/ Accept(d) \/ WatchConn(d) \/ ArmGrace(d)
  \/ TimerElapses(d) \/ LooseElapses(d) \/ OldElapses(d) \/ Fire(d) \/ CloseListener(d)

---------------------------------------------------------------------------
(* The app. *)

\* SIGTERM: it kills a daemon that has no handler yet, and cancels the root context.
Signal(d) ==
  \/ /\ d # None /\ phase[d] \in Booting
     /\ phase' = [phase EXCEPT ![d] = "gone"] /\ UNCHANGED cancelled
  \/ /\ Running(d) /\ phase[d] \notin {"check", "probe"}
     /\ cancelled' = cancelled \cup {d} /\ UNCHANGED phase
  \/ ~Running(d) /\ UNCHANGED <<phase, cancelled>>

Quiet == UNCHANGED <<owner, port, seen, sock, listens, asked, wedged, aliens, stopper>>
AppOnly == UNCHANGED <<procs, paths, flags, watch, left, stopper, opens, events>>
AppAt(step) == app.step = step
\* A connection the daemon has taken.
Linked(d) == app.link = d /\ watch[d].queue = 0
\* The end of the app's connection: its reader sees it, if it has one yet.
Hangs == watch' = [d \in Daemon |-> IF Linked(d) THEN [watch[d] EXCEPT !.eof = @ + 1] ELSE watch[d]]

\* startDaemon, at launch or on request
AppStarts ==
  /\ opens < MaxOpens /\ opens' = opens + 1
  /\ AppAt("closed") \/ (AppAt("idle") /\ app.child = None)
  /\ app' = [app EXCEPT !.step = "read"]
  /\ UNCHANGED <<procs, paths, flags, watch, left, stopper, events>>

\* inspectExistingDaemon reads the run file ...
AppReads ==
  /\ AppAt("read")
  /\ app' = [app EXCEPT !.seen = IF Alive(file) THEN file ELSE None,
                        !.step = IF Alive(file) THEN "probe" ELSE "port"]
  /\ AppOnly

LinkFor(o) == IF o = "app" THEN Trying ELSE app.link
Relink(o) == IF o = "app" THEN Hangs ELSE UNCHANGED watch

\* ... and attaches if the daemon it names answers; shouldLinkOnAttach.
AppAttaches ==
  /\ AppAt("probe")
  /\ IF Serves(app.seen)
     THEN /\ app' = [app EXCEPT !.step = "idle", !.seen = None, !.link = LinkFor(owner[app.seen])]
          /\ Relink(owner[app.seen])
     ELSE app' = [app EXCEPT !.step = "port", !.seen = None] /\ UNCHANGED watch
  /\ UNCHANGED <<procs, paths, flags, left, stopper, opens, events>>

\* resolveDaemonFromPort
AppProbesPort ==
  /\ AppAt("port")
  /\ app' = [app EXCEPT !.step = IF \E d \in Daemon : Answers(d, "main") THEN "owner" ELSE "holder"]
  /\ AppOnly

\* The owner is read from the run file as it is by then.
AppReadsOwner ==
  LET o == IF file = None THEN "none" ELSE owner[file] IN
  /\ AppAt("owner")
  /\ app' = [app EXCEPT !.step = "idle", !.link = LinkFor(o)]
  /\ Relink(o)
  /\ UNCHANGED <<procs, paths, flags, left, stopper, opens, events>>

\* shouldReplacePortHolder: the recorded process lives, though it does not answer.
AppReplaces ==
  /\ AppAt("holder")
  /\ IF Alive(file)
     THEN Signal(file) /\ app' = [app EXCEPT !.step = "clear"]
     ELSE UNCHANGED <<phase, cancelled>> /\ app' = [app EXCEPT !.step = "spawn"]
  /\ Quiet /\ UNCHANGED <<file, watch, left, opens, events>>

\* The port is free, or 8 s are over.
AppClears ==
  /\ AppAt("clear")
  /\ file' = None
  /\ app' = [app EXCEPT !.step = "spawn"]
  /\ UNCHANGED <<procs, sock, listens, flags, watch, left, stopper, opens, events>>

AppSpawns ==
  /\ AppAt("spawn")
  /\ \E d \in Daemon :
       /\ Launch(d, "app")
       /\ app' = [app EXCEPT !.step = "spawned", !.child = d, !.fresh = FALSE]
  /\ UNCHANGED <<port, seen, paths, flags, watch, left, stopper, opens, events>>

\* reportBoundPort: the child's log line, or a run file written since.
AppConfirms ==
  /\ AppAt("spawned") /\ app.child # None
  /\ phase[app.child] = "serve" \/ (app.fresh /\ file # None)
  /\ app' = [app EXCEPT !.step = "idle", !.fresh = FALSE, !.link = Trying]
  /\ Hangs
  /\ UNCHANGED <<procs, paths, flags, left, stopper, opens, events>>

AppSeesExit ==
  /\ AppAt("spawned") /\ app.child = None
  /\ app' = [app EXCEPT !.step = "idle", !.fresh = FALSE]
  /\ AppOnly

\* connectSupervisor: the app is connected before the daemon takes the connection.
LinkConnects ==
  /\ app.link = Trying /\ sock \in listens
  /\ app' = [app EXCEPT !.link = sock]
  /\ watch' = [watch EXCEPT ![sock].queue = @ + 1]
  /\ UNCHANGED <<procs, paths, flags, left, stopper, opens, events>>

\* stopDaemon
AppStops ==
  /\ app.child # None
  /\ Signal(app.child) /\ Hangs
  /\ app' = [app EXCEPT !.step = "idle", !.fresh = FALSE, !.link = None,
                        !.child = IF phase'[@] = "gone" THEN None ELSE @]
  /\ Quiet /\ UNCHANGED <<file, left, opens, events>>

\* stopDaemon, while a start looks for a daemon: the start gives up.
AppAborts ==
  /\ app.child = None /\ app.step \in {"read", "probe", "port"}
  /\ app' = [app EXCEPT !.step = "idle", !.seen = None]
  /\ AppOnly

\* Mutant: a link that is being retried passes for one.
NoLink == app.link = None

\* !supervisorLink?.connected
Unlinked == app.link \in {None, Trying}

\* process.on("exit"): an unlinked child is told; a link is dropped by the system.
AppQuits ==
  /\ app.step # "closed"
  /\ IF Unlinked THEN Signal(app.child) ELSE UNCHANGED <<phase, cancelled>>
  /\ Hangs /\ app' = Closed
  /\ left' = left \cup (IF app.link \in {None, Trying, app.child} THEN {app.child} \ {None} ELSE {})
  /\ Quiet /\ UNCHANGED <<file, opens, events>>

AppCrashes ==
  /\ app.step # "closed" /\ Event
  /\ Hangs /\ app' = Closed
  /\ UNCHANGED <<procs, paths, flags, left, stopper>>

App ==
  \/ AppStarts \/ AppReads \/ AppAttaches \/ AppProbesPort \/ AppReadsOwner \/ AppReplaces
  \/ AppClears \/ AppSpawns \/ AppConfirms \/ AppSeesExit \/ LinkConnects
  \/ AppStops \/ AppAborts \/ AppQuits \/ AppCrashes

---------------------------------------------------------------------------
(* ao stop. *)

StopGoes(step) ==
  stopper' = [step |-> step, seen |-> IF step \in {"done", "stale"} THEN None ELSE stopper.seen]
StopOnly == UNCHANGED <<procs, sock, listens, cancelled, wedged, aliens, watch, app, left>>

\* inspectDaemon
StopReads ==
  /\ Event /\ stopper.step = "done"
  /\ stopper' = IF Alive(file) THEN [step |-> "probe", seen |-> file]
                ELSE [step |-> IF file = None THEN "done" ELSE "stale", seen |-> None]
  /\ UNCHANGED <<file, asked>> /\ StopOnly

\* Nobody answers: an error.  Another daemon does: stale.
StopProbes ==
  LET p == port[stopper.seen] IN
  /\ stopper.step = "probe"
  /\ StopGoes(IF Serves(stopper.seen) THEN "post"
              ELSE IF \E d \in Daemon : Answers(d, p) THEN "stale" ELSE "done")
  /\ UNCHANGED <<file, asked, opens, events>> /\ StopOnly

\* POST /shutdown, to whoever has the port by now
StopPosts ==
  LET heard == {d \in Daemon : Answers(d, port[stopper.seen])} IN
  /\ stopper.step = "post"
  /\ asked' = asked \cup heard
  /\ StopGoes(IF heard = {} THEN "done" ELSE "wait")
  /\ UNCHANGED <<file, opens, events>> /\ StopOnly

\* waitForStopped: the process is gone, and the run file is still its own.
StopWaits ==
  /\ stopper.step = "wait"
  /\ StopGoes(IF ~Alive(stopper.seen) /\ file = stopper.seen THEN "stale" ELSE "done")
  /\ UNCHANGED <<file, asked, opens, events>> /\ StopOnly

StopRemoves ==
  /\ stopper.step = "stale"
  /\ file' = None /\ StopGoes("done")
  /\ UNCHANGED <<asked, opens, events>> /\ StopOnly

Stop == StopReads \/ StopProbes \/ StopPosts \/ StopWaits \/ StopRemoves

---------------------------------------------------------------------------
DaemonNext ==
  \/ \E d \in Daemon :
       \/ StartHeadless(d) \/ Main(d) \/ Watchdog(d)
       \/ Crash(d) \/ Wedge(d)
  \/ App \/ Stop

DaemonSpec == DaemonInit /\ [][DaemonNext]_daemonVars

\* Every daemon's own goroutine goes on, and one or other of its watchdog's goroutines and
\* timers does.
WatchdogGoes(d) ==
  Accept(d) \/ WatchConn(d) \/ ArmGrace(d) \/ TimerElapses(d) \/ LooseElapses(d) \/ Fire(d)

FairDaemonSpec ==
  /\ DaemonSpec
  /\ \A d \in Daemon : WF_daemonVars(Main(d)) /\ WF_daemonVars(WatchdogGoes(d))

---------------------------------------------------------------------------
(* Properties. *)

\* Whatever run file a start finds, of a daemon that crashed, hangs, drains or has lent its
\* PID to another process, and whatever becomes of it meanwhile: a start does not give up for
\* nothing, a daemon serves in the end unless all of them crash or are stopped
\* (daemon/stale.go).
Serving == \E d \in Daemon : Answers(d, port[d])
StartServes ==
  (\E d \in Daemon : phase[d] \in Booting)
    ~> (Serving \/ \A d \in Daemon : phase[d] \in {"off", "gone"})

Unattended(d) == watch[d].armed /\ watch[d].live = 0 /\ Running(d)

\* Connections come and go between the two locks of a disconnect and while timers run out:
\* once the last one is counted, something is always left that will ask for the shutdown.
DisconnectNotLost ==
  \A d \in Daemon : Unattended(d) =>
    \/ d \in asked \/ watch[d].firing
    \/ watch[d].timer \/ watch[d].loose \/ watch[d].old > 0 \/ watch[d].arming > 0

\* No timer, however late or forgotten, takes an app for gone whose connection the daemon
\* has taken.
NoFalseAlarm ==
  [][\A d \in Daemon : ~watch[d].firing /\ watch'[d].firing => ~Linked(d)]_daemonVars

\* A daemon whose app hung up, and a child that an app left behind, stop, unless an app
\* comes back to them: whenever one is forsaken there is a time when none is
\* (supervisor.go:1-8, main.ts:1386-1401).
Forsaken(d) == Running(d) /\ app.link # d /\ (watch[d].armed \/ d \in left)
SomeForsaken == \E d \in Daemon : Forsaken(d)
ForsakenStops == SomeForsaken ~> ~SomeForsaken

---------------------------------------------------------------------------
(* What comments say and the code does not keep. *)

\* "headless daemons stay unlinked so they remain persistent" (main.ts:550)
HeadlessUnarmed == \A d \in Daemon : owner[d] = "none" => ~watch[d].armed

\* "A genuine peer AO daemon is ruled out upstream" (httpd/server.go:39)
OneDaemon == \A d, e \in Daemon : phase[d] = "serve" /\ phase[e] = "serve" => d = e

\* "Holding this connection keeps the daemon alive" (main.ts:544): not before it is taken.
LinkKeepsAlive ==
  [][\A d \in Daemon : ~watch[d].firing /\ watch'[d].firing => app.link # d]_daemonVars

\* The grace period starts at the last disconnect (supervisor.go:1-4).
GraceKept ==
  [][\A d \in Daemon : ~watch[d].firing /\ watch'[d].firing =>
       watch[d].arming = 0 /\ watch'[d].old = watch[d].old]_daemonVars

\* A daemon does not remove its successor's run file (runfile.go:96-98).
OwnFileRemoved == [][\A d \in Daemon : RemoveOwned(d) => file \in {None, d}]_daemonVars

\* Only a hung daemon is replaced (main.ts:731-739).
DaemonReplaced == [][AppAt("holder") /\ app'.step = "clear" => file \notin aliens]_daemonVars

\* Closing the app leaves no daemon of its own (main.ts:1394-1401).
AppOwnedStops ==
  \A d \in Daemon : (app.step = "closed" /\ owner[d] = "app")
                      ~> (phase[d] = "gone" \/ app.step # "closed")

---------------------------------------------------------------------------
(* The type invariant and the strengthenings that DaemonProofs uses. *)

DaemonOrNone == Daemon \cup {None}
Watches == [armed : BOOLEAN, queue : Nat, live : Nat, eof : Nat, arming : Nat,
            timer : BOOLEAN, loose : BOOLEAN, old : Nat, firing : BOOLEAN]

ProcessTypeOK ==
  /\ phase \in [Daemon -> {"off", "check", "probe", "boot", "bound", "serve", "drain", "unlink",
                           "left", "refused", "gone"}]
  /\ owner \in [Daemon -> {"none", "app"}]
  /\ port \in [Daemon -> {"none", "main", "other"}]
  /\ seen \in [Daemon -> DaemonOrNone]
PathTypeOK ==
  /\ file \in DaemonOrNone /\ sock \in DaemonOrNone
  /\ listens \subseteq Daemon /\ asked \subseteq Daemon /\ cancelled \subseteq Daemon
  /\ wedged \subseteq Daemon /\ aliens \subseteq Daemon /\ left \subseteq Daemon
AppTypeOK ==
  app \in [step : {"closed", "read", "probe", "port", "owner", "holder", "clear", "spawn", "spawned",
                   "idle"},
           seen : DaemonOrNone, child : DaemonOrNone, fresh : BOOLEAN,
           link : DaemonOrNone \cup {Trying}]
StopTypeOK ==
  /\ stopper \in [step : {"done", "probe", "post", "wait", "stale"}, seen : DaemonOrNone]
  /\ opens \in 0..MaxOpens /\ events \in 0..MaxEvents

WatchTypeOK == watch \in [Daemon -> Watches]
DaemonTypeOK == ProcessTypeOK /\ PathTypeOK /\ AppTypeOK /\ StopTypeOK /\ WatchTypeOK

\* Only a daemon that got as far as its listener can be connected to.
Served == {"serve", "drain", "unlink", "left"}
ListenSound ==
  /\ \A d \in listens : phase[d] \in Served
  /\ \A d \in Daemon : phase[d] \notin Served => watch[d] = Asleep
  /\ \A d \in Daemon : watch[d].queue > 0 => d \in listens

\* The count is the number of connections taken and not hung up, and of those that hung up
\* and were not yet counted out.
LinkSound ==
  \A d \in Daemon : watch[d].live = watch[d].eof + IF Linked(d) THEN 1 ELSE 0

WatchSound == ListenSound /\ LinkSound /\ DisconnectNotLost
=============================================================================
