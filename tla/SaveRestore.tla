------------------------------ MODULE SaveRestore ------------------------------
(***************************************************************************)
(* How a session's uncommitted work and its worktree survive the end of    *)
(* its runtime: the boot-time Reconcile with its save and restore passes,  *)
(* and the Kill, Restore, RetireForReplacement and Cleanup requests        *)
(* (internal/session_manager/manager.go), over the git worktree adapter's  *)
(* capture and replay (internal/adapters/workspace/gitworktree).           *)
(*                                                                         *)
(* One session of a single-repository project: the passes handle sessions  *)
(* one after the other and independently.  Each action is one call the     *)
(* manager makes, so the daemon may stop between any two of them and       *)
(* requests, which take no lock, interleave.  The loopback server answers  *)
(* only after boot; the LAN listener of a paired phone, once enabled, is   *)
(* armed before the boot pass and answers through it.                      *)
(***************************************************************************)
EXTENDS Naturals

CONSTANTS
  Edit,         \* pieces of uncommitted work
  Request,      \* HTTP requests in progress at a time (bound)
  Orchestrator, \* is the session an orchestrator, which may be replaced?
  Faults,       \* may a call to git, tmux or the store fail?
  LanArmed      \* was the LAN listener left enabled: are requests answered during boot?

ASSUME FlagsAssumption ==
  Orchestrator \in BOOLEAN /\ Faults \in BOOLEAN /\ LanArmed \in BOOLEAN

VARIABLES
  \* Durable: the sessions row, the session_worktrees row, the repository.
  terminated,   \* is_terminated
  marker,       \* state of the session_worktrees row, "none" without a row
  markerRef,    \* does that row name a preserve ref?
  tree,         \* is the worktree registered and on disk?
  work,         \* the uncommitted work in the worktree
  ref,          \* the work in refs/ao/preserved/<session>; {} when there is no ref
  moved,        \* has the branch moved since the ref was made?
  pane,         \* the runtime: a tmux session outlives the daemon
  \* The daemon.
  boot,         \* "down", "serving", or the step of Reconcile
  held,         \* did the capture of this boot return a ref?
  req,          \* per request: the call it makes next
  \* History.
  killed,       \* what the last Kill told the user, "no" once relaunched for the user
  owed,         \* was the session running undisturbed when the daemon went
                \* down, and did nothing fail or intervene since?
  due           \* the uncommitted work it then had

rowVars  == <<terminated, marker, markerRef>>
gitVars  == <<tree, work, ref, moved>>
histVars == <<killed, owed, due>>
vars == <<rowVars, gitVars, pane, boot, held, req, histVars>>

-----------------------------------------------------------------------------
(* The calls, shared by boot and requests.                                 *)

Fails == Faults

\* lcm.MarkTerminated
MarkTerminated == terminated' = TRUE

\* runtime.Destroy is idempotent.
DestroyRuntime == pane' = "none"

\* runtime.Create: tmux refuses a session name that exists.
CreateRuntime == pane = "none" /\ pane' = "agent"

Dirty == tree /\ work # {}

\* workspace.Destroy without --force: refused for a dirty worktree.
DestroyWorkspace == ~Dirty /\ tree' = FALSE /\ UNCHANGED <<work, ref, moved>>

\* workspace.ForceDestroy
ForceDestroy == tree' = FALSE /\ work' = {} /\ UNCHANGED <<ref, moved>>

\* workspace.Restore keeps a registered worktree, adds an absent one clean.
RestoreWorkspace == tree' = TRUE /\ UNCHANGED <<work, ref, moved>>

\* workspace.StashUncommitted of a worktree that is there: a dirty one is
\* captured and the ref is pointed at the capture, whatever it held before.
StashUncommitted ==
  IF Dirty THEN ref' = work /\ moved' = FALSE /\ UNCHANGED <<tree, work>>
           ELSE UNCHANGED gitVars

\* Mutant: the delete is forgotten.
DeleteMarkerNot == UNCHANGED <<marker, markerRef>>

\* store.UpsertSessionWorktree, store.DeleteSessionWorktrees
UpsertMarker(state, named) == marker' = state /\ markerRef' = named
DeleteMarker == marker' = "none" /\ markerRef' = FALSE

-----------------------------------------------------------------------------
(* Reconcile.  Every failure is logged; the pass goes on.                  *)

Step(from, to) == boot = from /\ boot' = to

bootOnly == <<req, killed>>

StartDaemon ==
  /\ Step("down", "list")
  /\ UNCHANGED <<rowVars, gitVars, pane, held, req, histVars>>

\* A step of boot fails: what is owed is not owed any more.
StepFails(from, to) ==
  /\ Fails
  /\ Step(from, to)
  /\ owed' = FALSE
  /\ UNCHANGED <<rowVars, gitVars, pane, held, due, bootOnly>>

BootList ==
  \/ /\ IF terminated THEN Step("list", "reap") ELSE Step("list", "probe")
     /\ UNCHANGED <<rowVars, gitVars, pane, held, owed, due, bootOnly>>
  \/ StepFails("list", "serving")

\* reconcileLive: adopt a surviving runtime.
BootProbe ==
  \/ /\ IF pane = "agent" THEN Step("probe", "restore") ELSE Step("probe", "stash")
     /\ UNCHANGED <<rowVars, gitVars, pane, held, owed, due, bootOnly>>
  \/ StepFails("probe", "restore")

\* Mutants: the row is terminated before the marker is written; a failed
\* capture is logged and the teardown goes on.
BootStashTerminatesFirst ==
  /\ Step("stash", "marker")
  /\ StashUncommitted
  /\ held' = Dirty
  /\ MarkTerminated
  /\ UNCHANGED <<marker, markerRef, pane, owed, due, bootOnly>>

BootStashIgnoresFailure ==
  \/ /\ Step("stash", "marker")
     /\ StashUncommitted
     /\ held' = Dirty
     /\ UNCHANGED <<rowVars, pane, owed, due, bootOnly>>
  \/ StepFails("stash", "marker")

\* saveAndTeardownOne, step 1; an absent worktree is a failure of the capture.
BootStash ==
  \/ /\ tree
     /\ Step("stash", "marker")
     /\ StashUncommitted
     /\ held' = Dirty
     /\ UNCHANGED <<rowVars, pane, owed, due, bootOnly>>
  \/ /\ ~tree
     /\ Step("stash", "abandon")
     /\ UNCHANGED <<rowVars, gitVars, pane, held, owed, due, bootOnly>>
  \/ StepFails("stash", "abandon")

BootMarker ==
  \/ /\ Step("marker", "row")
     /\ UpsertMarker("removed", held)
     /\ UNCHANGED <<terminated, gitVars, pane, held, owed, due, bootOnly>>
  \/ StepFails("marker", "abandon")

BootRow ==
  \/ /\ Step("row", "tree")
     /\ MarkTerminated
     /\ UNCHANGED <<marker, markerRef, gitVars, pane, held, owed, due, bootOnly>>
  \/ StepFails("row", "abandon")

BootTree ==
  \/ /\ Step("tree", "restore")
     /\ ForceDestroy
     /\ UNCHANGED <<rowVars, pane, held, owed, due, bootOnly>>
  \/ StepFails("tree", "restore")

\* The save failed: terminate, and leave the worktree alone.
BootAbandon ==
  \/ /\ Step("abandon", "restore")
     /\ MarkTerminated
     /\ UNCHANGED <<marker, markerRef, gitVars, pane, held, owed, due, bootOnly>>
  \/ StepFails("abandon", "restore")

\* reconcileReap: a terminated session's runtime leaked.
BootReap ==
  \/ /\ Step("reap", "restore")
     /\ DestroyRuntime
     /\ UNCHANGED <<rowVars, gitVars, held, owed, due, bootOnly>>
  \/ StepFails("reap", "restore")

\* RestoreAll: relaunch what carries a restore marker.
BootRestore ==
  \/ /\ IF terminated /\ marker = "removed" THEN Step("restore", "add")
                                            ELSE Step("restore", "serving")
     /\ UNCHANGED <<rowVars, gitVars, pane, held, owed, due, bootOnly>>
  \/ StepFails("restore", "serving")

BootAdd ==
  \/ /\ IF markerRef THEN Step("add", "pick") ELSE Step("add", "create")
     /\ RestoreWorkspace
     /\ UNCHANGED <<rowVars, pane, held, owed, due, bootOnly>>
  \/ StepFails("add", "serving")

\* ApplyPreserved: cherry-pick --no-commit.  It is clean onto the commit the
\* capture was made from; onto a moved branch or a dirty worktree git may
\* refuse it or leave it half done, and the ref is kept.
BootPick ==
  /\ \/ tree /\ ref # {} /\ Step("pick", "drop_ref") /\ work' = work \cup ref
     \/ tree /\ ref # {} /\ (moved \/ work # {})
          /\ Step("pick", "create") /\ \E part \in SUBSET ref : work' = work \cup part
     \/ (ref = {} \/ ~tree) /\ Step("pick", "create") /\ work' = work
  /\ UNCHANGED <<rowVars, tree, ref, moved, pane, held, owed, due, bootOnly>>

\* The ref goes after a clean apply; a failure to delete it is ignored.
BootDropRef ==
  /\ Step("drop_ref", "create")
  /\ ref' \in {{}} \cup (IF Fails THEN {ref} ELSE {})
  /\ UNCHANGED <<rowVars, tree, work, moved, pane, held, owed, due, bootOnly>>

BootCreate ==
  \/ /\ Step("create", "spawned")
     /\ CreateRuntime
     /\ UNCHANGED <<rowVars, gitVars, held, owed, due, bootOnly>>
  \/ /\ pane = "agent"
     /\ Step("create", "serving")
     /\ UNCHANGED <<rowVars, gitVars, pane, held, owed, due, bootOnly>>
  \/ StepFails("create", "serving")

\* lcm.MarkSpawned; when it fails the runtime is taken down again.
BootSpawned ==
  \/ /\ Step("spawned", "prompt")
     /\ terminated' = FALSE
     /\ UNCHANGED <<marker, markerRef, gitVars, pane, held, owed, due, bootOnly>>
  \/ /\ Fails
     /\ Step("spawned", "serving")
     /\ DestroyRuntime
     /\ owed' = FALSE
     /\ UNCHANGED <<rowVars, gitVars, held, due, bootOnly>>

\* deliverAfterStartPrompt, for the harnesses that take the prompt that way.
BootPrompt ==
  \/ /\ Step("prompt", "active")
     /\ UNCHANGED <<rowVars, gitVars, pane, held, owed, due, bootOnly>>
  \/ /\ Fails
     /\ Step("prompt", "serving")
     /\ DestroyRuntime
     /\ terminated' \in {TRUE, terminated}
     /\ owed' = FALSE
     /\ UNCHANGED <<marker, markerRef, gitVars, held, due, bootOnly>>

\* The consumed marker: first marked active, then dropped.
BootActive ==
  /\ Step("active", "drop_marker")
  /\ \/ UpsertMarker("active", FALSE)
     \/ Fails /\ UNCHANGED <<marker, markerRef>>
  /\ UNCHANGED <<terminated, gitVars, pane, held, owed, due, bootOnly>>

BootDropMarker ==
  /\ Step("drop_marker", "serving")
  /\ DeleteMarker \/ (Fails /\ UNCHANGED <<marker, markerRef>>)
  /\ UNCHANGED <<terminated, gitVars, pane, held, owed, due, bootOnly>>

Boot ==
  \/ BootList \/ BootProbe \/ BootReap
  \/ BootStash \/ BootMarker \/ BootRow \/ BootTree \/ BootAbandon
  \/ BootRestore \/ BootAdd \/ BootPick \/ BootDropRef
  \/ BootCreate \/ BootSpawned \/ BootPrompt \/ BootActive \/ BootDropMarker

-----------------------------------------------------------------------------
(* Requests.                                                               *)

\* A request that meddles with a boot ends what the boot owes.
Call(r, from, to) ==
  /\ boot = "serving" \/ (LanArmed /\ boot # "down")
  /\ req[r] = from
  /\ req' = [req EXCEPT ![r] = to]
  /\ owed' = (owed /\ boot = "serving")

requestOnly == <<boot, held, due>>

\* The call fails and the request returns its error.
CallFails(r, from) ==
  /\ Fails
  /\ Call(r, from, "idle")
  /\ UNCHANGED <<rowVars, gitVars, pane, killed, requestOnly>>

\* Kill looks at no state but the row's metadata: a terminated session may be
\* killed again.
KillRuntime(r) ==
  \/ /\ Call(r, "idle", "kill_tree")
     /\ DestroyRuntime
     /\ UNCHANGED <<rowVars, gitVars, killed, requestOnly>>
  \/ CallFails(r, "idle")

\* A dirty worktree is preserved: Kill returns success, marker and row as they are.
KillTree(r) ==
  \/ /\ Call(r, "kill_tree", "kill_marker")
     /\ DestroyWorkspace
     /\ UNCHANGED <<rowVars, pane, killed, requestOnly>>
  \/ /\ Dirty
     /\ Call(r, "kill_tree", "idle")
     /\ killed' = "preserved"
     /\ UNCHANGED <<rowVars, gitVars, pane, requestOnly>>
  \/ CallFails(r, "kill_tree")

\* A failure to delete the marker is only logged.
KillMarker(r) ==
  /\ \/ Call(r, "kill_marker", "kill_row") /\ DeleteMarker
     \/ Fails /\ Call(r, "kill_marker", "kill_row_warned")
          /\ UNCHANGED <<marker, markerRef>>
  /\ UNCHANGED <<terminated, gitVars, pane, killed, requestOnly>>

KillRow(r) ==
  \/ /\ \/ Call(r, "kill_row", "idle") /\ killed' = "done"
        \/ Call(r, "kill_row_warned", "idle") /\ killed' = "warned"
     /\ MarkTerminated
     /\ UNCHANGED <<marker, markerRef, gitVars, pane, requestOnly>>
  \/ CallFails(r, "kill_row")
  \/ CallFails(r, "kill_row_warned")

\* Restore relaunches a terminated session in its worktree; the preserve ref
\* and the marker are not looked at.
RestoreTree(r) ==
  /\ terminated
  /\ Call(r, "idle", "restore_create")
  /\ RestoreWorkspace
  /\ UNCHANGED <<rowVars, pane, killed, requestOnly>>

RestoreCreate(r) ==
  \/ /\ Call(r, "restore_create", "restore_spawned")
     /\ CreateRuntime
     /\ UNCHANGED <<rowVars, gitVars, killed, requestOnly>>
  \/ /\ pane = "agent"
     /\ Call(r, "restore_create", "idle")
     /\ UNCHANGED <<rowVars, gitVars, pane, killed, requestOnly>>
  \/ CallFails(r, "restore_create")

RestoreSpawned(r) ==
  \/ /\ Call(r, "restore_spawned", "restore_prompt")
     /\ terminated' = FALSE
     /\ killed' = "no"
     /\ UNCHANGED <<marker, markerRef, gitVars, pane, requestOnly>>
  \/ /\ Fails
     /\ Call(r, "restore_spawned", "idle")
     /\ DestroyRuntime
     /\ UNCHANGED <<rowVars, gitVars, killed, requestOnly>>

RestorePrompt(r) ==
  \/ /\ Call(r, "restore_prompt", "idle")
     /\ UNCHANGED <<rowVars, gitVars, pane, killed, requestOnly>>
  \/ /\ Fails
     /\ Call(r, "restore_prompt", "idle")
     /\ DestroyRuntime
     /\ terminated' \in {TRUE, terminated}
     /\ UNCHANGED <<marker, markerRef, gitVars, killed, requestOnly>>

\* RetireForReplacement captures while the agent still runs; a stale worktree
\* is torn down without a capture.  Replacements of a project's orchestrator
\* take a lock.
RetireStep == {"retire_runtime", "retire_tree", "retire_marker", "retire_row"}

RetireStash(r) ==
  /\ Orchestrator
  /\ ~terminated
  /\ \A q \in Request : req[q] \notin RetireStep
  /\ Call(r, "idle", "retire_runtime")
  /\ StashUncommitted
  /\ UNCHANGED <<rowVars, pane, killed, requestOnly>>

RetireRuntime(r) ==
  \/ /\ Call(r, "retire_runtime", "retire_tree")
     /\ DestroyRuntime
     /\ UNCHANGED <<rowVars, gitVars, killed, requestOnly>>
  \/ CallFails(r, "retire_runtime")

RetireTree(r) ==
  \/ /\ Call(r, "retire_tree", "retire_marker")
     /\ ForceDestroy
     /\ UNCHANGED <<rowVars, pane, killed, requestOnly>>
  \/ CallFails(r, "retire_tree")

RetireMarker(r) ==
  \/ /\ Call(r, "retire_marker", "retire_row")
     /\ DeleteMarker
     /\ UNCHANGED <<terminated, gitVars, pane, killed, requestOnly>>
  \/ CallFails(r, "retire_marker")

RetireRow(r) ==
  \/ /\ Call(r, "retire_row", "idle")
     /\ MarkTerminated
     /\ killed' = "done"
     /\ UNCHANGED <<marker, markerRef, gitVars, pane, requestOnly>>
  \/ CallFails(r, "retire_row")

\* Cleanup of a session its listing showed terminated; the marker stays.
CleanupRuntime(r) ==
  /\ terminated
  /\ Call(r, "idle", "cleanup_tree")
  /\ DestroyRuntime \/ (Fails /\ UNCHANGED pane)
  /\ UNCHANGED <<rowVars, gitVars, killed, requestOnly>>

CleanupTree(r) ==
  \/ /\ Call(r, "cleanup_tree", "idle")
     /\ IF Dirty THEN UNCHANGED gitVars ELSE DestroyWorkspace
     /\ UNCHANGED <<rowVars, pane, killed, requestOnly>>
  \/ CallFails(r, "cleanup_tree")

Requests(r) ==
  \/ KillRuntime(r) \/ KillTree(r) \/ KillMarker(r) \/ KillRow(r)
  \/ RestoreTree(r) \/ RestoreCreate(r) \/ RestoreSpawned(r) \/ RestorePrompt(r)
  \/ RetireStash(r) \/ RetireRuntime(r) \/ RetireTree(r) \/ RetireMarker(r) \/ RetireRow(r)
  \/ CleanupRuntime(r) \/ CleanupTree(r)

-----------------------------------------------------------------------------
(* The environment.                                                        *)

\* The agent leaves a piece of work uncommitted.
AgentEdits ==
  /\ pane = "agent"
  /\ tree
  /\ \E e \in Edit \ work : work' = work \cup {e}
  /\ UNCHANGED <<rowVars, tree, ref, moved, pane, boot, held, req, histVars>>

\* It commits what it has, or throws it away itself.
AgentCommits ==
  /\ pane = "agent"
  /\ Dirty
  /\ work' = {}
  /\ moved' = TRUE
  /\ due' = due \ work
  /\ UNCHANGED <<rowVars, tree, ref, pane, boot, held, req, killed, owed>>

\* The branch of an absent worktree moves (a merge, a fetch, a rebase).
BranchMoves ==
  /\ ~tree
  /\ moved' = TRUE
  /\ owed' = FALSE
  /\ UNCHANGED <<rowVars, tree, work, ref, pane, boot, held, req, killed, due>>

\* The lifecycle manager ends the session: its agent's session-end hook, a
\* merged pull request, a closed issue, the reaper (module SessionLifecycle).
SessionEnds ==
  /\ boot # "down"
  /\ ~terminated
  /\ MarkTerminated
  /\ owed' = FALSE
  /\ UNCHANGED <<marker, markerRef, gitVars, pane, boot, held, req, killed, due>>

\* The tmux session goes by itself; with the daemon down, the host rebooted.
PaneDies ==
  /\ pane = "agent"
  /\ DestroyRuntime
  /\ owed' = (owed /\ boot = "down")
  /\ UNCHANGED <<rowVars, gitVars, boot, held, req, killed, due>>

Undisturbed ==
  /\ ~terminated /\ tree /\ killed = "no"
  /\ \A r \in Request : req[r] = "idle"

\* The daemon stops, gracefully or not: sessions are not torn down.
DaemonStops ==
  /\ boot # "down"
  /\ boot' = "down"
  /\ held' = FALSE
  /\ req' = [r \in Request |-> "idle"]
  /\ IF boot = "serving" THEN owed' = Undisturbed /\ due' = work
                         ELSE UNCHANGED <<owed, due>>
  /\ UNCHANGED <<rowVars, gitVars, pane, killed>>

Environment ==
  \/ AgentEdits \/ AgentCommits \/ BranchMoves
  \/ SessionEnds \/ PaneDies \/ DaemonStops \/ StartDaemon

\* A session just spawned.
Init ==
  /\ terminated = FALSE /\ marker = "none" /\ markerRef = FALSE
  /\ tree = TRUE /\ work = {} /\ ref = {} /\ moved = FALSE
  /\ pane = "agent"
  /\ boot = "serving" /\ held = FALSE /\ req = [r \in Request |-> "idle"]
  /\ killed = "no" /\ owed = FALSE /\ due = {}

Next == Boot \/ (\E r \in Request : Requests(r)) \/ Environment

Spec == Init /\ [][Next]_vars

-----------------------------------------------------------------------------
(* Properties.                                                             *)

BootStep == {"list", "probe", "reap", "stash", "marker", "row", "tree", "abandon",
             "restore", "add", "pick", "drop_ref", "create", "spawned", "prompt",
             "active", "drop_marker"}
RequestStep == {"idle", "kill_tree", "kill_marker", "kill_row", "kill_row_warned",
                "restore_create", "restore_spawned", "restore_prompt", "cleanup_tree"}
                 \cup RetireStep

\* Types; an absent worktree holds no work, and a row that names a ref is a
\* restore marker.
TypeOK ==
  /\ terminated \in BOOLEAN
  /\ marker \in {"none", "removed", "active"}
  /\ markerRef \in BOOLEAN
  /\ markerRef => marker = "removed"
  /\ tree \in BOOLEAN
  /\ work \in SUBSET Edit
  /\ ref \in SUBSET Edit
  /\ ~tree => work = {}
  /\ moved \in BOOLEAN
  /\ pane \in {"none", "agent"}
  /\ boot \in BootStep \cup {"down", "serving"}
  /\ held \in BOOLEAN
  /\ req \in [Request -> RequestStep]
  /\ killed \in {"no", "preserved", "warned", "done"}
  /\ owed \in BOOLEAN
  /\ due \in SUBSET Edit

\* Boot force-removes a worktree only when every piece of work in it is in the
\* preserve ref, however often boot was cut short before: capture, then destroy.
BootDestroysCaptured ==
  [][boot = "tree" /\ tree /\ ~tree' => work \subseteq ref]_vars

\* A session that was running undisturbed when the daemon or the host went
\* down is running again when the daemon serves, with all the uncommitted work
\* it had in its worktree, also when boot itself was interrupted and started
\* over at any step; unless a call failed or the session ended meanwhile.
BootRecovers ==
  [][boot # "serving" /\ boot' = "serving" /\ owed' =>
       pane' = "agent" /\ ~terminated' /\ tree' /\ due \subseteq work']_vars

\* Boot's relaunch of a terminated session.
BootRelaunches == boot = "spawned" /\ boot' = "prompt"

\* A session whose Kill ran to its end, or that a replacement retired, is
\* never relaunched by a boot, whatever markers earlier boots left behind.
CompleteKillIsFinal == [][BootRelaunches => killed # "done"]_vars

\* "Sessions the user killed before shutdown have no such row and are left
\* terminated" (RestoreAll): also those whose Kill succeeded with the dirty
\* workspace preserved.
KilledStaysDead == [][BootRelaunches => killed = "no"]_vars

-----------------------------------------------------------------------------
(* The inductive strengthenings DaemonProofs uses.                         *)

\* With the LAN listener off, boot answers no request.
BootIsAlone ==
  ~LanArmed /\ boot # "serving" => \A r \in Request : req[r] = "idle"

\* Through the save no agent runs, so the capture stays complete.
CaptureSound ==
  /\ boot \in {"stash", "marker", "row", "tree"} => pane = "none"
  /\ boot \in {"marker", "row", "tree"} => work \subseteq ref

\* A completed Kill left no marker, the save pass is not on a killed session,
\* and the relaunch is of a session that has its marker.
KillSound ==
  /\ killed = "done" => terminated /\ marker = "none"
  /\ boot \in {"probe", "stash", "marker", "row", "tree", "abandon", "prompt", "active",
              "drop_marker"} => killed # "done"
  /\ boot \in {"add", "pick", "drop_ref", "create", "spawned"} => marker = "removed"
  /\ \A r \in Request : req[r] \in {"kill_row", "retire_row"} => marker = "none"

\* What a boot owes is a live session whose worktree has the work due, or a
\* saved one: its row terminated with a restore marker, the work still in the
\* worktree, or else in a ref that the marker names and that applies cleanly.
OwedLive == ~terminated /\ tree /\ due \subseteq work
InTree == terminated /\ marker = "removed" /\ due \subseteq work
InRef ==
  /\ terminated /\ marker = "removed" /\ markerRef
  /\ pane = "none" /\ ~moved /\ work = {} /\ due \subseteq ref
OwedSaved == InTree \/ InRef

\* At each step of a boot cut short or not, while it owes the session.
OwedSound ==
  owed =>
    /\ boot # "abandon"
    /\ boot \in {"down", "list"} => OwedLive \/ OwedSaved
    /\ boot = "probe" => OwedLive
    /\ boot = "reap" => OwedSaved
    /\ boot = "restore" => (OwedLive /\ pane = "agent") \/ (OwedSaved /\ pane = "none")
    /\ boot \in {"stash", "marker", "row"} => OwedLive /\ pane = "none"
    /\ boot = "tree" => InTree /\ tree /\ pane = "none" /\ (held => markerRef)
    /\ boot \in {"marker", "row", "tree"} =>
         IF held THEN work \subseteq ref /\ ~moved ELSE work = {}
    /\ boot = "row" => marker = "removed" /\ (held => markerRef)
    /\ boot = "add" => OwedSaved /\ pane = "none"
    /\ boot = "pick" => OwedSaved /\ pane = "none" /\ tree
    /\ boot \in {"drop_ref", "create"} => InTree /\ pane = "none" /\ tree
    /\ boot = "spawned" => InTree /\ pane = "agent" /\ tree
    /\ boot \in {"prompt", "active", "drop_marker"} => OwedLive /\ pane = "agent"
=============================================================================
