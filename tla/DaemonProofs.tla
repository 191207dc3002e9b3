----------------------------- MODULE DaemonProofs -----------------------------
(***************************************************************************)
(* Proofs about the daemon's life: of SaveRestore, for every set of edits  *)
(* and every number of concurrent requests, its types, that boot destroys  *)
(* only what it captured and recovers what it owes, and that a completed   *)
(* kill is final; of DaemonProcess, for any number of starts, launches of  *)
(* the app and faults, its types, what the watchdog counts, that no        *)
(* disconnect is lost and that no timer takes an app for gone whose        *)
(* connection was taken.                                                   *)
(***************************************************************************)
EXTENDS SaveRestore, DaemonProcess, TLAPS


-----------------------------------------------------------------------------
(* Types.                                                                  *)

LEMMA TypeInit == Init => TypeOK
  BY DEF Init, TypeOK, RequestStep

\* The Boolean part of TypeOK; the solver wants it settled before the rest.
Flags ==
  /\ terminated \in BOOLEAN
  /\ markerRef \in BOOLEAN
  /\ tree \in BOOLEAN
  /\ moved \in BOOLEAN
  /\ held \in BOOLEAN
  /\ owed \in BOOLEAN

\* The steps of Reconcile touch no request; each writes what its name says.
LEMMA TypeBoot == TypeOK /\ Boot => TypeOK'
<1> SUFFICES ASSUME TypeOK, Boot PROVE TypeOK'
  OBVIOUS
<1> USE DEF TypeOK, Flags, Step, StepFails, BootStep, rowVars, gitVars, histVars, bootOnly
<1>1. CASE BootList \/ BootProbe \/ BootReap
  <2>1. Flags'
    BY <1>1 DEF BootList, BootProbe, BootReap, DestroyRuntime
  <2> QED
    BY <1>1, <2>1 DEF BootList, BootProbe, BootReap, DestroyRuntime
<1>2. CASE BootStash
  <2>1. Flags'
    BY <1>2 DEF BootStash, StashUncommitted, Dirty
  <2> QED
    BY <1>2, <2>1 DEF BootStash, StashUncommitted, Dirty
<1>3. CASE BootMarker \/ BootRow
  <2>1. Flags'
    BY <1>3 DEF BootMarker, BootRow, MarkTerminated, UpsertMarker
  <2> QED
    BY <1>3, <2>1 DEF BootMarker, BootRow, MarkTerminated, UpsertMarker
<1>4. CASE BootTree \/ BootAbandon
  <2>1. Flags'
    BY <1>4 DEF BootTree, BootAbandon, MarkTerminated, ForceDestroy
  <2> QED
    BY <1>4, <2>1 DEF BootTree, BootAbandon, MarkTerminated, ForceDestroy
<1>5. CASE BootRestore \/ BootAdd
  <2>1. Flags'
    BY <1>5 DEF BootRestore, BootAdd, RestoreWorkspace
  <2> QED
    BY <1>5, <2>1 DEF BootRestore, BootAdd, RestoreWorkspace
<1>6. CASE BootPick
  <2>1. Flags'
    BY <1>6 DEF BootPick
  <2> QED
    BY <1>6, <2>1 DEF BootPick
<1>7. CASE BootDropRef
  <2>1. Flags'
    BY <1>7 DEF BootDropRef
  <2> QED
    BY <1>7, <2>1 DEF BootDropRef
<1>8. CASE BootCreate \/ BootSpawned \/ BootPrompt
  <2>1. Flags'
    BY <1>8 DEF BootCreate, BootSpawned, BootPrompt, CreateRuntime, DestroyRuntime
  <2> QED
    BY <1>8, <2>1 DEF BootCreate, BootSpawned, BootPrompt, CreateRuntime, DestroyRuntime
<1>9. CASE BootActive \/ BootDropMarker
  <2>1. Flags'
    BY <1>9 DEF BootActive, BootDropMarker, UpsertMarker, DeleteMarker
  <2> QED
    BY <1>9, <2>1 DEF BootActive, BootDropMarker, UpsertMarker, DeleteMarker
<1> QED
  BY <1>1, <1>2, <1>3, <1>4, <1>5, <1>6, <1>7, <1>8, <1>9 DEF Boot

LEMMA TypeRequests ==
  ASSUME TypeOK, NEW r \in Request, Requests(r)
  PROVE  TypeOK'
<1> USE DEF TypeOK, Flags, RequestStep, RetireStep, Call, CallFails, rowVars, gitVars, histVars,
      requestOnly
<1>1. CASE KillRuntime(r) \/ KillTree(r)
  <2>1. Flags'
    BY <1>1 DEF KillRuntime, KillTree, DestroyRuntime, DestroyWorkspace, Dirty
  <2> QED
    BY <1>1, <2>1 DEF KillRuntime, KillTree, DestroyRuntime, DestroyWorkspace, Dirty
<1>2. CASE KillMarker(r) \/ KillRow(r)
  <2>1. Flags'
    BY <1>2 DEF KillMarker, KillRow, MarkTerminated, DeleteMarker
  <2> QED
    BY <1>2, <2>1 DEF KillMarker, KillRow, MarkTerminated, DeleteMarker
<1>3. CASE RestoreTree(r) \/ RestoreCreate(r)
  <2>1. Flags'
    BY <1>3 DEF RestoreTree, RestoreCreate, RestoreWorkspace, CreateRuntime
  <2> QED
    BY <1>3, <2>1 DEF RestoreTree, RestoreCreate, RestoreWorkspace, CreateRuntime
<1>4. CASE RestoreSpawned(r) \/ RestorePrompt(r)
  <2>1. Flags'
    BY <1>4 DEF RestoreSpawned, RestorePrompt, DestroyRuntime
  <2> QED
    BY <1>4, <2>1 DEF RestoreSpawned, RestorePrompt, DestroyRuntime
<1>5. CASE RetireStash(r) \/ RetireRuntime(r)
  <2>1. Flags'
    BY <1>5 DEF RetireStash, RetireRuntime, StashUncommitted, DestroyRuntime, Dirty
  <2> QED
    BY <1>5, <2>1 DEF RetireStash, RetireRuntime, StashUncommitted, DestroyRuntime, Dirty
<1>6. CASE RetireTree(r) \/ RetireMarker(r) \/ RetireRow(r)
  <2>1. Flags'
    BY <1>6 DEF RetireTree, RetireMarker, RetireRow, ForceDestroy, DeleteMarker, MarkTerminated
  <2> QED
    BY <1>6, <2>1 DEF RetireTree, RetireMarker, RetireRow, ForceDestroy, DeleteMarker, MarkTerminated
<1>7. CASE CleanupRuntime(r) \/ CleanupTree(r)
  <2>1. Flags'
    BY <1>7 DEF CleanupRuntime, CleanupTree, DestroyRuntime, DestroyWorkspace, Dirty
  <2> QED
    BY <1>7, <2>1 DEF CleanupRuntime, CleanupTree, DestroyRuntime, DestroyWorkspace, Dirty
<1> QED
  BY <1>1, <1>2, <1>3, <1>4, <1>5, <1>6, <1>7 DEF Requests

LEMMA TypeEnvironment == TypeOK /\ Environment => TypeOK'
<1> SUFFICES ASSUME TypeOK, Environment PROVE TypeOK'
  OBVIOUS
<1> USE DEF TypeOK, Flags, RequestStep, BootStep, Step, rowVars, gitVars, histVars
<1>1. CASE AgentEdits \/ AgentCommits \/ BranchMoves
  <2>1. Flags'
    BY <1>1 DEF AgentEdits, AgentCommits, BranchMoves
  <2> QED
    BY <1>1, <2>1 DEF AgentEdits, AgentCommits, BranchMoves
<1>2. CASE SessionEnds \/ PaneDies
  <2>1. Flags'
    BY <1>2 DEF SessionEnds, PaneDies, MarkTerminated, DestroyRuntime
  <2> QED
    BY <1>2, <2>1 DEF SessionEnds, PaneDies, MarkTerminated, DestroyRuntime
<1>3. CASE DaemonStops \/ StartDaemon
  <2>1. Undisturbed \in BOOLEAN
    BY Zenon DEF Undisturbed
  <2>2. Flags'
    BY <1>3, <2>1 DEF DaemonStops, StartDaemon
  <2> QED
    BY <1>3, <2>2 DEF DaemonStops, StartDaemon
<1> QED
  BY <1>1, <1>2, <1>3 DEF Environment

LEMMA TypeNext == TypeOK /\ [Next]_vars => TypeOK'
<1> SUFFICES ASSUME TypeOK, [Next]_vars PROVE TypeOK'
  OBVIOUS
<1>1. CASE UNCHANGED vars
  BY <1>1 DEF vars, TypeOK, rowVars, gitVars, histVars
<1> QED
  BY <1>1, TypeBoot, TypeRequests, TypeEnvironment DEF Next

\* The rows, the worktree, the ref and the requests keep their types; an absent
\* worktree holds no work and only a restore marker names a ref.
THEOREM TypeCorrect == Spec => []TypeOK
  BY TypeInit, TypeNext, PTL DEF Spec

-----------------------------------------------------------------------------
(* Boot destroys only what it captured.                                    *)

SaveInv == TypeOK /\ BootIsAlone /\ CaptureSound

LEMMA AloneNext == TypeOK /\ BootIsAlone /\ [Next]_vars => BootIsAlone'
<1> SUFFICES ASSUME TypeOK, BootIsAlone, [Next]_vars PROVE BootIsAlone'
  OBVIOUS
<1>1. CASE Boot
  <2>1. boot # "serving" /\ req' = req
    BY <1>1 DEF Boot, BootList, BootProbe, BootReap, BootStash, BootMarker, BootRow,
      BootTree, BootAbandon, BootRestore, BootAdd, BootPick, BootDropRef, BootCreate,
      BootSpawned, BootPrompt, BootActive, BootDropMarker, Step, StepFails, bootOnly
  <2> QED
    BY <2>1 DEF BootIsAlone
<1>2. ASSUME NEW r \in Request, Requests(r) PROVE boot' = boot /\ (boot = "serving" \/ LanArmed)
  BY <1>2 DEF Requests, KillRuntime, KillTree, KillMarker, KillRow, RestoreTree,
    RestoreCreate, RestoreSpawned, RestorePrompt, RetireStash, RetireRuntime, RetireTree,
    RetireMarker, RetireRow, CleanupRuntime, CleanupTree, Call, CallFails, requestOnly
<1>3. CASE Environment
  BY <1>3 DEF Environment, AgentEdits, AgentCommits, BranchMoves, SessionEnds, PaneDies,
    DaemonStops, StartDaemon, Step, BootIsAlone
<1>4. CASE UNCHANGED vars
  BY <1>4 DEF vars, BootIsAlone
<1> QED
  BY <1>1, <1>2, <1>3, <1>4 DEF Next, BootIsAlone

LEMMA CaptureNext == ~LanArmed /\ SaveInv /\ [Next]_vars => CaptureSound'
<1> SUFFICES ASSUME ~LanArmed, SaveInv, [Next]_vars PROVE CaptureSound'
  OBVIOUS
<1> USE DEF SaveInv, CaptureSound
<1>1. CASE Boot
  <2> USE DEF Step, StepFails, rowVars, gitVars
  <2>1. CASE BootList \/ BootProbe \/ BootReap
    BY <2>1 DEF BootList, BootProbe, BootReap, TypeOK
  <2>2. CASE BootStash
    BY <2>2 DEF BootStash, StashUncommitted, Dirty
  <2>3. CASE BootMarker \/ BootRow
    BY <2>3 DEF BootMarker, BootRow
  <2>4. CASE BootTree \/ BootAbandon \/ BootRestore \/ BootAdd \/ BootPick \/ BootDropRef
             \/ BootCreate \/ BootSpawned \/ BootPrompt \/ BootActive \/ BootDropMarker
    BY <2>4 DEF BootTree, BootAbandon, BootRestore, BootAdd, BootPick, BootDropRef,
      BootCreate, BootSpawned, BootPrompt, BootActive, BootDropMarker
  <2> QED
    BY <1>1, <2>1, <2>2, <2>3, <2>4 DEF Boot
<1>2. ASSUME NEW r \in Request, Requests(r) PROVE boot' = "serving"
  BY <1>2 DEF Requests, KillRuntime, KillTree, KillMarker, KillRow, RestoreTree,
    RestoreCreate, RestoreSpawned, RestorePrompt, RetireStash, RetireRuntime, RetireTree,
    RetireMarker, RetireRow, CleanupRuntime, CleanupTree, Call, CallFails, requestOnly
<1>3. CASE Environment
  BY <1>3 DEF Environment, AgentEdits, AgentCommits, BranchMoves, SessionEnds, PaneDies,
    DestroyRuntime, DaemonStops, StartDaemon, Step, gitVars
<1>4. CASE UNCHANGED vars
  BY <1>4 DEF vars, gitVars
<1> QED
  BY <1>1, <1>2, <1>3, <1>4 DEF Next

\* Capture, then destroy: whatever step of whatever boot was cut short, the
\* step that removes the worktree finds all its work in the preserve ref,
\* since between the capture and the removal no agent runs and, with the LAN
\* listener off, no request is answered.
THEOREM CaptureThenDestroy ==
  ASSUME ~LanArmed
  PROVE  Spec => BootDestroysCaptured
<1>1. Init => SaveInv
  BY TypeInit DEF SaveInv, Init, BootIsAlone, CaptureSound
<1>2. SaveInv /\ [Next]_vars => SaveInv'
  BY TypeNext, AloneNext, CaptureNext DEF SaveInv
<1>3. SaveInv /\ [Next]_vars =>
        [boot = "tree" /\ tree /\ ~tree' => work \subseteq ref]_vars
  BY DEF SaveInv, CaptureSound
<1> QED
  BY <1>1, <1>2, <1>3, PTL DEF Spec, BootDestroysCaptured

-----------------------------------------------------------------------------
(* A completed kill is final.                                              *)

KillInv == TypeOK /\ BootIsAlone /\ KillSound

LEMMA KillBoot == ~LanArmed /\ KillInv /\ Boot => KillSound'
<1> SUFFICES ASSUME ~LanArmed, KillInv, Boot PROVE KillSound'
  OBVIOUS
<1> USE DEF KillInv, Step, StepFails, bootOnly, rowVars
<1>0. \A r \in Request : req'[r] \notin {"kill_row", "retire_row"}
  BY DEF BootIsAlone, Boot, BootList, BootProbe, BootReap, BootStash, BootMarker, BootRow,
    BootTree, BootAbandon, BootRestore, BootAdd, BootPick, BootDropRef, BootCreate,
    BootSpawned, BootPrompt, BootActive, BootDropMarker
<1>1. CASE BootList \/ BootProbe \/ BootReap \/ BootStash \/ BootMarker \/ BootRow
           \/ BootTree \/ BootAbandon
  BY <1>0, <1>1 DEF KillSound, BootList, BootProbe, BootReap, BootStash, BootMarker,
    BootRow, BootTree, BootAbandon, MarkTerminated
<1>2. CASE BootRestore \/ BootAdd \/ BootPick \/ BootDropRef \/ BootCreate
  BY <1>0, <1>2 DEF KillSound, BootRestore, BootAdd, BootPick, BootDropRef, BootCreate
<1>3. CASE BootSpawned \/ BootPrompt \/ BootActive \/ BootDropMarker
  BY <1>0, <1>3 DEF KillSound, BootSpawned, BootPrompt, BootActive, BootDropMarker
<1> QED
  BY <1>1, <1>2, <1>3 DEF Boot

LEMMA KillRequests ==
  ASSUME ~LanArmed, KillInv, NEW r \in Request, Requests(r)
  PROVE  KillSound'
<1> USE DEF KillInv, KillSound, Call, CallFails, requestOnly, rowVars, TypeOK
<1>1. CASE KillRuntime(r) \/ KillTree(r)
  BY <1>1 DEF KillRuntime, KillTree
<1>2. CASE KillMarker(r)
  BY <1>2 DEF KillMarker, DeleteMarker
<1>3. CASE KillRow(r)
  BY <1>3 DEF KillRow, MarkTerminated
<1>4. CASE RestoreTree(r) \/ RestoreCreate(r)
  BY <1>4 DEF RestoreTree, RestoreCreate
<1>5. CASE RestoreSpawned(r) \/ RestorePrompt(r)
  BY <1>5 DEF RestoreSpawned, RestorePrompt
<1>6. CASE RetireStash(r) \/ RetireRuntime(r) \/ RetireTree(r)
  BY <1>6 DEF RetireStash, RetireRuntime, RetireTree
<1>7. CASE RetireMarker(r) \/ RetireRow(r)
  BY <1>7 DEF RetireMarker, RetireRow, DeleteMarker, MarkTerminated
<1>8. CASE CleanupRuntime(r) \/ CleanupTree(r)
  BY <1>8 DEF CleanupRuntime, CleanupTree
<1> QED
  BY <1>1, <1>2, <1>3, <1>4, <1>5, <1>6, <1>7, <1>8 DEF Requests

LEMMA KillNext == ~LanArmed /\ KillInv /\ [Next]_vars => KillSound'
<1> SUFFICES ASSUME ~LanArmed, KillInv, [Next]_vars PROVE KillSound'
  OBVIOUS
<1>1. CASE Environment
  BY <1>1 DEF KillInv, KillSound, Environment, AgentEdits, AgentCommits, BranchMoves,
    SessionEnds, PaneDies, DaemonStops, StartDaemon, Step, MarkTerminated, rowVars, histVars
<1>2. CASE UNCHANGED vars
  BY <1>2 DEF KillInv, KillSound, vars, rowVars, histVars
<1> QED
  BY <1>1, <1>2, KillBoot, KillRequests DEF Next

\* No boot relaunches a session whose kill or retirement ran to its end: the
\* only writer of restore markers is the save pass, which handles live rows,
\* and the only way back to a live row is a restore for the user (LAN listener off).
THEOREM KillIsFinal ==
  ASSUME ~LanArmed
  PROVE  Spec => CompleteKillIsFinal
<1>1. Init => KillInv
  BY TypeInit DEF KillInv, Init, BootIsAlone, KillSound
<1>2. KillInv /\ [Next]_vars => KillInv'
  BY TypeNext, AloneNext, KillNext DEF KillInv
<1>3. KillInv /\ [Next]_vars => [BootRelaunches => killed # "done"]_vars
  BY DEF KillInv, KillSound, BootRelaunches
<1> QED
  BY <1>1, <1>2, <1>3, PTL DEF Spec, CompleteKillIsFinal
-----------------------------------------------------------------------------
(* What was running undisturbed is recovered.                              *)

OwedInv == TypeOK /\ OwedSound

\* The save pass: the work is in the ref before it leaves the worktree.
LEMMA OwedSave ==
  ASSUME OwedInv, BootList \/ BootProbe \/ BootReap \/ BootStash \/ BootMarker \/ BootRow
                  \/ BootTree \/ BootAbandon
  PROVE  OwedSound'
<1> USE DEF OwedInv, TypeOK, OwedSound, OwedSaved, OwedLive, InTree, InRef, Step, StepFails, bootOnly,
      rowVars, gitVars
<1>1. CASE BootList
  BY <1>1 DEF BootList
<1>2. CASE BootProbe
  BY <1>2 DEF BootProbe
<1>3. CASE BootReap
  BY <1>3 DEF BootReap, DestroyRuntime
<1>4. CASE BootStash
  BY <1>4 DEF BootStash, StashUncommitted, Dirty
<1>5. CASE BootMarker
  <2>1. ~owed' \/ (boot = "marker" /\ boot' = "row" /\ marker' = "removed" /\ markerRef' = held
                   /\ UNCHANGED <<owed, terminated, tree, work, ref, moved, pane, held, due>>)
    BY <1>5 DEF BootMarker, UpsertMarker
  <2> SUFFICES ASSUME owed' PROVE OwedSound'
    BY Zenon DEF OwedSound
  <2>2. owed /\ boot = "marker"
    BY <2>1
  <2>3. OwedLive /\ pane = "none" /\ (IF held THEN work \subseteq ref /\ ~moved ELSE work = {})
    BY <2>2
  <2> QED
    BY <2>1, <2>3
<1>6. CASE BootRow
  <2>1. ~owed' \/ (boot = "row" /\ boot' = "tree" /\ terminated' = TRUE
                   /\ UNCHANGED <<owed, tree, work, ref, moved, pane, held, due, marker, markerRef>>)
    BY <1>6 DEF BootRow, MarkTerminated
  <2> SUFFICES ASSUME owed' PROVE OwedSound'
    BY Zenon DEF OwedSound
  <2>2. owed /\ boot = "row"
    BY <2>1
  <2>3. OwedLive /\ pane = "none" /\ (IF held THEN work \subseteq ref /\ ~moved ELSE work = {})
    BY <2>2
  <2>4. marker = "removed" /\ (held => markerRef)
    BY <2>2
  <2> QED
    BY <2>1, <2>3, <2>4
<1>7. CASE BootTree
  BY <1>7 DEF BootTree, ForceDestroy
<1>8. CASE BootAbandon
  BY <1>8 DEF BootAbandon
<1> QED
  BY <1>1, <1>2, <1>3, <1>4, <1>5, <1>6, <1>7, <1>8

\* The restore pass: the work is in the worktree before the ref and the marker go.
LEMMA OwedRestore ==
  ASSUME OwedInv, BootRestore \/ BootAdd \/ BootPick \/ BootDropRef \/ BootCreate
                  \/ BootSpawned \/ BootPrompt \/ BootActive \/ BootDropMarker
  PROVE  OwedSound'
<1> USE DEF OwedInv, TypeOK, OwedSound, OwedSaved, OwedLive, InTree, InRef, Step, StepFails, bootOnly,
      rowVars, gitVars
<1>1. CASE BootRestore
  BY <1>1 DEF BootRestore
<1>2. CASE BootAdd
  BY <1>2 DEF BootAdd, RestoreWorkspace
<1>3. CASE BootPick
  BY <1>3 DEF BootPick
<1>4. CASE BootDropRef
  BY <1>4 DEF BootDropRef
<1>5. CASE BootCreate
  BY <1>5 DEF BootCreate, CreateRuntime
<1>6. CASE BootSpawned
  <2>1. ~owed' \/ (owed' = owed /\ boot = "spawned" /\ boot' = "prompt" /\ terminated' = FALSE)
    BY <1>6 DEF BootSpawned
  <2> QED
    BY <1>6, <2>1 DEF BootSpawned
<1>7. CASE BootPrompt
  <2>1. ~owed' \/ (owed' = owed /\ boot = "prompt" /\ boot' = "active" /\ terminated' = terminated)
    BY <1>7 DEF BootPrompt
  <2> QED
    BY <1>7, <2>1 DEF BootPrompt
<1>8. CASE BootActive \/ BootDropMarker
  BY <1>8 DEF BootActive, BootDropMarker
<1> QED
  BY <1>1, <1>2, <1>3, <1>4, <1>5, <1>6, <1>7, <1>8

\* A request that meddles with a boot ends what the boot owes.
LEMMA OwedRequests ==
  ASSUME NEW r \in Request, Requests(r)
  PROVE  boot' = boot /\ (owed' => boot = "serving")
BY DEF Requests, KillRuntime, KillTree, KillMarker, KillRow, RestoreTree,
  RestoreCreate, RestoreSpawned, RestorePrompt, RetireStash, RetireRuntime, RetireTree,
  RetireMarker, RetireRow, CleanupRuntime, CleanupTree, Call, CallFails, requestOnly

LEMMA OwedEnvironment == OwedInv /\ Environment => OwedSound'
<1> SUFFICES ASSUME OwedInv, Environment PROVE OwedSound'
  OBVIOUS
<1> USE DEF OwedInv, TypeOK, OwedSound, OwedSaved, OwedLive, InTree, InRef, rowVars, gitVars, histVars
<1>1. CASE AgentEdits
  BY <1>1 DEF AgentEdits
<1>2. CASE AgentCommits
  BY <1>2 DEF AgentCommits, Dirty
<1>3. CASE BranchMoves \/ SessionEnds
  BY <1>3 DEF BranchMoves, SessionEnds
<1>4. CASE PaneDies
  BY <1>4 DEF PaneDies, DestroyRuntime
<1>5. CASE DaemonStops
  <2>1. boot' = "down" /\ UNCHANGED <<terminated, tree, work, ref, moved, pane, marker, markerRef>>
    BY <1>5 DEF DaemonStops
  <2>2. CASE boot = "serving"
    BY <1>5, <2>1, <2>2 DEF DaemonStops, Undisturbed
  <2>3. CASE boot # "serving"
    <3>1. owed' = owed /\ due' = due /\ boot # "down"
      BY <1>5, <2>3 DEF DaemonStops
    <3> QED
      BY <2>1, <2>3, <3>1 DEF BootStep
  <2> QED
    BY <2>2, <2>3
<1>6. CASE StartDaemon
  BY <1>6 DEF StartDaemon, Step
<1> QED
  BY <1>1, <1>2, <1>3, <1>4, <1>5, <1>6 DEF Environment

LEMMA OwedNext == OwedInv /\ [Next]_vars => OwedSound'
<1> SUFFICES ASSUME OwedInv, [Next]_vars PROVE OwedSound'
  OBVIOUS
<1>1. CASE Boot
  BY <1>1, OwedSave, OwedRestore DEF Boot
<1>2. ASSUME NEW r \in Request, Requests(r) PROVE OwedSound'
  BY <1>2, OwedRequests DEF OwedSound
<1>3. CASE UNCHANGED vars
  <2>1. UNCHANGED <<owed, boot, terminated, tree, pane, work, ref, due, marker, markerRef, moved, held>>
    BY <1>3 DEF vars, rowVars, gitVars, histVars
  <2> QED
    BY <2>1 DEF OwedInv, OwedSound, OwedSaved, OwedLive, InTree, InRef
<1> QED
  BY <1>1, <1>2, <1>3, OwedEnvironment DEF Next

\* Where a boot ends that still owes the session, the session runs in its worktree.
LEMMA ServedSound ==
  ASSUME OwedInv, [Next]_vars, boot # "serving", boot' = "serving", owed'
  PROVE  pane' = "agent" /\ ~terminated' /\ tree' /\ due \subseteq work'
<1> USE DEF OwedInv, OwedSound, OwedLive, OwedSaved, InTree, InRef, Step, StepFails, rowVars, gitVars
<1>1. CASE Boot
  <2>1. ~(BootList \/ BootProbe \/ BootReap \/ BootStash \/ BootMarker \/ BootRow \/ BootTree
           \/ BootAbandon)
    BY DEF BootList, BootProbe, BootReap, BootStash, BootMarker, BootRow, BootTree, BootAbandon
  <2>2. ~(BootAdd \/ BootPick \/ BootDropRef \/ BootSpawned \/ BootPrompt \/ BootActive)
    BY DEF BootAdd, BootPick, BootDropRef, BootSpawned, BootPrompt, BootActive
  <2>3. BootRestore \/ BootCreate \/ BootDropMarker
    BY <1>1, <2>1, <2>2 DEF Boot
  <2> QED
    <3>1. owed /\ UNCHANGED <<terminated, tree, work, due, pane>>
      BY <2>3 DEF BootRestore, BootCreate, CreateRuntime, BootDropMarker, bootOnly
    <3>2. boot \in {"restore", "drop_marker"} \/ (boot = "create" /\ pane = "agent")
      BY <2>3 DEF BootRestore, BootCreate, CreateRuntime, BootDropMarker
    <3>3. boot = "restore" => ~(terminated /\ marker = "removed")
      BY <2>3, <3>1 DEF BootRestore, BootCreate, BootDropMarker
    <3> QED
      BY <3>1, <3>2, <3>3
<1>2. ~ \E r \in Request : Requests(r)
  BY OwedRequests
<1>3. ~Environment
  BY DEF Environment, AgentEdits, AgentCommits, BranchMoves, SessionEnds, PaneDies, DaemonStops,
    StartDaemon
<1>4. ~UNCHANGED vars
  BY DEF vars
<1> QED
  BY <1>1, <1>2, <1>3, <1>4 DEF Next

\* A session that ran undisturbed when the daemon went down runs again, with its
\* work in its worktree, when a boot of which no call failed is over, however many
\* boots were cut short before it and wherever (with the LAN listener on, too).
THEOREM BootsRecover == Spec => BootRecovers
<1>1. Init => OwedInv
  BY TypeInit DEF OwedInv, OwedSound, Init
<1>2. OwedInv /\ [Next]_vars => OwedInv'
  BY TypeNext, OwedNext DEF OwedInv
<1>3. OwedInv /\ [Next]_vars =>
        [boot # "serving" /\ boot' = "serving" /\ owed' =>
           pane' = "agent" /\ ~terminated' /\ tree' /\ due \subseteq work']_vars
  BY ServedSound
<1> QED
  BY <1>1, <1>2, <1>3, PTL DEF Spec, BootRecovers

-----------------------------------------------------------------------------
(* DaemonProcess: types.                                                   *)

LEMMA DaemonIds == Daemon \subseteq Nat \ {0} /\ None \notin Daemon /\ Trying \notin DaemonOrNone
BY DaemonAssumption DEF Daemon, None, Trying, DaemonOrNone

\* A signal reaches a daemon, or nobody.
LEMMA SignalTypes ==
  ASSUME NEW d \in DaemonOrNone, Signal(d), cancelled \subseteq Daemon
  PROVE  cancelled' \subseteq Daemon
  BY DEF Signal, Running, DaemonOrNone

\* The stations of a daemon, its port and what its start found.
LEMMA ProcessTypeOKNext ==
  ASSUME DaemonTypeOK, [DaemonNext]_daemonVars
  PROVE  ProcessTypeOK'
<1> USE DaemonIds, DaemonAssumption
    DEF DaemonTypeOK, ProcessTypeOK, ProcessTypeOK, procs, Goes
<1>1. ASSUME NEW d \in Daemon, CheckStale(d) \/ Refuse(d) \/ Proceed(d) \/ Bind(d)
      PROVE  ProcessTypeOK'
  BY <1>1 DEF CheckStale, Refuse, Proceed, Bind, DaemonOnly, PathTypeOK, DaemonOrNone
<1>2. ASSUME NEW d \in Daemon, StartHeadless(d) \/ Publish(d) \/ BeginDrain(d) \/ DrainEnds(d) \/
      RemoveOwned(d) \/ Exit(d) \/ Crash(d)
      PROVE  ProcessTypeOK'
  BY <1>2 DEF StartHeadless, Publish, BeginDrain, DrainEnds, RemoveOwned, Exit, Crash, Launch,
         Ends, DaemonOnly
<1>3. CASE AppReplaces \/ AppStops \/ AppQuits
  BY <1>3 DEF AppReplaces, AppStops, AppQuits, Signal, Quiet
<1>4. CASE AppSpawns
  BY <1>4 DEF AppSpawns, Launch
<1>5. ASSUME NEW d \in Daemon, Wedge(d) \/ Fire(d) \/ CloseListener(d)
      PROVE  ProcessTypeOK'
  BY <1>5 DEF Wedge, Fire, CloseListener, DaemonOnly
<1>6. ASSUME NEW d \in Daemon, Accept(d) \/ WatchConn(d) \/ ArmGrace(d) \/ TimerElapses(d) \/
      LooseElapses(d) \/ OldElapses(d)
      PROVE  ProcessTypeOK'
  BY <1>6 DEF Accept, WatchConn, ArmGrace, TimerElapses, LooseElapses, OldElapses, Elapse, WatchOnly
<1>7. CASE AppStarts \/ AppReads \/ AppAttaches \/ AppProbesPort \/ AppReadsOwner \/ AppClears \/
         AppConfirms \/ AppSeesExit
  BY <1>7 DEF AppStarts, AppReads, AppAttaches, AppProbesPort, AppReadsOwner, AppClears,
         AppConfirms, AppSeesExit, AppOnly, StopOnly, Quiet
<1>8. CASE LinkConnects \/ AppAborts \/ AppCrashes \/ StopReads \/ StopProbes \/ StopPosts \/
         StopWaits \/ StopRemoves
  BY <1>8 DEF LinkConnects, AppAborts, AppCrashes, StopReads, StopProbes, StopPosts, StopWaits,
         StopRemoves, AppOnly, StopOnly, Quiet
<1>9. CASE UNCHANGED daemonVars  BY <1>9 DEF daemonVars
<1> HIDE DEF DaemonTypeOK, ProcessTypeOK
<1> QED  BY <1>1, <1>2, <1>3, <1>4, <1>5, <1>6, <1>7, <1>8, <1>9
  DEF DaemonNext, Main, Watchdog, App, Stop

\* The run file, the socket and the sets of daemons.
LEMMA PathTypeOKNext ==
  ASSUME DaemonTypeOK, [DaemonNext]_daemonVars
  PROVE  PathTypeOK'
<1> USE DaemonIds, DaemonAssumption
    DEF DaemonTypeOK, PathTypeOK, PathTypeOK, paths, flags, DaemonOrNone
<1>1. ASSUME NEW d \in Daemon, Publish(d) \/ DrainEnds(d) \/ RemoveOwned(d) \/ Exit(d) \/
      Crash(d) \/ Wedge(d) \/ Fire(d) \/ CloseListener(d)
      PROVE  PathTypeOK'
  BY <1>1 DEF Publish, DrainEnds, RemoveOwned, Exit, Crash, Wedge, Fire, CloseListener, Ends,
         Returned, DaemonOnly
<1>2. CASE AppReplaces
  <2>1. cancelled' \subseteq Daemon
    BY <1>2, SignalTypes DEF AppReplaces
  <2> QED  BY <1>2, <2>1 DEF AppReplaces, Quiet
<1>3. CASE AppStops
  <2>1. cancelled' \subseteq Daemon
    BY <1>3, SignalTypes DEF AppStops, AppTypeOK
  <2> QED  BY <1>3, <2>1 DEF AppStops, Quiet
<1>4. CASE AppQuits
  <2>1. cancelled' \subseteq Daemon
    BY <1>4, SignalTypes DEF AppQuits, AppTypeOK
  <2>2. left' \subseteq Daemon
    <3>1. app.child \in DaemonOrNone  BY DEF AppTypeOK
    <3> QED  BY <1>4, <3>1 DEF AppQuits
  <2> QED  BY <1>4, <2>1, <2>2 DEF AppQuits, Quiet
<1>5. CASE AppClears \/ StopPosts \/ StopRemoves
  BY <1>5 DEF AppClears, StopPosts, StopRemoves, StopOnly
<1>6. ASSUME NEW d \in Daemon, StartHeadless(d) \/ CheckStale(d) \/ Refuse(d) \/ Proceed(d) \/
      Bind(d) \/ BeginDrain(d)
      PROVE  PathTypeOK'
  BY <1>6 DEF StartHeadless, CheckStale, Refuse, Proceed, Bind, BeginDrain, DaemonOnly
<1>7. ASSUME NEW d \in Daemon, Accept(d) \/ WatchConn(d) \/ ArmGrace(d) \/ TimerElapses(d) \/
      LooseElapses(d) \/ OldElapses(d)
      PROVE  PathTypeOK'
  BY <1>7 DEF Accept, WatchConn, ArmGrace, TimerElapses, LooseElapses, OldElapses, Elapse, WatchOnly
<1>8. CASE AppStarts \/ AppReads \/ AppAttaches \/ AppProbesPort \/ AppReadsOwner \/ AppSpawns \/
         AppConfirms
  BY <1>8 DEF AppStarts, AppReads, AppAttaches, AppProbesPort, AppReadsOwner, AppSpawns,
         AppConfirms, AppOnly, StopOnly, Quiet
<1>9. CASE AppSeesExit \/ LinkConnects \/ AppAborts \/ AppCrashes \/ StopReads \/ StopProbes \/
         StopWaits
  BY <1>9 DEF AppSeesExit, LinkConnects, AppAborts, AppCrashes, StopReads, StopProbes, StopWaits,
         AppOnly, StopOnly, Quiet
<1>10. CASE UNCHANGED daemonVars  BY <1>10 DEF daemonVars
<1> HIDE DEF DaemonTypeOK, PathTypeOK
<1> QED  BY <1>1, <1>2, <1>3, <1>4, <1>5, <1>6, <1>7, <1>8, <1>9, <1>10
  DEF DaemonNext, Main, Watchdog, App, Stop

\* The app.
LEMMA AppTypeOKNext ==
  ASSUME DaemonTypeOK, [DaemonNext]_daemonVars
  PROVE  AppTypeOK'
<1> USE DaemonIds, DaemonAssumption
    DEF DaemonTypeOK, AppTypeOK, AppTypeOK, DaemonOrNone
<1>1. ASSUME NEW d \in Daemon, Refuse(d) \/ Publish(d) \/ Exit(d) \/ Crash(d) \/ CloseListener(d)
      PROVE  AppTypeOK'
  <2>1. CASE Refuse(d) \/ Exit(d) \/ Crash(d)  BY <2>1, ZenonT(60) DEF Refuse, Exit, Crash, Ends
  <2>2. CASE Publish(d)  BY <2>2 DEF Publish
  <2>3. CASE CloseListener(d)  BY <2>3 DEF CloseListener
  <2> QED  BY <1>1, <2>1, <2>2, <2>3
<1>2. CASE AppStarts \/ AppReads \/ AppProbesPort \/ AppReplaces \/ AppClears \/ AppSeesExit
  <2>1. CASE AppStarts \/ AppProbesPort \/ AppClears \/ AppSeesExit
    BY <2>1, ZenonT(60) DEF AppStarts, AppProbesPort, AppClears, AppSeesExit
  <2>2. CASE AppReads
    BY <2>2 DEF AppReads, PathTypeOK
  <2>3. CASE AppReplaces
    BY <2>3 DEF AppReplaces
  <2> QED  BY <1>2, <2>1, <2>2, <2>3
<1>3. CASE AppConfirms \/ AppStops
  BY <1>3, ZenonT(60) DEF AppConfirms, AppStops
<1>4. CASE AppAborts
  BY <1>4 DEF AppAborts
<1>5. CASE AppQuits \/ AppCrashes
  <2>1. app' = Closed  BY <1>5 DEF AppQuits, AppCrashes
  <2> QED  BY <2>1 DEF Closed
<1>6. CASE AppAttaches
  <2>1. LinkFor(owner[app.seen]) \in DaemonOrNone \cup {Trying}  BY DEF LinkFor
  <2>2. CASE Serves(app.seen)
    <3>1. app' = [app EXCEPT !.step = "idle", !.seen = None, !.link = LinkFor(owner[app.seen])]
      BY <1>6, <2>2 DEF AppAttaches
    <3> QED  BY <2>1, <3>1
  <2>3. CASE ~Serves(app.seen)
    <3>1. app' = [app EXCEPT !.step = "port", !.seen = None]  BY <1>6, <2>3 DEF AppAttaches
    <3> QED  BY <3>1
  <2> QED  BY <2>2, <2>3
<1>7. CASE AppReadsOwner
  <2>1. PICK o : app' = [app EXCEPT !.step = "idle", !.link = LinkFor(o)]
    BY <1>7 DEF AppReadsOwner
  <2>2. LinkFor(o) \in DaemonOrNone \cup {Trying}  BY DEF LinkFor
  <2> QED  BY <2>1, <2>2
<1>8. CASE AppSpawns
  BY <1>8 DEF AppSpawns
<1>9. CASE LinkConnects
  BY <1>9 DEF LinkConnects, PathTypeOK
<1>10. ASSUME NEW d \in Daemon, StartHeadless(d) \/ CheckStale(d) \/ Proceed(d) \/ Bind(d) \/
      BeginDrain(d) \/ DrainEnds(d) \/ RemoveOwned(d) \/ Wedge(d) \/ Fire(d)
      PROVE  AppTypeOK'
  BY <1>10 DEF StartHeadless, CheckStale, Proceed, Bind, BeginDrain, DrainEnds, RemoveOwned,
         Wedge, Fire, DaemonOnly
<1>11. ASSUME NEW d \in Daemon, Accept(d) \/ WatchConn(d) \/ ArmGrace(d) \/ TimerElapses(d) \/
      LooseElapses(d) \/ OldElapses(d)
      PROVE  AppTypeOK'
  BY <1>11 DEF Accept, WatchConn, ArmGrace, TimerElapses, LooseElapses, OldElapses, Elapse, WatchOnly
<1>12. CASE StopReads \/ StopProbes
  BY <1>12 DEF StopReads, StopProbes, AppOnly, StopOnly, Quiet
<1>13. CASE StopPosts \/ StopWaits \/ StopRemoves
  BY <1>13 DEF StopPosts, StopWaits, StopRemoves, AppOnly, StopOnly, Quiet
<1>14. CASE UNCHANGED daemonVars  BY <1>14 DEF daemonVars
<1> HIDE DEF DaemonTypeOK, AppTypeOK
<1> QED  BY <1>1, <1>2, <1>3, <1>4, <1>5, <1>6, <1>7, <1>8, <1>9, <1>10, <1>11, <1>12, <1>13,
            <1>14
  DEF DaemonNext, Main, Watchdog, App, Stop

\* An ao stop, and the bounds.
LEMMA StopTypeOKNext ==
  ASSUME DaemonTypeOK, [DaemonNext]_daemonVars
  PROVE  StopTypeOK'
<1> USE DaemonIds, DaemonAssumption
    DEF DaemonTypeOK, StopTypeOK, StopTypeOK, Event
<1>1. ASSUME NEW d \in Daemon, StartHeadless(d) \/ Exit(d) \/ Crash(d) \/ Wedge(d)
      PROVE  StopTypeOK'
  BY <1>1 DEF StartHeadless, Exit, Crash, Wedge, Ends
<1>2. CASE AppStarts \/ AppCrashes
  BY <1>2 DEF AppStarts, AppCrashes
<1>3. CASE StopReads \/ StopProbes \/ StopPosts \/ StopWaits \/ StopRemoves
  BY <1>3 DEF StopReads, StopProbes, StopPosts, StopWaits, StopRemoves, StopGoes, StopOnly,
         PathTypeOK, DaemonOrNone
<1>4. ASSUME NEW d \in Daemon, CheckStale(d) \/ Refuse(d) \/ Proceed(d) \/ Bind(d) \/
      Publish(d) \/ BeginDrain(d) \/ DrainEnds(d) \/ RemoveOwned(d) \/ Fire(d) \/ CloseListener(d)
      PROVE  StopTypeOK'
  BY <1>4 DEF CheckStale, Refuse, Proceed, Bind, Publish, BeginDrain, DrainEnds, RemoveOwned,
         Fire, CloseListener, DaemonOnly
<1>5. ASSUME NEW d \in Daemon, Accept(d) \/ WatchConn(d) \/ ArmGrace(d) \/ TimerElapses(d) \/
      LooseElapses(d) \/ OldElapses(d)
      PROVE  StopTypeOK'
  BY <1>5 DEF Accept, WatchConn, ArmGrace, TimerElapses, LooseElapses, OldElapses, Elapse, WatchOnly
<1>6. CASE AppReads \/ AppAttaches \/ AppProbesPort \/ AppReadsOwner \/ AppReplaces \/ AppClears
  BY <1>6 DEF AppReads, AppAttaches, AppProbesPort, AppReadsOwner, AppReplaces, AppClears,
         AppOnly, StopOnly, Quiet
<1>7. CASE AppSpawns \/ AppConfirms \/ AppSeesExit \/ LinkConnects \/ AppStops \/ AppAborts \/
         AppQuits
  BY <1>7 DEF AppSpawns, AppConfirms, AppSeesExit, LinkConnects, AppStops, AppAborts, AppQuits,
         AppOnly, StopOnly, Quiet
<1>8. CASE UNCHANGED daemonVars  BY <1>8 DEF daemonVars
<1> HIDE DEF DaemonTypeOK, StopTypeOK
<1> QED  BY <1>1, <1>2, <1>3, <1>4, <1>5, <1>6, <1>7, <1>8
  DEF DaemonNext, Main, Watchdog, App, Stop

-----------------------------------------------------------------------------
(* DaemonProcess: the watchdog.                                            *)

\* What a step that moves one watchdog leaves of the others.
LEMMA OneWatch ==
  ASSUME WatchTypeOK, NEW d \in Daemon, NEW w \in Watches, watch' = [watch EXCEPT ![d] = w]
  PROVE  /\ WatchTypeOK'
         /\ watch'[d] = w
         /\ \A e \in Daemon : e # d => watch'[e] = watch[e]
BY DEF WatchTypeOK

\* The count of one watchdog, `mine` saying that the app's connection leads to it.
Counts(w, mine) == w.live = w.eof + IF mine /\ w.queue = 0 THEN 1 ELSE 0

LEMMA LinkCounts == LinkSound <=> \A d \in Daemon : Counts(watch[d], app.link = d)
BY DEF LinkSound, Counts, Linked

\* Something is left that will ask for the shutdown.
Pending(w) == w.firing \/ w.timer \/ w.loose \/ w.old > 0 \/ w.arming > 0

\* The watchdogs' own steps and the app's connection, each of one daemon that has served.
LEMMA WatchMoves ==
  ASSUME WatchTypeOK, AppTypeOK, PathTypeOK, WatchSound, NEW d \in Daemon, NEW w \in Watches,
         watch' = [watch EXCEPT ![d] = w],
         phase[d] \in Served, phase' = phase, asked \subseteq asked',
         listens \ {d} \subseteq listens', listens' \subseteq listens,
         w.queue > 0 => d \in listens',
         \A e \in Daemon \ {d} : app'.link = e <=> app.link = e,
         Counts(w, app'.link = d),
         ~w.armed \/ w.live # 0 \/ d \in asked' \/ Pending(w)
  PROVE  WatchSound'
<1>1. watch'[d] = w /\ \A e \in Daemon : e # d => watch'[e] = watch[e]
  BY OneWatch
<1>2. ListenSound'  BY <1>1 DEF WatchSound, ListenSound
<1>3. LinkSound'  BY <1>1 DEF WatchSound, LinkSound, Linked, Counts
<1>4. DisconnectNotLost'
  <2> SUFFICES ASSUME NEW e \in Daemon, Unattended(e)'
               PROVE  \/ e \in asked' \/ watch'[e].firing
                      \/ watch'[e].timer \/ watch'[e].loose \/ watch'[e].old > 0
                      \/ watch'[e].arming > 0
    BY DEF DisconnectNotLost
  <2>1. CASE e = d  BY <1>1, <2>1 DEF Unattended, Pending
  <2>2. CASE e # d
    <3>1. watch'[e] = watch[e]  BY <1>1, <2>2
    <3>2. Unattended(e)  BY <3>1 DEF Unattended, Running
    <3> QED  BY <3>1, <3>2 DEF WatchSound, DisconnectNotLost
  <2> QED  BY <2>1, <2>2
<1> QED  BY <1>2, <1>3, <1>4 DEF WatchSound

\* A step that is no watchdog's keeps what was asked, who listens and who is served.
Apart ==
  /\ asked \subseteq asked'
  /\ \A d \in Daemon : phase[d] \in Served => phase'[d] \in Served
  /\ listens \subseteq listens'
  /\ \A d \in listens' : d \in listens \/ phase'[d] \in Served

LEMMA WatchRests ==
  ASSUME WatchTypeOK, PathTypeOK, WatchSound, Apart, watch' = watch, app'.link = app.link
  PROVE  WatchSound'
<1>1. ListenSound'  BY DEF WatchSound, ListenSound, Apart, PathTypeOK
<1>2. LinkSound'  BY DEF WatchSound, LinkSound, Linked
<1>3. ASSUME NEW d \in Daemon, Unattended(d)' PROVE Unattended(d)
  BY <1>3, DaemonIds DEF Unattended, Running, WatchSound, ListenSound, Served, Asleep
<1>4. DisconnectNotLost'
  BY <1>3 DEF WatchSound, DisconnectNotLost, Apart
<1> QED  BY <1>1, <1>2, <1>4 DEF WatchSound

\* The app lets go of its connection.
LEMMA WatchHangs ==
  ASSUME WatchTypeOK, PathTypeOK, WatchSound, Apart, Hangs, app'.link \notin Daemon
  PROVE  WatchTypeOK' /\ WatchSound'
<1>1. ASSUME NEW d \in Daemon
      PROVE  \/ ~Linked(d) /\ watch'[d] = watch[d]
             \/ Linked(d) /\ watch'[d] = [watch[d] EXCEPT !.eof = @ + 1]
  BY DEF Hangs
<1>2. ASSUME NEW d \in Daemon
      PROVE  /\ watch'[d] \in Watches
             /\ watch'[d].live = watch'[d].eof
             /\ phase'[d] \notin Served => watch'[d] = Asleep
             /\ Unattended(d)' => Unattended(d)
             /\ \A f \in {"queue", "live", "arming", "old", "armed", "timer", "loose", "firing"} :
                  watch'[d][f] = watch[d][f]
  <2>1. watch[d] \in Watches  BY DEF WatchTypeOK
  <2>2. CASE ~Linked(d) /\ watch'[d] = watch[d]
    <3>1. watch[d].live = watch[d].eof  BY <2>1, <2>2 DEF WatchSound, LinkSound, Watches
    <3> QED
      BY <2>1, <2>2, <3>1, DaemonIds
         DEF WatchSound, ListenSound, Apart, Unattended, Running, Served, Asleep
  <2>3. CASE Linked(d) /\ watch'[d] = [watch[d] EXCEPT !.eof = @ + 1]
    <3>1. watch[d].live = watch[d].eof + 1  BY <2>3 DEF WatchSound, LinkSound
    <3>2. phase[d] \in Served  BY <2>1, <3>1 DEF WatchSound, ListenSound, Asleep, Watches
    <3>3. phase'[d] \in Served /\ Running(d)  BY <3>2, DaemonIds DEF Apart, Served, Running
    <3>4. PICK w : w = [watch[d] EXCEPT !.eof = @ + 1]  OBVIOUS
    <3>5. /\ w \in Watches /\ w.eof = w.live /\ w.queue = watch[d].queue
          /\ w.live = watch[d].live /\ w.arming = watch[d].arming /\ w.old = watch[d].old
          /\ w.armed = watch[d].armed /\ w.timer = watch[d].timer /\ w.loose = watch[d].loose
          /\ w.firing = watch[d].firing
      BY <2>1, <3>1, <3>4 DEF Watches
    <3>6. watch'[d] = w  BY <2>3, <3>4
    <3> QED  BY <3>3, <3>5, <3>6 DEF Unattended
  <2> QED  BY <1>1, <2>2, <2>3
<1>3. DOMAIN watch' = Daemon /\ watch' = [d \in Daemon |-> watch'[d]]  BY DEF Hangs
<1>4. WatchTypeOK'  BY <1>2, <1>3 DEF WatchTypeOK
<1>5. ListenSound'
  BY <1>2 DEF WatchSound, ListenSound, Apart, PathTypeOK
<1>6. LinkSound'
  <2> SUFFICES ASSUME NEW d \in Daemon
               PROVE  watch'[d].live = watch'[d].eof + IF Linked(d)' THEN 1 ELSE 0
    BY DEF LinkSound
  <2>1. ~Linked(d)'  BY DEF Linked
  <2> QED  BY <1>2, <2>1 DEF Watches
<1>7. DisconnectNotLost'
  BY <1>2 DEF WatchSound, DisconnectNotLost, Apart
<1> QED  BY <1>4, <1>5, <1>6, <1>7 DEF WatchSound

\* A process ends, and its watchdog and its connections with it.
LEMMA WatchEnds ==
  ASSUME WatchTypeOK, ProcessTypeOK, PathTypeOK, AppTypeOK, WatchSound, NEW d \in Daemon, Ends(d)
  PROVE  WatchTypeOK' /\ WatchSound'
<1>1. Asleep \in Watches  BY DEF Asleep, Watches
<1>2. watch' = [watch EXCEPT ![d] = Asleep]  BY DEF Ends
<1>3. /\ WatchTypeOK' /\ watch'[d] = Asleep
      /\ \A e \in Daemon : e # d => watch'[e] = watch[e]
  BY <1>1, <1>2, OneWatch
<1>4. /\ listens' = listens \ {d} /\ asked' = asked \ {d}
      /\ phase'[d] = "gone" /\ \A e \in Daemon : e # d => phase'[e] = phase[e]
  BY DEF Ends, ProcessTypeOK
<1>5. app'.link # d /\ \A e \in Daemon : e # d => (app'.link = e <=> app.link = e)
  <2>1. app'.link = IF app.link = d THEN Trying ELSE app.link  BY DEF Ends, AppTypeOK
  <2> QED  BY <2>1, DaemonIds DEF DaemonOrNone
<1>6. ListenSound'
  BY <1>3, <1>4 DEF WatchSound, ListenSound, PathTypeOK, Asleep
<1>7. LinkSound'  BY <1>3, <1>5 DEF WatchSound, LinkSound, Linked, Asleep
<1>8. ASSUME NEW e \in Daemon, Unattended(e)' PROVE e # d /\ Unattended(e)
  BY <1>8, <1>3, <1>4 DEF Unattended, Running, Asleep
<1>9. DisconnectNotLost'
  BY <1>3, <1>4, <1>8 DEF WatchSound, DisconnectNotLost
<1> QED  BY <1>3, <1>6, <1>7, <1>9 DEF WatchSound

\* What the goroutines of a watchdog leave: the app and its listener are not touched.
WatchLeft(d, w, v) ==
  /\ watch' = [watch EXCEPT ![d] = v]
  /\ w # Asleep /\ UNCHANGED <<phase, listens, app>> /\ asked \subseteq asked'
  /\ v.queue > 0 => w.queue > 0
  /\ Counts(v, app.link = d)
  /\ ~v.armed \/ v.live # 0 \/ d \in asked' \/ Pending(v)

LEMMA WatchdogSteps ==
  ASSUME WatchTypeOK, AppTypeOK, PathTypeOK, WatchSound, NEW d \in Daemon,
         Accept(d) \/ WatchConn(d) \/ ArmGrace(d) \/ TimerElapses(d) \/ LooseElapses(d)
         \/ OldElapses(d) \/ Fire(d)
  PROVE  WatchTypeOK' /\ WatchSound'
<1>1. PICK w : w = watch[d]  OBVIOUS
<1>2. w \in Watches  BY <1>1 DEF WatchTypeOK
<1>3. Counts(w, app.link = d)  BY <1>1, LinkCounts DEF WatchSound
<1>4. (w # Asleep => phase[d] \in Served) /\ (w.queue > 0 => d \in listens)
  BY <1>1 DEF WatchSound, ListenSound
<1>5. w.armed /\ w.live = 0 /\ phase[d] \in Served => d \in asked \/ Pending(w)
  BY <1>1, DaemonIds DEF WatchSound, DisconnectNotLost, Unattended, Running, Served, Pending
<1>6. SUFFICES \E v \in Watches : WatchLeft(d, w, v)
  <2>1. PICK v \in Watches : WatchLeft(d, w, v)  BY <1>6
  <2> QED  BY <1>4, <2>1, OneWatch, WatchMoves DEF WatchLeft
<1>14. CASE Accept(d)
  <2>2. PICK k : k = w.old + IF w.loose THEN 1 ELSE 0  OBVIOUS
  <2>3. PICK n : n = w.eof + IF app.link # d \/ w.queue > 1 THEN 1 ELSE 0  OBVIOUS
  <2>4. PICK v : v = [w EXCEPT !.armed = TRUE, !.queue = w.queue - 1, !.live = w.live + 1, !.eof = n,
                               !.timer = FALSE, !.loose = FALSE, !.old = k]
    OBVIOUS
  <2>5. w.queue > 0 /\ watch' = [watch EXCEPT ![d] = v]
    BY <1>1, <1>14, <2>2, <2>3, <2>4 DEF Accept, Accepted
  <2>6. /\ w.queue \in Nat /\ w.queue - 1 \in Nat /\ w.live \in Nat /\ w.live + 1 \in Nat
        /\ w.eof \in Nat /\ n \in Nat /\ k \in Nat
    BY <1>2, <2>2, <2>3, <2>5 DEF Watches
  <2>7. v \in Watches /\ v.queue = w.queue - 1 /\ v.live = w.live + 1 /\ v.eof = n
    BY <1>2, <2>4, <2>6 DEF Watches
  <2>8. w.live = w.eof  BY <1>3, <2>5, <2>6 DEF Counts
  <2>9. Counts(v, app.link = d)
    <3>1. CASE app.link # d \/ w.queue > 1
      <4>1. ~(app.link = d /\ v.queue = 0)  BY <2>6, <2>7, <3>1
      <4> QED  BY <2>3, <2>6, <2>7, <2>8, <3>1, <4>1 DEF Counts
    <3>2. CASE app.link = d /\ ~(w.queue > 1)
      <4>1. v.queue = 0  BY <2>5, <2>6, <2>7, <3>2
      <4> QED  BY <2>3, <2>6, <2>7, <2>8, <3>2, <4>1 DEF Counts
    <3> QED  BY <3>1, <3>2
  <2>10. w # Asleep  BY <2>5 DEF Asleep
  <2>11. UNCHANGED <<phase, listens, app>> /\ asked \subseteq asked'
    BY <1>14 DEF Accept, WatchOnly, procs, paths, flags
  <2>12. v.live # 0  BY <2>6, <2>7
  <2> QED  BY <2>5, <2>7, <2>9, <2>10, <2>11, <2>12 DEF WatchLeft
<1>7. CASE WatchConn(d)
  <2>1. PICK k : k = w.arming + IF w.armed /\ w.live = 1 THEN 1 ELSE 0  OBVIOUS
  <2>2. PICK v : v = [w EXCEPT !.live = w.live - 1, !.eof = w.eof - 1, !.arming = k]  OBVIOUS
  <2>3. w.live > 0 /\ w.eof > 0 /\ watch' = [watch EXCEPT ![d] = v]
    BY <1>1, <1>7, <2>1, <2>2 DEF WatchConn
  <2>4. /\ w.live \in Nat /\ w.eof \in Nat /\ w.live - 1 \in Nat /\ w.eof - 1 \in Nat /\ k \in Nat
        /\ w.armed /\ w.live = 1 => k > 0
    BY <1>2, <2>1, <2>3 DEF Watches
  <2>5. /\ v \in Watches /\ v.live = w.live - 1 /\ v.eof = w.eof - 1 /\ v.arming = k
        /\ v.armed = w.armed /\ v.queue = w.queue
    BY <1>2, <2>2, <2>4 DEF Watches
  <2>6. w # Asleep  BY <2>3 DEF Asleep
  <2>7. UNCHANGED <<phase, listens, app>> /\ asked \subseteq asked'
    BY <1>7 DEF WatchConn, WatchOnly, procs, paths, flags
  <2>8. w.armed /\ w.live = 1 => v.arming > 0  BY <2>4, <2>5
  <2>9. ~v.armed \/ v.live # 0 \/ Pending(v)  BY <2>4, <2>5, <2>8 DEF Pending
  <2>10. Counts(v, app.link = d)  BY <1>3, <2>4, <2>5 DEF Counts
  <2> QED  BY <2>3, <2>5, <2>6, <2>7, <2>9, <2>10 DEF WatchLeft
<1>8. CASE ArmGrace(d)
  <2>1. PICK k : k = w.old + (IF w.timer THEN 1 ELSE 0) + (IF w.loose THEN 1 ELSE 0)  OBVIOUS
  <2>2. PICK v : v = [w EXCEPT !.arming = w.arming - 1, !.timer = TRUE, !.loose = FALSE, !.old = k]
    OBVIOUS
  <2>3. w.arming > 0 /\ watch' = [watch EXCEPT ![d] = v]  BY <1>1, <1>8, <2>1, <2>2 DEF ArmGrace
  <2>4. w.arming - 1 \in Nat /\ k \in Nat  BY <1>2, <2>1, <2>3 DEF Watches
  <2>5. v \in Watches /\ v.live = w.live /\ v.eof = w.eof /\ v.queue = w.queue /\ v.timer
    BY <1>2, <2>2, <2>4 DEF Watches
  <2>6. w # Asleep  BY <2>3 DEF Asleep
  <2>7. Counts(v, app.link = d) /\ Pending(v)  BY <1>3, <2>5 DEF Counts, Pending
  <2> QED
    BY <1>8, <2>3, <2>5, <2>6, <2>7 DEF WatchLeft, ArmGrace, WatchOnly, procs, paths, flags
<1>9. ASSUME NEW u \in Watches, Elapse(d, u), w # Asleep,
             u.live = w.live /\ u.eof = w.eof /\ u.queue = w.queue /\ u.armed = w.armed
      PROVE  \E v \in Watches : WatchLeft(d, w, v)
  <2>1. PICK v : v = [u EXCEPT !.firing = @ \/ u.live = 0]  OBVIOUS
  <2>2. watch' = [watch EXCEPT ![d] = v]  BY <1>9, <2>1 DEF Elapse
  <2>3. /\ v \in Watches /\ v.live = u.live /\ v.eof = u.eof /\ v.queue = u.queue
        /\ (u.live = 0 => v.firing)
    BY <2>1 DEF Watches
  <2>4. Counts(v, app.link = d) /\ (v.live # 0 \/ Pending(v))
    BY <1>3, <1>9, <2>3 DEF Counts, Pending
  <2> QED
    BY <1>9, <2>2, <2>3, <2>4 DEF WatchLeft, Elapse, WatchOnly, procs, paths, flags
<1>10. CASE TimerElapses(d)
  <2>1. PICK u : u = [w EXCEPT !.timer = FALSE]  OBVIOUS
  <2>2. u \in Watches /\ u.live = w.live /\ u.eof = w.eof /\ u.queue = w.queue /\ u.armed = w.armed
    BY <1>2, <2>1 DEF Watches
  <2>3. Elapse(d, u) /\ w # Asleep  BY <1>1, <1>10, <2>1 DEF TimerElapses, Asleep
  <2> QED  BY <1>9, <2>2, <2>3
<1>11. CASE LooseElapses(d)
  <2>1. PICK u : u = [w EXCEPT !.loose = FALSE]  OBVIOUS
  <2>2. u \in Watches /\ u.live = w.live /\ u.eof = w.eof /\ u.queue = w.queue /\ u.armed = w.armed
    BY <1>2, <2>1 DEF Watches
  <2>3. Elapse(d, u) /\ w # Asleep  BY <1>1, <1>11, <2>1 DEF LooseElapses, Asleep
  <2> QED  BY <1>9, <2>2, <2>3
<1>12. CASE OldElapses(d)
  <2>1. PICK b : b = (w.timer \/ w.loose)  OBVIOUS
  <2>2. PICK u : u = [w EXCEPT !.old = w.old - 1, !.timer = FALSE, !.loose = b]  OBVIOUS
  <2>3. w.old > 0 /\ Elapse(d, u)  BY <1>1, <1>12, <2>1, <2>2 DEF OldElapses
  <2>4. w.old - 1 \in Nat /\ b \in BOOLEAN  BY <1>2, <2>1, <2>3 DEF Watches
  <2>5. u \in Watches /\ u.live = w.live /\ u.eof = w.eof /\ u.queue = w.queue /\ u.armed = w.armed
    BY <1>2, <2>2, <2>4 DEF Watches
  <2>6. w # Asleep  BY <2>3 DEF Asleep
  <2> QED  BY <1>9, <2>3, <2>5, <2>6
<1>13. CASE Fire(d)
  <2>1. PICK v : v = [w EXCEPT !.firing = FALSE]  OBVIOUS
  <2>2. watch' = [watch EXCEPT ![d] = v]  BY <1>1, <1>13, <2>1 DEF Fire, WatchTypeOK
  <2>3. v \in Watches /\ v.live = w.live /\ v.eof = w.eof /\ v.queue = w.queue
    BY <1>2, <2>1 DEF Watches
  <2>4. w # Asleep  BY <1>1, <1>13 DEF Fire, Asleep
  <2>5. Counts(v, app.link = d)  BY <1>3, <2>3 DEF Counts
  <2> QED  BY <1>13, <2>2, <2>3, <2>4, <2>5 DEF WatchLeft, Fire, procs, paths
<1> QED  BY <1>7, <1>8, <1>10, <1>11, <1>12, <1>13, <1>14

\* A connection is made: the daemon does not know of it yet.
LEMMA WatchConnects ==
  ASSUME WatchTypeOK, AppTypeOK, PathTypeOK, WatchSound, LinkConnects
  PROVE  WatchTypeOK' /\ WatchSound'
<1>1. sock \in Daemon /\ sock \in listens /\ phase[sock] \in Served
  BY DEF LinkConnects, WatchSound, ListenSound, PathTypeOK
<1>2. PICK w : w = watch[sock]  OBVIOUS
<1>3. w \in Watches  BY <1>1, <1>2 DEF WatchTypeOK
<1>4. PICK v : v = [w EXCEPT !.queue = w.queue + 1]  OBVIOUS
<1>5. w.queue + 1 \in Nat /\ w.queue + 1 # 0  BY <1>3 DEF Watches
<1>6. /\ v \in Watches /\ v.queue = w.queue + 1 /\ v.live = w.live /\ v.eof = w.eof
      /\ v.armed = w.armed /\ (Pending(w) => Pending(v))
  BY <1>3, <1>4, <1>5 DEF Watches, Pending
<1>7. watch' = [watch EXCEPT ![sock] = v]
  BY <1>1, <1>2, <1>4 DEF LinkConnects, WatchTypeOK
<1>8. app'.link = sock /\ app.link = Trying /\ UNCHANGED <<phase, listens, asked>>
  BY DEF LinkConnects, AppTypeOK, procs, paths, flags
<1>9. Counts(w, FALSE)
  BY <1>1, <1>2, <1>8, DaemonIds, LinkCounts DEF WatchSound, Counts, DaemonOrNone
<1>10. Counts(v, app'.link = sock)  BY <1>5, <1>6, <1>9 DEF Counts
<1>11. ~v.armed \/ v.live # 0 \/ sock \in asked' \/ Pending(v)
  BY <1>1, <1>2, <1>6, <1>8, DaemonIds
     DEF WatchSound, DisconnectNotLost, Unattended, Running, Served, Pending
<1>12. \A e \in Daemon \ {sock} : app'.link = e <=> app.link = e
  BY <1>8, DaemonIds DEF DaemonOrNone
<1>13. WatchTypeOK'  BY <1>1, <1>6, <1>7, OneWatch
<1> QED  BY <1>1, <1>6, <1>7, <1>8, <1>10, <1>11, <1>12, <1>13, WatchMoves

\* The listener closes: connections that nobody took are gone.
LEMMA WatchCloses ==
  ASSUME WatchTypeOK, AppTypeOK, PathTypeOK, WatchSound, NEW d \in Daemon, CloseListener(d)
  PROVE  WatchTypeOK' /\ WatchSound'
<1>1. d \in listens /\ phase[d] \in Served
  BY DEF CloseListener, WatchSound, ListenSound
<1>2. PICK w : w = watch[d]  OBVIOUS
<1>3. w \in Watches  BY <1>2 DEF WatchTypeOK
<1>4. PICK v : v = [w EXCEPT !.queue = 0]  OBVIOUS
<1>5. /\ v \in Watches /\ v.queue = 0 /\ v.live = w.live /\ v.eof = w.eof
      /\ v.armed = w.armed /\ (Pending(w) => Pending(v))
  BY <1>3, <1>4 DEF Watches, Pending
<1>6. watch' = [watch EXCEPT ![d] = v]  BY <1>2, <1>4 DEF CloseListener, WatchTypeOK
<1>7. app'.link = IF app.link = d /\ w.queue > 0 THEN Trying ELSE app.link
  BY <1>2 DEF CloseListener, AppTypeOK
<1>8. phase' = phase /\ asked' = asked /\ listens' = listens \ {d}
  BY DEF CloseListener, procs, flags
<1>9. Counts(w, app.link = d)  BY <1>2, LinkCounts DEF WatchSound
<1>10. app'.link = d <=> app.link = d /\ w.queue = 0
  BY <1>3, <1>7, DaemonIds DEF Watches, DaemonOrNone
<1>11. Counts(v, app'.link = d)  BY <1>5, <1>9, <1>10 DEF Counts
<1>12. ~v.armed \/ v.live # 0 \/ d \in asked' \/ Pending(v)
  BY <1>1, <1>2, <1>5, <1>8, DaemonIds
     DEF WatchSound, DisconnectNotLost, Unattended, Running, Served, Pending
<1>13. \A e \in Daemon \ {d} : app'.link = e <=> app.link = e
  BY <1>7, DaemonIds DEF DaemonOrNone
<1>14. WatchTypeOK'  BY <1>5, <1>6, OneWatch
<1>15. ~(v.queue > 0)  BY <1>5
<1> QED  BY <1>1, <1>5, <1>6, <1>8, <1>11, <1>12, <1>13, <1>14, <1>15, WatchMoves

\* Every other step.
LEMMA ApartSteps ==
  ASSUME DaemonTypeOK, [DaemonNext]_daemonVars,
         \A d \in Daemon : ~Exit(d) /\ ~Crash(d) /\ ~Accept(d) /\ ~WatchConn(d) /\ ~ArmGrace(d)
                             /\ ~TimerElapses(d) /\ ~LooseElapses(d) /\ ~OldElapses(d) /\ ~Fire(d)
                             /\ ~CloseListener(d),
         ~LinkConnects
  PROVE  /\ Apart
         /\ \/ watch' = watch /\ app'.link = app.link
            \/ Hangs /\ app'.link \notin Daemon
<1> USE DaemonIds
    DEF DaemonTypeOK, ProcessTypeOK, PathTypeOK, AppTypeOK, procs, paths, flags, Goes, Apart, Served
<1>1. ASSUME NEW d \in Daemon, StartHeadless(d) \/ Wedge(d)
      PROVE  Apart /\ watch' = watch /\ app'.link = app.link
  BY <1>1 DEF StartHeadless, Wedge, Launch
<1>2. ASSUME NEW d \in Daemon, CheckStale(d) \/ Refuse(d) \/ Proceed(d) \/ Bind(d) \/ Publish(d)
                               \/ BeginDrain(d) \/ DrainEnds(d) \/ RemoveOwned(d)
      PROVE  Apart /\ watch' = watch /\ app'.link = app.link
  BY <1>2 DEF CheckStale, Refuse, Proceed, Bind, Publish, BeginDrain, DrainEnds, RemoveOwned,
              DaemonOnly, Returned
<1>3. CASE AppStarts \/ AppReads \/ AppProbesPort \/ AppClears \/ AppSpawns \/ AppSeesExit \/ AppAborts
  <2>1. app'.link = app.link
    <3>1. CASE AppStarts  BY <3>1 DEF AppStarts
    <3>2. CASE AppReads  BY <3>2 DEF AppReads
    <3>3. CASE AppProbesPort  BY <3>3 DEF AppProbesPort
    <3>4. CASE AppClears  BY <3>4 DEF AppClears
    <3>5. CASE AppSpawns  BY <3>5 DEF AppSpawns
    <3>6. CASE AppSeesExit  BY <3>6 DEF AppSeesExit
    <3>7. CASE AppAborts  BY <3>7 DEF AppAborts
    <3> QED  BY <1>3, <3>1, <3>2, <3>3, <3>4, <3>5, <3>6, <3>7
  <2>2. /\ UNCHANGED <<watch, asked, listens>>
        /\ \A d \in Daemon : phase[d] \in Served => phase'[d] \in Served
    BY <1>3 DEF AppStarts, AppReads, AppProbesPort, AppClears, AppSpawns, AppSeesExit, AppAborts,
                AppOnly, Launch
  <2> QED  BY <2>1, <2>2
<1>4. CASE AppAttaches \/ AppReadsOwner
  <2>1. UNCHANGED <<phase, asked, listens>>  BY <1>4 DEF AppAttaches, AppReadsOwner
  <2>2. \/ app'.link = app.link /\ watch' = watch
        \/ app'.link = Trying /\ Hangs
    BY <1>4 DEF AppAttaches, AppReadsOwner, LinkFor, Relink
  <2> QED  BY <2>1, <2>2 DEF DaemonOrNone
<1>5. CASE AppConfirms \/ AppCrashes
  <2>1. UNCHANGED <<phase, asked, listens>> /\ Hangs  BY <1>5 DEF AppConfirms, AppCrashes
  <2>2. CASE AppConfirms
    <3>1. app'.link = Trying  BY <2>2 DEF AppConfirms
    <3> QED  BY <2>1, <3>1 DEF DaemonOrNone
  <2>3. CASE AppCrashes
    <3>1. app'.link = None  BY <2>3 DEF AppCrashes, Closed
    <3> QED  BY <2>1, <3>1
  <2> QED  BY <1>5, <2>2, <2>3
<1>6. CASE AppReplaces \/ AppStops \/ AppQuits
  <2>1. UNCHANGED <<asked, listens>>  BY <1>6 DEF AppReplaces, AppStops, AppQuits, Quiet
  <2>2. \A d \in Daemon : phase[d] \in Served => phase'[d] \in Served
    BY <1>6 DEF AppReplaces, AppStops, AppQuits, Signal, Booting
  <2>3. \/ app'.link = app.link /\ watch' = watch
        \/ app'.link = None /\ Hangs
    <3>1. CASE AppReplaces  BY <3>1 DEF AppReplaces
    <3>2. CASE AppStops  BY <3>2 DEF AppStops
    <3>3. CASE AppQuits  BY <3>3 DEF AppQuits, Closed
    <3> QED  BY <1>6, <3>1, <3>2, <3>3
  <2> QED  BY <2>1, <2>2, <2>3
<1>7. CASE Stop
  BY <1>7 DEF Stop, StopReads, StopProbes, StopPosts, StopWaits, StopRemoves, StopOnly
<1>8. CASE UNCHANGED daemonVars  BY <1>8 DEF daemonVars
<1> QED
  BY <1>1, <1>2, <1>3, <1>4, <1>5, <1>6, <1>7, <1>8 DEF DaemonNext, Main, Watchdog, App

-----------------------------------------------------------------------------
(* DaemonProcess: the theorems.                                            *)

LEMMA DaemonInitInv == DaemonInit => DaemonTypeOK /\ WatchSound
<1> SUFFICES ASSUME DaemonInit PROVE DaemonTypeOK /\ WatchSound
  OBVIOUS
<1>1. Asleep \in Watches  BY DEF Asleep, Watches
<1>2. DaemonTypeOK
  BY <1>1, DaemonAssumption
     DEF DaemonInit, DaemonTypeOK, ProcessTypeOK, PathTypeOK, AppTypeOK, StopTypeOK, WatchTypeOK,
         DaemonOrNone, Closed
<1>3. WatchSound
  BY DaemonIds
     DEF DaemonInit, WatchSound, ListenSound, LinkSound, Linked, DisconnectNotLost, Unattended, Asleep,
         Closed, None
<1> QED  BY <1>2, <1>3

LEMMA DaemonNextInv ==
  ASSUME DaemonTypeOK, WatchSound, [DaemonNext]_daemonVars
  PROVE  DaemonTypeOK' /\ WatchSound'
<1>1. WatchTypeOK' /\ WatchSound'
  <2>1. ASSUME NEW d \in Daemon, Exit(d) \/ Crash(d) PROVE WatchTypeOK' /\ WatchSound'
    BY <2>1, WatchEnds DEF DaemonTypeOK, Exit, Crash
  <2>2. ASSUME NEW d \in Daemon,
               Accept(d) \/ WatchConn(d) \/ ArmGrace(d) \/ TimerElapses(d) \/ LooseElapses(d)
               \/ OldElapses(d) \/ Fire(d)
        PROVE  WatchTypeOK' /\ WatchSound'
    BY <2>2, WatchdogSteps DEF DaemonTypeOK
  <2>3. CASE LinkConnects  BY <2>3, WatchConnects DEF DaemonTypeOK
  <2>5. ASSUME NEW d \in Daemon, CloseListener(d) PROVE WatchTypeOK' /\ WatchSound'
    BY <2>5, WatchCloses DEF DaemonTypeOK
  <2>4. CASE /\ \A d \in Daemon :
                  /\ ~Exit(d) /\ ~Crash(d) /\ ~Accept(d) /\ ~WatchConn(d) /\ ~ArmGrace(d)
                  /\ ~TimerElapses(d) /\ ~LooseElapses(d) /\ ~OldElapses(d) /\ ~Fire(d)
                  /\ ~CloseListener(d)
             /\ ~LinkConnects
    <3>1. /\ Apart
          /\ \/ watch' = watch /\ app'.link = app.link
             \/ Hangs /\ app'.link \notin Daemon
      BY <2>4, ApartSteps
    <3>2. CASE watch' = watch /\ app'.link = app.link
      BY <3>1, <3>2, WatchRests DEF DaemonTypeOK, WatchTypeOK
    <3>3. CASE Hangs /\ app'.link \notin Daemon
      BY <3>1, <3>3, WatchHangs DEF DaemonTypeOK
    <3> QED  BY <3>1, <3>2, <3>3
  <2> QED  BY <2>1, <2>2, <2>3, <2>4, <2>5
<1> QED
  BY <1>1, ProcessTypeOKNext, PathTypeOKNext, AppTypeOKNext, StopTypeOKNext DEF DaemonTypeOK

\* The types of the processes, the paths they share, the app and ao stop, and what the
\* watchdog counts: only a daemon that has got as far as its listener has connections, and its
\* count is that of the connections it took, the app's among them, less those counted out.
THEOREM DaemonInvariant == DaemonSpec => [](DaemonTypeOK /\ WatchSound)
<1> QED  BY DaemonInitInv, DaemonNextInv, PTL DEF DaemonSpec

\* However connections come and go between the two locks of a disconnect and while timers
\* run out (watchConn, armGrace): once the last is counted, something is left that will
\* ask for the shutdown.
THEOREM NoDisconnectIsLost == DaemonSpec => []DisconnectNotLost
<1>1. WatchSound => DisconnectNotLost  BY DEF WatchSound
<1> QED  BY <1>1, DaemonInvariant, PTL

\* Only a timer that elapses makes the watchdog fire.
LEMMA WhoFires ==
  ASSUME DaemonTypeOK, [DaemonNext]_daemonVars, NEW d \in Daemon, ~watch[d].firing, watch'[d].firing
  PROVE  watch[d].live = 0
<1>1. watch[d] \in Watches  BY DEF DaemonTypeOK, WatchTypeOK
<1>2. ASSUME NEW e \in Daemon, NEW v \in Watches, watch' = [watch EXCEPT ![e] = v],
             v.firing = watch[e].firing
      PROVE  FALSE
  BY <1>2 DEF DaemonTypeOK, WatchTypeOK
<1>3. ASSUME NEW e \in Daemon, NEW u, Elapse(e, u), u \in Watches,
             u.live = watch[e].live, u.firing = watch[e].firing
      PROVE  watch[d].live = 0
  <2>1. PICK v : v = [u EXCEPT !.firing = @ \/ u.live = 0]  OBVIOUS
  <2>2. watch' = [watch EXCEPT ![e] = v]  BY <1>3, <2>1 DEF Elapse
  <2>3. v \in Watches /\ v.firing = (u.firing \/ u.live = 0)  BY <1>3, <2>1 DEF Watches
  <2>4. e = d /\ watch'[d] = v  BY <2>2 DEF DaemonTypeOK, WatchTypeOK
  <2> QED  BY <1>3, <2>3, <2>4
<1>4. ASSUME NEW e \in Daemon, Exit(e) \/ Crash(e) PROVE FALSE
  BY <1>4 DEF Exit, Crash, Ends, Asleep, DaemonTypeOK, WatchTypeOK
<1>5. ASSUME NEW e \in Daemon, WatchConn(e) PROVE FALSE
  <2>1. PICK w : w = watch[e]  OBVIOUS
  <2>2. PICK v : v = [w EXCEPT !.live = w.live - 1, !.eof = w.eof - 1,
                               !.arming = w.arming + IF w.armed /\ w.live = 1 THEN 1 ELSE 0]
    OBVIOUS
  <2>3. watch' = [watch EXCEPT ![e] = v]  BY <1>5, <2>1, <2>2 DEF WatchConn
  <2>4. v.firing = watch[e].firing  BY <2>1, <2>2 DEF DaemonTypeOK, WatchTypeOK, Watches
  <2> QED  BY <2>3, <2>4 DEF DaemonTypeOK, WatchTypeOK
<1>6. ASSUME NEW e \in Daemon, ArmGrace(e) PROVE FALSE
  <2>1. PICK w : w = watch[e]  OBVIOUS
  <2>2. PICK v : v = [w EXCEPT !.arming = w.arming - 1, !.timer = TRUE, !.loose = FALSE,
                               !.old = w.old + (IF w.timer THEN 1 ELSE 0) + (IF w.loose THEN 1 ELSE 0)]
    OBVIOUS
  <2>3. watch' = [watch EXCEPT ![e] = v]  BY <1>6, <2>1, <2>2 DEF ArmGrace
  <2>4. v.firing = watch[e].firing  BY <2>1, <2>2 DEF DaemonTypeOK, WatchTypeOK, Watches
  <2> QED  BY <2>3, <2>4 DEF DaemonTypeOK, WatchTypeOK
<1>7. ASSUME NEW e \in Daemon, TimerElapses(e) \/ LooseElapses(e) \/ OldElapses(e)
      PROVE  watch[d].live = 0
  <2>1. PICK w : w = watch[e]  OBVIOUS
  <2>2. w \in Watches  BY <2>1 DEF DaemonTypeOK, WatchTypeOK
  <2>3. CASE TimerElapses(e)
    <3>1. PICK u : u = [w EXCEPT !.timer = FALSE]  OBVIOUS
    <3>2. u \in Watches /\ u.live = w.live /\ u.firing = w.firing  BY <2>2, <3>1 DEF Watches
    <3>3. Elapse(e, u)  BY <2>1, <2>3, <3>1 DEF TimerElapses
    <3> QED  BY <1>3, <2>1, <3>2, <3>3
  <2>4. CASE LooseElapses(e)
    <3>1. PICK u : u = [w EXCEPT !.loose = FALSE]  OBVIOUS
    <3>2. u \in Watches /\ u.live = w.live /\ u.firing = w.firing  BY <2>2, <3>1 DEF Watches
    <3>3. Elapse(e, u)  BY <2>1, <2>4, <3>1 DEF LooseElapses
    <3> QED  BY <1>3, <2>1, <3>2, <3>3
  <2>5. CASE OldElapses(e)
    <3>1. PICK b : b = (w.timer \/ w.loose)  OBVIOUS
    <3>2. PICK u : u = [w EXCEPT !.old = w.old - 1, !.timer = FALSE, !.loose = b]  OBVIOUS
    <3>3. w.old > 0 /\ Elapse(e, u)  BY <2>1, <2>5, <3>1, <3>2 DEF OldElapses
    <3>4. w.old - 1 \in Nat /\ b \in BOOLEAN  BY <2>2, <3>1, <3>3 DEF Watches
    <3>5. u \in Watches /\ u.live = w.live /\ u.firing = w.firing
      BY <2>2, <3>2, <3>4 DEF Watches
    <3> QED  BY <1>3, <2>1, <3>3, <3>5
  <2> QED  BY <1>7, <2>3, <2>4, <2>5
<1>8. ASSUME NEW e \in Daemon, Fire(e) PROVE FALSE
  BY <1>8 DEF Fire, DaemonTypeOK, WatchTypeOK, Watches
<1>9. CASE LinkConnects
  <2>1. PICK s : s = sock  OBVIOUS
  <2>2. PICK w : w = watch[s]  OBVIOUS
  <2>3. PICK v : v = [w EXCEPT !.queue = w.queue + 1]  OBVIOUS
  <2>4. watch' = [watch EXCEPT ![s] = v]
    BY <1>9, <2>1, <2>2, <2>3 DEF LinkConnects, DaemonTypeOK, WatchTypeOK
  <2>5. s \in Daemon => v.firing = watch[s].firing
    BY <2>2, <2>3 DEF DaemonTypeOK, WatchTypeOK, Watches
  <2> QED  BY <2>4, <2>5 DEF DaemonTypeOK, WatchTypeOK
<1>11. ASSUME NEW e \in Daemon, Accept(e) PROVE FALSE
  <2>1. PICK w : w = watch[e]  OBVIOUS
  <2>2. PICK v : v = Accepted(w, app.link # e \/ w.queue > 1)  OBVIOUS
  <2>3. watch' = [watch EXCEPT ![e] = v]  BY <1>11, <2>1, <2>2 DEF Accept
  <2>4. v.firing = watch[e].firing
    BY <2>1, <2>2 DEF Accepted, DaemonTypeOK, WatchTypeOK, Watches
  <2> QED  BY <2>3, <2>4 DEF DaemonTypeOK, WatchTypeOK
<1>12. ASSUME NEW e \in Daemon, CloseListener(e) PROVE FALSE
  <2>1. PICK v : v = [watch[e] EXCEPT !.queue = 0]  OBVIOUS
  <2>2. watch' = [watch EXCEPT ![e] = v]
    BY <1>12, <2>1 DEF CloseListener, DaemonTypeOK, WatchTypeOK
  <2>3. v.firing = watch[e].firing  BY <2>1 DEF DaemonTypeOK, WatchTypeOK, Watches
  <2> QED  BY <2>2, <2>3 DEF DaemonTypeOK, WatchTypeOK
<1>10. CASE /\ \A e \in Daemon :
                  /\ ~Exit(e) /\ ~Crash(e) /\ ~Accept(e) /\ ~WatchConn(e) /\ ~ArmGrace(e)
                  /\ ~TimerElapses(e) /\ ~LooseElapses(e) /\ ~OldElapses(e) /\ ~Fire(e)
                  /\ ~CloseListener(e)
            /\ ~LinkConnects
  <2>1. watch' = watch \/ Hangs  BY <1>10, ApartSteps
  <2>2. CASE Hangs
    <3>1. watch'[d] = IF Linked(d) THEN [watch[d] EXCEPT !.eof = @ + 1] ELSE watch[d]
      BY <2>2 DEF Hangs
    <3>2. [watch[d] EXCEPT !.eof = @ + 1].firing = watch[d].firing  BY <1>1 DEF Watches
    <3> QED  BY <3>1, <3>2
  <2> QED  BY <2>1, <2>2
<1> QED  BY <1>4, <1>5, <1>6, <1>7, <1>8, <1>9, <1>10, <1>11, <1>12

\* No timer, however late or forgotten, takes an app for gone whose connection the daemon
\* has taken (Serve, armGrace).
THEOREM NoAlarmIsFalse == DaemonSpec => NoFalseAlarm
<1>1. DaemonTypeOK /\ WatchSound /\ [DaemonNext]_daemonVars
        => [\A d \in Daemon : ~watch[d].firing /\ watch'[d].firing => ~Linked(d)]_daemonVars
  <2> SUFFICES ASSUME DaemonTypeOK, WatchSound, [DaemonNext]_daemonVars, NEW d \in Daemon,
                      ~watch[d].firing, watch'[d].firing
               PROVE  ~Linked(d)
    OBVIOUS
  <2>1. watch[d].live = 0  BY WhoFires
  <2>2. watch[d].eof \in Nat  BY DEF DaemonTypeOK, WatchTypeOK, Watches
  <2> QED  BY <2>1, <2>2 DEF WatchSound, LinkSound
<1> QED  BY <1>1, DaemonInvariant, PTL DEF NoFalseAlarm, DaemonSpec
=============================================================================
