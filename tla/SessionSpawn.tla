----------------------------- MODULE SessionSpawn -----------------------------
(***************************************************************************)
(* Spawn and its rollback, the orchestrator's lock and replacement, and    *)
(* the Kill and Cleanup requests that run beside them, in one project      *)
(* (internal/session_manager/manager.go, internal/service/session).        *)
(*                                                                         *)
(* A session is its number: its row, its runtime and, for a worker, its    *)
(* worktree are named after it, and a deleted row gives its number back.   *)
(* Orchestrators share one canonical worktree.                             *)
(*                                                                         *)
(* A request runs a handler once.  Any call of it may fail: a rollback and *)
(* a cleanup ignore it and go on, a kill and a retirement return.  That    *)
(* the context is cut, by the request timeout or the client, or that the   *)
(* daemon ends, is the failure of all the calls to come.                   *)
(* Restore and boot are SaveRestore's.                                     *)
(***************************************************************************)
EXTENDS Integers, Sequences, FiniteSets

CONSTANTS
  Req,     \* requests
  NoReq,   \* creator of no row
  Ops,     \* what they ask for
  MaxId    \* sessions on record at a time

ASSUME SpawnAssumption ==
  /\ NoReq \notin Req /\ IsFiniteSet(Req)
  /\ MaxId \in Nat
  /\ Ops \subseteq {"worker", "plain", "ensure", "replace", "kill", "cleanup"}

VARIABLES
  row,    \* sessions; "held": the handles of the runtime and the worktree are on record
  tree,   \* worktrees: "none", "clean" or "dirty"
  tmux,   \* runtimes
  job,    \* what a request is at: calls to come, and what is left of a list it loops over
  missed  \* history: what a rollback's failing calls left standing, until another call gets it

vars == <<row, tree, tmux, job, missed>>

Id == 1..MaxId
Canonical == 0   \* the orchestrators' worktree

Absent == [state |-> "absent", kind |-> "worker", held |-> FALSE, by |-> NoReq]
Present(i) == row[i].state # "absent"
Running(i) == row[i].state \in {"seed", "live"}
Orchestrators == {i \in Id : Running(i) /\ row[i].kind = "orchestrator"}

\* managedPath
Place(kind, i) == IF kind = "orchestrator" THEN Canonical ELSE i

Spawns == {"worker", "plain", "ensure", "replace"}   \* "plain": POST /sessions with that kind
Locking == {"ensure", "replace"}                     \* POST /orchestrators
Ended == {"done", "failed"}

Kind(op) == IF op = "worker" THEN "worker" ELSE "orchestrator"
Mine(r) == job[r].id
Own(r) == job[r].op \in Spawns /\ Mine(r) # 0
MyTree(r) == Place(Kind(job[r].op), Mine(r))

At(r, where) == job[r].pc = where
Becomes(r, rec) == job' = [job EXCEPT ![r] = rec]
Goes(r, where) == Becomes(r, [job[r] EXCEPT !.pc = where])
\* A call of the spawn fails: the rollback follows.
FailsInto(r, calls) == Becomes(r, [job[r] EXCEPT !.pc = "tear", !.todo = calls])
Starts(r, op, where, i) ==
  Becomes(r, [op |-> op, pc |-> where, id |-> i, todo |-> <<>>, left |-> {}])
Lists(r, op, calls) ==
  Becomes(r, [op |-> op, pc |-> "tear", id |-> 0, todo |-> <<>>, left |-> calls])
Call(what, i, p) == [do |-> what, id |-> i, place |-> p]
Has(r, what) == \E n \in DOMAIN job[r].todo : job[r].todo[n].do \in what
\* A call got what it went for.
Gets(what, n) == missed' = [missed EXCEPT ![what] = @ \ {n}]

-----------------------------------------------------------------------------
(* Requests arrive.                                                        *)

\* What ends a session: if its handles are on record, its runtime goes and the given
\* call takes its worktree; its row is parked.
Ends(i, remove) ==
  IF row[i].held
  THEN <<Call("runtime", i, 0), Call(remove, i, Place(row[i].kind, i)), Call("park", i, 0)>>
  ELSE <<Call("park", i, 0)>>

\* Kill reads the row, and acts on what it read.
AskKill(r) ==
  /\ At(r, "idle") /\ "kill" \in Ops
  /\ \E i \in Id :
       /\ Present(i)
       /\ Becomes(r, [op |-> "kill", pc |-> "tear", id |-> i, left |-> {},
                      todo |-> Ends(i, "tree")])
  /\ UNCHANGED <<row, tree, tmux, missed>>

\* Cleanup lists the terminated sessions that record a worktree.
AskCleanup(r) ==
  /\ At(r, "idle") /\ "cleanup" \in Ops
  /\ Lists(r, "cleanup", {Call("reclaim", i, Place(row[i].kind, i)) :
                            i \in {j \in Id : row[j].state = "dead" /\ row[j].held}})
  /\ UNCHANGED <<row, tree, tmux, missed>>

-----------------------------------------------------------------------------
(* SpawnOrchestrator.                                                      *)

Locked(r) == job[r].op \in Locking /\ job[r].pc \notin Ended

\* Mutant: the check and the spawn are not one.
LockFreeNot == TRUE

\* lockOrchestratorProject
LockFree == \A r \in Req : ~Locked(r)

\* Without clean, the orchestrator that runs is returned; with it, each is retired.
AskOrchestrator(r) ==
  /\ At(r, "idle") /\ LockFree
  /\ \/ /\ "ensure" \in Ops
        /\ Starts(r, "ensure", IF Orchestrators = {} THEN "create" ELSE "done", 0)
     \/ /\ "replace" \in Ops
        /\ Lists(r, "replace", {Call("retire", i, 0) : i \in Orchestrators})
  /\ UNCHANGED <<row, tree, tmux, missed>>

-----------------------------------------------------------------------------
(* Spawn.                                                                  *)

\* Mutant: one more than there are.
NextCount(n) == n = 1 + Cardinality({i \in Id : Present(i)})

\* CreateSession: NextSessionNum is one more than the greatest.
NextNum(n) == n - 1 \in {0} \cup {i \in Id : Present(i)} /\ \A i \in Id : Present(i) => i < n

NewRow(r, kind, n) ==
  /\ n \in Id /\ NextNum(n)
  /\ row' = [row EXCEPT ![n] = [state |-> "seed", kind |-> kind, held |-> FALSE, by |-> r]]

\* A request for a session, and SpawnOrchestrator once it has looked.
Spawned(r, op, n) == NewRow(r, Kind(op), n) /\ Starts(r, op, "workspace", n)

AskSpawn(r) ==
  /\ At(r, "idle")
  /\ \E op \in Ops \cap {"worker", "plain"}, n \in Id : Spawned(r, op, n)
  /\ UNCHANGED <<tree, tmux, missed>>

Create(r) ==
  /\ At(r, "create")
  /\ \E n \in Id :
       /\ NewRow(r, "orchestrator", n)
       /\ Becomes(r, [job[r] EXCEPT !.id = n, !.pc = "workspace"])
  /\ UNCHANGED <<tree, tmux, missed>>

\* The rollbacks, by how far the spawn got.
DeleteRow(r) == <<Call("delete", Mine(r), 0)>>

\* Mutant: the number is free before the worktree is gone.
UndoRowFirst(r) == <<Call("delete", Mine(r), 0), Call("tree", Mine(r), MyTree(r))>>

UndoTree(r) == <<Call("tree", Mine(r), MyTree(r)), Call("delete", Mine(r), 0)>>

\* Mutant: the runtime is left to itself.
UndoTreeOnly(r) == <<Call("tree", Mine(r), MyTree(r)), Call("park", Mine(r), 0)>>

UndoLaunch(r) ==
  <<Call("runtime", Mine(r), 0), Call("tree", Mine(r), MyTree(r)), Call("park", Mine(r), 0)>>
UndoDelivery(r) ==
  <<Call("runtime", Mine(r), 0), Call("tree", Mine(r), MyTree(r)), Call("park", Mine(r), 0),
    Call("clear", Mine(r), 0)>>

\* The system prompt file, and the worktree, which is adopted if there is one.  What
\* provisioning, hooks and the agent will leave in it may be uncommitted.
Workspace(r) ==
  /\ At(r, "workspace")
  /\ \/ /\ \E made \in {"clean", "dirty"} :
             tree' = [tree EXCEPT ![MyTree(r)] = IF @ = "none" THEN made ELSE @]
        /\ Gets("tree", MyTree(r)) /\ Goes(r, "launch")
     \/ FailsInto(r, DeleteRow(r)) /\ UNCHANGED <<tree, missed>>
  /\ UNCHANGED <<row, tmux>>

\* Provisioning, the launch command and the runtime, whose name may be in use.
Launch(r) ==
  /\ At(r, "launch")
  /\ \/ /\ Mine(r) \notin tmux
        /\ tmux' = tmux \cup {Mine(r)} /\ Goes(r, "mark")
     \/ FailsInto(r, UndoTree(r)) /\ UNCHANGED tmux
  /\ UNCHANGED <<row, tree, missed>>

\* MarkSpawned: whatever its state was, the row is live.
Mark(r) ==
  /\ At(r, "mark")
  /\ \/ /\ Present(Mine(r))
        /\ row' = [row EXCEPT ![Mine(r)] = [@ EXCEPT !.state = "live", !.held = TRUE]]
        /\ Goes(r, "deliver")
     \/ FailsInto(r, UndoLaunch(r)) /\ UNCHANGED row
  /\ UNCHANGED <<tree, tmux, missed>>

\* The prompt of a harness that takes it after the start.  The read of the row that follows
\* changes nothing.
Deliver(r) ==
  /\ At(r, "deliver")
  /\ Goes(r, "done") \/ FailsInto(r, UndoDelivery(r))
  /\ UNCHANGED <<row, tree, tmux, missed>>

-----------------------------------------------------------------------------
(* One call of a teardown.                                                 *)

Then(r, calls) == Becomes(r, [job[r] EXCEPT !.todo = calls])
Onward(r) == Then(r, Tail(job[r].todo))

\* MarkTerminated
Parked(i) == IF Running(i) THEN [row EXCEPT ![i].state = "dead"] ELSE row

\* A call of a kill, or of a retirement, fails: what it had to do stays undone.
Pending(r) == job[r].todo # <<>> \/ job[r].left # {}

CutOff(r) ==
  /\ At(r, "tear") /\ Pending(r)
  /\ job[r].op \in {"kill", "replace"} /\ ~Own(r)
  /\ Goes(r, "failed")
  /\ UNCHANGED <<row, tree, tmux, missed>>

\* A worktree with work in it is refused.
Refused(r) == LET c == Head(job[r].todo) IN c.do = "tree" /\ tree[c.place] = "dirty"

\* Kill leaves such a session as it is, and says so.
KillRefused(r) ==
  /\ At(r, "tear") /\ job[r].todo # <<>> /\ Refused(r)
  /\ job[r].op = "kill" /\ Then(r, <<>>)
  /\ UNCHANGED <<row, tree, tmux, missed>>

\* There is something for the call to get.
Stands(c) ==
  \/ c.do = "runtime" /\ c.id \in tmux
  \/ c.do = "tree" /\ tree[c.place] # "none"
  \/ c.do = "park" /\ Running(c.id)

\* A rollback ignores the call that fails or is refused, as Cleanup does, and goes on; a
\* row that cannot be deleted is parked.
CallFails(r) ==
  LET c == Head(job[r].todo) IN
  /\ At(r, "tear") /\ job[r].todo # <<>>
  /\ Own(r) \/ job[r].op = "cleanup"
  /\ IF c.do = "delete" THEN Then(r, <<Call("park", c.id, 0)>>) ELSE Onward(r)
  /\ IF Own(r) /\ Stands(c)
     THEN missed' = [missed EXCEPT ![c.do] = @ \cup {IF c.do = "tree" THEN c.place ELSE c.id}]
     ELSE UNCHANGED missed
  /\ UNCHANGED <<row, tree, tmux>>

Does(r, what) ==
  /\ At(r, "tear") /\ job[r].todo # <<>> /\ ~Refused(r)
  /\ Head(job[r].todo).do \in what
On(r) == Head(job[r].todo).id

DestroyRuntime(r) ==
  /\ Does(r, {"runtime"})
  /\ tmux' = tmux \ {On(r)} /\ Gets("runtime", On(r))
  /\ Onward(r) /\ UNCHANGED <<row, tree>>

\* Destroy, or ForceDestroy, of whatever is at the place.
DestroyTree(r) ==
  /\ Does(r, {"tree", "force"})
  /\ tree' = [tree EXCEPT ![Head(job[r].todo).place] = "none"]
  /\ Gets("tree", Head(job[r].todo).place)
  /\ Onward(r) /\ UNCHANGED <<row, tmux>>

\* The loop over what was listed goes by the numbers.
TakesUp(r, what, c, calls) ==
  /\ At(r, "tear") /\ job[r].todo = <<>>
  /\ c \in job[r].left /\ c.do = what
  /\ \A d \in job[r].left : c.id <= d.id
  /\ Becomes(r, [job[r] EXCEPT !.left = @ \ {c}, !.todo = calls])
  /\ UNCHANGED <<row, tree, tmux, missed>>

\* RetireForReplacement reads the row once more, Cleanup keeps to what it listed.
Retire(r) ==
  \E c \in job[r].left :
    TakesUp(r, "retire", c,
      IF Running(c.id) THEN Ends(c.id, "force") ELSE <<>>)
Reclaim(r) ==
  \E c \in job[r].left :
    TakesUp(r, "reclaim", c, <<Call("runtime", c.id, 0), Call("tree", c.id, c.place)>>)

\* rollbackSpawnSeedRow: a seed is deleted, a row that got further is parked.
Deleted(i) == IF row[i].state = "seed" THEN [row EXCEPT ![i] = Absent] ELSE Parked(i)

Delete(r) ==
  /\ Does(r, {"delete"})
  /\ row' = Deleted(On(r)) /\ Gets("park", On(r))
  /\ Onward(r) /\ UNCHANGED <<tree, tmux>>

Park(r) ==
  /\ Does(r, {"park"})
  /\ row' = Parked(On(r)) /\ Gets("park", On(r))
  /\ Onward(r) /\ UNCHANGED <<tree, tmux>>

\* markSpawnFailedTerminatedWithoutWorkspace drops the handles.
Clear(r) ==
  /\ Does(r, {"clear"})
  /\ row' = IF Present(On(r)) THEN [row EXCEPT ![On(r)].held = FALSE] ELSE row
  /\ Onward(r) /\ UNCHANGED <<tree, tmux, missed>>

\* A retired orchestrator makes room for the next, a rollback is a failed spawn.
Torn(r) ==
  /\ At(r, "tear") /\ ~Pending(r)
  /\ Goes(r, IF job[r].op = "replace" /\ Mine(r) = 0 THEN "create"
             ELSE IF job[r].op \in Spawns THEN "failed" ELSE "done")
  /\ UNCHANGED <<row, tree, tmux, missed>>

Teardown(r) ==
  \/ CutOff(r) \/ KillRefused(r) \/ CallFails(r) \/ DestroyRuntime(r) \/ DestroyTree(r)
  \/ Delete(r) \/ Park(r) \/ Clear(r) \/ Retire(r) \/ Reclaim(r) \/ Torn(r)

-----------------------------------------------------------------------------

Idle == [op |-> "none", pc |-> "idle", id |-> 0, todo |-> <<>>, left |-> {}]

Init ==
  /\ row = [i \in Id |-> Absent]
  /\ tree = [p \in Id \cup {Canonical} |-> "none"]
  /\ tmux = {}
  /\ job = [r \in Req |-> Idle]
  /\ missed = [what \in {"runtime", "tree", "park"} |-> {}]

Step(r) ==
  \/ AskSpawn(r) \/ AskOrchestrator(r) \/ AskKill(r) \/ AskCleanup(r)
  \/ Create(r) \/ Workspace(r) \/ Launch(r) \/ Mark(r) \/ Deliver(r)
  \/ Teardown(r)

Next == \E r \in Req : Step(r)

Spec == Init /\ [][Next]_vars

-----------------------------------------------------------------------------
(* Properties.                                                             *)

Calls == [do : {"runtime", "tree", "force", "delete", "park", "clear", "retire", "reclaim"},
          id : Id, place : Id \cup {Canonical}]

\* The type invariant; a spawn under way has its row to itself.
SpawnTypeOK ==
  /\ row \in [Id -> [state : {"absent", "seed", "live", "dead"}, kind : {"worker", "orchestrator"},
                     held : BOOLEAN, by : Req \cup {NoReq}]]
  /\ tree \in [Id \cup {Canonical} -> {"none", "clean", "dirty"}]
  /\ tmux \subseteq Id
  /\ missed \in [{"runtime", "tree", "park"} -> SUBSET (Id \cup {Canonical})]
  /\ job \in [Req ->
       [op : {"none", "worker", "plain", "ensure", "replace", "kill", "cleanup"},
        pc : {"idle", "create", "workspace", "launch", "mark", "deliver", "tear", "done", "failed"},
        id : Id \cup {0}, todo : Seq(Calls), left : SUBSET Calls]]
  /\ \A r \in Req : job[r].pc \in {"workspace", "launch", "mark", "deliver"} => row[Mine(r)].by = r

\* The request is on its way to what the call takes down, or has the call to make.
Builds(r, pcs, what) == Own(r) /\ (job[r].pc \in pcs \/ Has(r, what))

\* A failed spawn leaves nothing behind in silence.  The row that its rollback ends, and
\* a runtime or a worktree that no row names, are those of a call that was to get them:
\* it is still to come, or it is this very call that failed or was refused, and nothing
\* got them since.
NothingLost ==
  /\ \A r \in Req : At(r, "failed") =>
       \A i \in Id : row[i].by = r /\ Running(i) => i \in missed["park"]
  /\ \A i \in tmux \ missed["runtime"] :
       row[i].held \/ \E r \in Req : Mine(r) = i /\ Builds(r, {"mark"}, {"runtime"})
  /\ \A p \in DOMAIN tree \ missed["tree"] : tree[p] # "none" =>
       \/ \E i \in Id : row[i].held /\ Place(row[i].kind, i) = p
       \/ \E r \in Req : MyTree(r) = p /\ Builds(r, {"launch", "mark"}, {"tree"})

\* Somebody is taking the session down, failed while at it, or could not end its row.
Falling(i) ==
  i \in missed["park"] \/ \E r \in Req : \E n \in DOMAIN job[r].todo : job[r].todo[n].id = i

\* Numbers are given out again, and still no rollback, kill or cleanup takes the
\* worktree of another worker.
WorkerKeepsTree ==
  \A i \in Id : row[i].state = "live" /\ row[i].kind = "worker" => tree[i] # "none" \/ Falling(i)

\* However many requests ensure or replace it, one orchestrator of theirs runs.
OneOrchestrator == Cardinality({i \in Orchestrators : job[row[i].by].op \in Locking}) <= 1

\* Each session that runs has its worktree.
IsolatedWorktree ==
  \A i \in Id : row[i].state = "live" => tree[Place(row[i].kind, i)] # "none" \/ Falling(i)

\* A kill that reports success has stopped the agent.
KillStops == \A r \in Req : job[r].op = "kill" /\ At(r, "done") => Mine(r) \notin tmux

\* "we only delete the row when nothing observable has landed yet" (manager.go:545).
DeletesNothingBuilt ==
  [][\A i \in Id : row[i].kind = "worker" /\ Present(i) /\ row'[i] = Absent =>
       tree[i] = "none" /\ i \notin tmux]_vars

\* A spawn that failed leaves no row that looks live.
NoPhantom == \A r \in Req : At(r, "failed") => \A i \in Id : row[i].by = r => ~Running(i)

-----------------------------------------------------------------------------
(* The strengthenings.                                                     *)

Owner(i) == row[i].by

\* A row is its creator's, which makes one row and knows it.
RowSound(i) ==
  /\ ~Present(i) => row[i] = Absent
  /\ row[i].state = "seed" => ~row[i].held
  /\ Present(i) => /\ Owner(i) \in Req
                   /\ Mine(Owner(i)) = i /\ job[Owner(i)].op \in Spawns
                   /\ row[i].kind = Kind(job[Owner(i)].op)

\* The creator of the session is past the mark, and will not delete its row.
Settled(i) ==
  Present(i) /\ job[Owner(i)].pc \notin {"workspace", "launch", "mark"} /\ ~Has(Owner(i), {"delete"})

\* What was launched or recorded belongs to a row that stays.
HeldSound(i) == (row[i].held => Settled(i)) /\ (i \in tmux => Present(i))

\* What a request may be at.
PlaceSound(r) ==
  /\ At(r, "idle") <=> job[r].op = "none"
  /\ job[r].pc \in {"create", "workspace", "launch", "mark", "deliver"} => job[r].op \in Spawns
  /\ job[r].op \in {"worker", "plain"} => Mine(r) # 0
  /\ At(r, "create") => Mine(r) = 0 /\ job[r].op \in Locking
  /\ job[r].pc \in {"workspace", "launch", "mark", "deliver"} => Mine(r) # 0
  /\ job[r].pc \notin {"tear", "failed"} => job[r].todo = <<>> /\ job[r].left = {}

\* A spawn has its row until it has rolled back.
OwnSound(r) ==
  Own(r) =>
    /\ job[r].pc \in {"workspace", "launch", "mark", "deliver", "done"} \/ job[r].todo # <<>>
         => Owner(Mine(r)) = r
    /\ job[r].pc \in {"deliver", "done"} => row[Mine(r)].held
    /\ job[r].pc \in {"workspace", "launch"} \/ Has(r, {"delete"}) => Mine(r) \notin tmux
    /\ At(r, "failed") => job[r].todo = <<>>

\* The calls to come.
CallSound(r, n) ==
  LET c == job[r].todo[n] IN
  /\ c.do \in {"delete", "clear"} => Own(r)
  /\ c.do = "delete" => n = Len(job[r].todo)
  /\ Own(r) \/ job[r].op = "kill" => c.id = Mine(r)
  /\ c.do \in {"tree", "force"} =>
       /\ IF Own(r) THEN c.place = MyTree(r)
          ELSE Settled(c.id) /\ c.place = Place(row[c.id].kind, c.id)
       /\ job[r].op # "cleanup" =>
            \E m \in DOMAIN job[r].todo :
              m > n /\ job[r].todo[m].do \in {"park", "delete"} /\ job[r].todo[m].id = c.id
  /\ job[r].op = "cleanup" =>
       c.do \in {"runtime", "tree"} /\ Settled(c.id) /\ row[c.id].state = "dead"

ListSound(r, c) ==
  /\ Mine(r) = 0
  /\ job[r].op = "replace" => c.do = "retire"
  /\ job[r].op # "replace" =>
       /\ job[r].op = "cleanup" /\ c.do = "reclaim"
       /\ Settled(c.id) /\ row[c.id].state = "dead" /\ c.place = Place(row[c.id].kind, c.id)

ReqSound(r) ==
  /\ PlaceSound(r) /\ OwnSound(r)
  /\ \A n \in DOMAIN job[r].todo : CallSound(r, n)
  /\ \A c \in job[r].left : ListSound(r, c)

SpawnSound == (\A r \in Req : ReqSound(r)) /\ (\A i \in Id : RowSound(i) /\ HeldSound(i))

\* A worktree is that of a spawn that goes on, went well, has yet to undo it or failed to.
Owes(r, p) == MyTree(r) = p /\ Builds(r, {"launch", "mark", "deliver", "done"}, {"tree"})
TreeSound == \A p \in DOMAIN tree \ missed["tree"] : tree[p] # "none" => \E r \in Req : Owes(r, p)

\* A spawn that rolls back ends its runtime and its row, or has failed to.
LeftSound ==
  \A r \in Req : Own(r) /\ job[r].pc \in {"tear", "failed"} /\ Owner(Mine(r)) = r =>
    /\ Mine(r) \in tmux => Has(r, {"runtime"}) \/ Mine(r) \in missed["runtime"]
    /\ Running(Mine(r)) => Has(r, {"delete", "park"}) \/ Mine(r) \in missed["park"]

\* A worker's worktree is there from its making until a call to end its row is to come.
Ending(i) ==
  \/ i \in missed["park"]
  \/ \E r \in Req : \E n \in DOMAIN job[r].todo :
       job[r].todo[n].do \in {"park", "delete"} /\ job[r].todo[n].id = i
KeepSound ==
  /\ \A r \in Req : job[r].op = "worker" /\ job[r].pc \in {"launch", "mark"} => tree[Mine(r)] # "none"
  /\ \A i \in Id : row[i].state = "live" /\ row[i].kind = "worker" => tree[i] # "none" \/ Ending(i)

\* The request that holds the lock has ended what ran before it, before it creates a row.
Theirs == {i \in Orchestrators : job[Owner(i)].op \in Locking}
OrchestratorSound ==
  /\ \A r, q \in Req : Locked(r) /\ Locked(q) => r = q
  /\ \A i, j \in Theirs : i = j
  /\ \A r \in Req : Locked(r) =>
       /\ At(r, "create") => Theirs = {}
       /\ Mine(r) # 0 => Theirs \subseteq {Mine(r)}
       /\ At(r, "tear") /\ Mine(r) = 0 => \A i \in Theirs :
            \/ \E c \in job[r].left : c.id = i
            \/ \E n \in DOMAIN job[r].todo : job[r].todo[n] = Call("park", i, 0)
=============================================================================
