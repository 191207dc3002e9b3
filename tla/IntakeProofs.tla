----------------------------- MODULE IntakeProofs -----------------------------
(***************************************************************************)
(* Proofs about SessionSpawn and TrackerIntake, for every set of requests, *)
(* of operations and of issues and every number of sessions.               *)
(***************************************************************************)
EXTENDS TrackerIntake, SequenceTheorems, FiniteSetTheorems, TLAPS

Row == [state : {"absent", "seed", "live", "dead"}, kind : {"worker", "orchestrator"},
        held : BOOLEAN, by : Req \cup {NoReq}]
Job == [op : {"none", "worker", "plain", "ensure", "replace", "kill", "cleanup"},
        pc : {"idle", "create", "workspace", "launch", "mark", "deliver", "tear", "done", "failed"},
        id : Id \cup {0}, todo : Seq(Calls), left : SUBSET Calls]
Types ==
  /\ row \in [Id -> Row] /\ tree \in [Id \cup {Canonical} -> {"none", "clean", "dirty"}]
  /\ tmux \subseteq Id /\ job \in [Req -> Job]

\* What is left of a sequence.
LEMMA TailFacts ==
  ASSUME NEW S, NEW s \in Seq(S), s # <<>>
  PROVE  /\ Tail(s) \in Seq(S) /\ Head(s) \in S /\ Head(s) = s[1] /\ 1 \in DOMAIN s
         /\ \A n \in DOMAIN Tail(s) : n + 1 \in DOMAIN s /\ Tail(s)[n] = s[n + 1]
         /\ \A n \in DOMAIN s : n # 1 => n - 1 \in DOMAIN Tail(s) /\ Tail(s)[n - 1] = s[n]
         /\ DOMAIN s = 1..Len(s) /\ Len(s) \in Nat \ {0} /\ Len(Tail(s)) = Len(s) - 1
<1>1. /\ Head(s) \in S /\ Tail(s) \in Seq(S) /\ Len(Tail(s)) = Len(s) - 1
      /\ \A n \in 1..Len(Tail(s)) : Tail(s)[n] = s[n + 1]
  BY HeadTailProperties
<1>2. Len(s) \in Nat /\ DOMAIN s = 1..Len(s) /\ DOMAIN Tail(s) = 1..Len(Tail(s))
  BY <1>1, LenProperties
<1>3. Len(s) # 0  BY EmptySeq, LenProperties
<1>4. Head(s) = s[1]  OBVIOUS
<1> QED  BY <1>1, <1>2, <1>3, <1>4

LEMMA CallType ==
  ASSUME NEW what \in {"runtime", "tree", "force", "delete", "park", "clear", "retire", "reclaim"},
         NEW i \in Id, NEW p \in Id \cup {Canonical}
  PROVE  Call(what, i, p) \in Calls
  BY DEF Call, Calls

\* The sequences of calls that teardowns are made of.
LEMMA Tuples ==
  ASSUME NEW S, NEW a \in S, NEW b \in S, NEW c \in S, NEW d \in S
  PROVE  /\ <<>> \in Seq(S) /\ <<a>> \in Seq(S) /\ <<a, b>> \in Seq(S)
         /\ <<a, b, c>> \in Seq(S) /\ <<a, b, c, d>> \in Seq(S)
  OBVIOUS

LEMMA CallOf ==
  ASSUME NEW rec \in Job, NEW n \in DOMAIN rec.todo
  PROVE  rec.todo[n] \in Calls /\ rec.todo[n].id \in Id
<1>1. rec.todo \in Seq(Calls)  BY DEF Job
<1>2. n \in 1..Len(rec.todo)  BY <1>1, LenProperties
<1>3. rec.todo[n] \in Calls  BY <1>1, <1>2, ElementOfSeq
<1> QED  BY <1>3 DEF Calls

LEMMA MyPlace ==
  ASSUME NEW i \in Id, NEW kind
  PROVE  Place(kind, i) \in Id \cup {Canonical} /\ 0 \in Id \cup {Canonical}
  BY DEF Place, Canonical

LEMMA Undos ==
  ASSUME NEW r \in Req, Mine(r) \in Id
  PROVE  /\ DeleteRow(r) \in Seq(Calls) /\ UndoTree(r) \in Seq(Calls)
         /\ UndoLaunch(r) \in Seq(Calls) /\ UndoDelivery(r) \in Seq(Calls)
<1> DEFINE i == Mine(r)
<1> DEFINE p == MyTree(r)
<1>1. p \in Id \cup {Canonical} /\ 0 \in Id \cup {Canonical}
  BY MyPlace DEF MyTree
<1>2. /\ Call("delete", i, 0) \in Calls /\ Call("tree", i, p) \in Calls
      /\ Call("runtime", i, 0) \in Calls /\ Call("park", i, 0) \in Calls
      /\ Call("clear", i, 0) \in Calls
  BY <1>1, CallType
<1> QED  BY <1>2, Tuples DEF DeleteRow, UndoTree, UndoLaunch, UndoDelivery

LEMMA EndsType ==
  ASSUME NEW i \in Id, NEW remove \in {"tree", "force"}
  PROVE  Ends(i, remove) \in Seq(Calls)
<1> DEFINE p == Place(row[i].kind, i)
<1>1. p \in Id \cup {Canonical} /\ 0 \in Id \cup {Canonical}
  BY MyPlace
<1>2. /\ Call("runtime", i, 0) \in Calls /\ Call("park", i, 0) \in Calls
      /\ Call(remove, i, p) \in Calls
  BY <1>1, CallType
<1> QED  BY <1>2, Tuples DEF Ends

LEMMA ReclaimType ==
  ASSUME NEW c \in Calls
  PROVE  <<Call("runtime", c.id, 0), Call("tree", c.id, c.place)>> \in Seq(Calls)
<1>1. c.id \in Id /\ c.place \in Id \cup {Canonical} /\ 0 \in Id \cup {Canonical}
  BY DEF Calls, Canonical
<1>2. /\ Call("runtime", c.id, 0) \in Calls /\ Call("tree", c.id, c.place) \in Calls
  BY <1>1, CallType
<1> QED  BY <1>2, Tuples

LEMMA Shape ==
  ASSUME Types, NEW r \in Req, NEW rec \in Job, Becomes(r, rec)
  PROVE  job' \in [Req -> Job] /\ job'[r] = rec /\ \A q \in Req \ {r} : job'[q] = job[q]
  BY DEF Types, Becomes

LEMMA GoesShape ==
  ASSUME Types, NEW r \in Req,
         NEW where \in {"create", "workspace", "launch", "mark", "deliver", "tear", "done", "failed"},
         Goes(r, where)
  PROVE  /\ job' \in [Req -> Job] /\ \A q \in Req \ {r} : job'[q] = job[q]
         /\ job'[r].pc = where /\ job'[r].op = job[r].op /\ job'[r].id = job[r].id
         /\ job'[r].todo = job[r].todo /\ job'[r].left = job[r].left
<1>1. [job[r] EXCEPT !.pc = where] \in Job  BY DEF Types, Job
<1>2. Becomes(r, [job[r] EXCEPT !.pc = where])  BY DEF Goes
<1>3. job'[r] = [job[r] EXCEPT !.pc = where]  BY <1>1, <1>2, Shape
<1> QED  BY <1>1, <1>2, <1>3, Shape DEF Types, Job

LEMMA FailShape ==
  ASSUME Types, NEW r \in Req, NEW calls \in Seq(Calls), FailsInto(r, calls)
  PROVE  /\ job' \in [Req -> Job] /\ \A q \in Req \ {r} : job'[q] = job[q]
         /\ job'[r].pc = "tear" /\ job'[r].op = job[r].op /\ job'[r].id = job[r].id
         /\ job'[r].todo = calls /\ job'[r].left = job[r].left
<1>1. Becomes(r, [job[r] EXCEPT !.pc = "tear", !.todo = calls])
  BY DEF FailsInto
<1>2. [job[r] EXCEPT !.pc = "tear", !.todo = calls] \in Job  BY DEF Types, Job
<1>3. job'[r] = [job[r] EXCEPT !.pc = "tear", !.todo = calls]  BY <1>1, <1>2, Shape
<1> QED  BY <1>1, <1>2, <1>3, Shape DEF Types, Job

LEMMA ThenShape ==
  ASSUME Types, NEW r \in Req, NEW calls \in Seq(Calls), Then(r, calls)
  PROVE  /\ job' \in [Req -> Job] /\ \A q \in Req \ {r} : job'[q] = job[q]
         /\ job'[r].pc = job[r].pc /\ job'[r].op = job[r].op /\ job'[r].id = job[r].id
         /\ job'[r].todo = calls /\ job'[r].left = job[r].left
<1>1. [job[r] EXCEPT !.todo = calls] \in Job  BY DEF Types, Job
<1>2. Becomes(r, [job[r] EXCEPT !.todo = calls])  BY DEF Then
<1>3. job'[r] = [job[r] EXCEPT !.todo = calls]  BY <1>1, <1>2, Shape
<1> QED  BY <1>1, <1>2, <1>3, Shape DEF Types, Job

-----------------------------------------------------------------------------
(* A step of one request leaves the others sound.                          *)

\* What a step of r leaves alone.
JobsKept(r) == \A q \in Req \ {r} : job'[q] = job[q]
RowsKept(r) ==
  \A i \in Id :
    /\ Owner(i) \in Req \ {r} =>
         row'[i] = row[i] \/ (Running(i) /\ row'[i] = [row[i] EXCEPT !.state = "dead"])
    /\ Owner(i) \notin Req \ {r} => row'[i].by \notin Req \ {r}
    /\ i \in tmux' => i \in tmux \/ Owner(i) = r

\* A settled row stays what it is.
Stays(i) ==
  Settled(i) => /\ Settled(i)' /\ row'[i].kind = row[i].kind
                /\ row[i].state = "dead" => row'[i].state = "dead"
Kept(r) == JobsKept(r) /\ RowsKept(r) /\ \A i \in Id : Owner(i) = r => Stays(i)

LEMMA AllStay ==
  ASSUME Types, SpawnSound, NEW r \in Req, Kept(r), NEW i \in Id
  PROVE  Stays(i)
<1> SUFFICES ASSUME Settled(i), Owner(i) # r PROVE Stays(i)
  BY DEF Kept, Stays
<1>1. Owner(i) \in Req \ {r}  BY DEF SpawnSound, RowSound, Settled
<1>2. row'[i] = row[i] \/ (Running(i) /\ row'[i] = [row[i] EXCEPT !.state = "dead"])
  BY <1>1 DEF Kept, RowsKept
<1>3. row[i] \in Row  BY DEF Types
<1>4. /\ row'[i].by = row[i].by /\ row'[i].kind = row[i].kind
      /\ row[i].state = "dead" => row'[i].state = "dead"
      /\ row[i].state # "absent" => row'[i].state # "absent"
  BY <1>2, <1>3 DEF Row
<1>5. job'[Owner(i)] = job[Owner(i)]  BY <1>1 DEF Kept, JobsKept
<1>6. Settled(i)'
  BY <1>4, <1>5 DEF Settled, Present, Owner, Has
<1> QED  BY <1>4, <1>6 DEF Stays

LEMMA OthersSound ==
  ASSUME Types, SpawnSound, NEW r \in Req, Kept(r), NEW q \in Req \ {r}
  PROVE  ReqSound(q)'
<1>1. job'[q] = job[q] /\ job[q] \in Job  BY DEF Kept, JobsKept, Types
<1>2. ReqSound(q)  BY DEF SpawnSound
<1>3. PlaceSound(q)'
  BY <1>1, <1>2 DEF ReqSound, PlaceSound, At, Mine
<1>4. ASSUME Own(q), Owner(Mine(q)) = q
      PROVE  /\ row'[Mine(q)].by = q /\ row'[Mine(q)].held = row[Mine(q)].held
             /\ Mine(q) \in tmux' => Mine(q) \in tmux
             /\ row'[Mine(q)].state \in {"seed", "live"} => row[Mine(q)].state \in {"seed", "live"}
  <2>1. Mine(q) \in Id  BY <1>1, <1>4 DEF Own, Mine, Job
  <2>2. row[Mine(q)] \in Row  BY <2>1 DEF Types
  <2> QED  BY <2>1, <2>2, <1>4 DEF Kept, RowsKept, Row, Running, Owner
<1>5. ASSUME Own(q), row'[Mine(q)].by = q
      PROVE  Owner(Mine(q)) = q
  <2>1. Mine(q) \in Id  BY <1>1, <1>5 DEF Own, Mine, Job
  <2>2. row[Mine(q)] \in Row  BY <2>1 DEF Types
  <2> QED  BY <2>1, <2>2, <1>5 DEF Kept, RowsKept, Row, Running, Owner
<1>6. Own(q)' <=> Own(q)  BY <1>1 DEF Own, Mine
<1>7. OwnSound(q)'
  <2> SUFFICES ASSUME Own(q) PROVE OwnSound(q)'
    BY <1>6 DEF OwnSound
  <2>1. OwnSound(q) /\ PlaceSound(q)  BY <1>2 DEF ReqSound
  <2>2. Has(q, {"delete"}) => job[q].todo # <<>>  BY DEF Has
  <2> QED
    BY <1>1, <1>4, <1>5, <2>1, <2>2 DEF OwnSound, Mine, Owner, Has, At, Running, Own
<1>8. ASSUME NEW n \in DOMAIN job[q].todo
      PROVE  CallSound(q, n)'
  <2>1. CallSound(q, n)  BY <1>2 DEF ReqSound
  <2>2. PICK c : c = job[q].todo[n]  OBVIOUS
  <2>3. Stays(c.id)  BY <1>1, <2>2, CallOf, AllStay
  <2> QED
    BY <1>1, <1>6, <2>1, <2>2, <2>3 DEF CallSound, Stays, Mine, MyTree
<1>9. ASSUME NEW c \in job[q].left
      PROVE  ListSound(q, c)'
  <2>1. ListSound(q, c)  BY <1>2 DEF ReqSound
  <2>2. c.id \in Id
    BY <1>1 DEF Job, Calls
  <2>3. Stays(c.id)  BY <2>2, AllStay
  <2> QED
    BY <1>1, <2>1, <2>3 DEF ListSound, Stays, Mine
<1> QED
  BY <1>1, <1>3, <1>7, <1>8, <1>9 DEF ReqSound

LEMMA OtherRowsSound ==
  ASSUME Types, SpawnSound, NEW r \in Req, Kept(r), NEW i \in Id, row'[i].by \in Req \ {r}
  PROVE  RowSound(i)' /\ HeldSound(i)'
<1>1. row[i] \in Row /\ RowSound(i) /\ HeldSound(i)  BY DEF Types, SpawnSound
<1>2. Owner(i) \in Req \ {r}  BY DEF Kept, RowsKept
<1>3. row'[i] = row[i] \/ (Running(i) /\ row'[i] = [row[i] EXCEPT !.state = "dead"])
  BY <1>2 DEF Kept, RowsKept
<1>4. Owner(i)' = Owner(i) /\ job'[Owner(i)] = job[Owner(i)]
  BY <1>1, <1>2, <1>3 DEF Owner, Row, Kept, JobsKept
<1>5. Present(i)
  BY <1>1, <1>2, SpawnAssumption DEF RowSound, Absent, Owner
<1>6. RowSound(i)'
  BY <1>1, <1>3, <1>4, <1>5 DEF RowSound, Row, Present, Running, Mine, Owner
<1>7. HeldSound(i)'
  <2>1. row'[i].held => row[i].held  BY <1>1, <1>3 DEF Row
  <2>2. Present(i)'  BY <1>1, <1>3, <1>5 DEF Row, Present
  <2>3. Stays(i)  BY AllStay
  <2> QED  BY <1>1, <2>1, <2>2, <2>3 DEF HeldSound, Stays
<1> QED  BY <1>6, <1>7

\* What is left to show of a step.
LEMMA SoundByStep ==
  ASSUME Types, SpawnSound, NEW r \in Req, Kept(r), ReqSound(r)',
         \A i \in Id : row'[i].by \notin Req \ {r} => RowSound(i)' /\ HeldSound(i)'
  PROVE  SpawnSound'
  BY OthersSound, OtherRowsSound DEF SpawnSound

\* A step that leaves the rows and the runtimes alone.
LEMMA SoundByQuietStep ==
  ASSUME Types, SpawnSound, NEW r \in Req, JobsKept(r), ReqSound(r)', row' = row, tmux' = tmux,
         At(r, "idle") \/ (job'[r].id = job[r].id /\ job'[r].op = job[r].op),
         \A i \in Id : Owner(i) = r => Stays(i)
  PROVE  SpawnSound'
<1>1. Kept(r)  BY DEF Kept, RowsKept, Owner
<1>2. ASSUME NEW i \in Id, row'[i].by \notin Req \ {r}
      PROVE  RowSound(i)' /\ HeldSound(i)'
  <2>1. RowSound(i) /\ HeldSound(i)  BY DEF SpawnSound
  <2>2. Stays(i)  BY <1>1, AllStay
  <2>3. Owner(i) \in Req => Owner(i) = r  BY <1>2 DEF Owner
  <2>4. Present(i) => job'[r].id = job[r].id /\ job'[r].op = job[r].op
    <3>1. PlaceSound(r)  BY DEF SpawnSound, ReqSound
    <3> QED  BY <2>1, <2>3, <3>1 DEF RowSound, PlaceSound, Spawns
  <2>5. RowSound(i)'
    BY <2>1, <2>3, <2>4 DEF RowSound, Present, Mine, Owner
  <2>6. HeldSound(i)'
    BY <2>1, <2>2 DEF HeldSound, Stays, Present
  <2> QED  BY <2>5, <2>6
<1> QED  BY <1>1, <1>2, SoundByStep

-----------------------------------------------------------------------------
(* Requests arrive.                                                        *)

LEMMA OwnsNothing ==
  ASSUME SpawnSound, NEW r \in Req, At(r, "idle") \/ Mine(r) = 0, NEW i \in Id
  PROVE  Owner(i) # r
<1>1. RowSound(i) /\ PlaceSound(r)  BY DEF SpawnSound, ReqSound
<1>2. Absent.by # r  BY SpawnAssumption DEF Absent
<1> QED  BY <1>1, <1>2 DEF RowSound, PlaceSound, Owner, Spawns, Id

LEMMA AskKillSound ==
  ASSUME Types, SpawnSound, NEW r \in Req, AskKill(r)
  PROVE  Types' /\ SpawnSound'
<1>1. PICK i \in Id : /\ Present(i)
                      /\ Becomes(r, [op |-> "kill", pc |-> "tear", id |-> i, left |-> {},
                                     todo |-> Ends(i, "tree")])
  BY DEF AskKill
<1> DEFINE rec == [op |-> "kill", pc |-> "tear", id |-> i, left |-> {}, todo |-> Ends(i, "tree")]
<1>2. rec \in Job  BY EndsType DEF Job
<1>3. job' \in [Req -> Job] /\ job'[r] = rec /\ JobsKept(r)
  BY <1>1, <1>2, Shape DEF JobsKept
<1>4. row' = row /\ tmux' = tmux /\ tree' = tree /\ At(r, "idle")  BY DEF AskKill
<1>5. \A j \in Id : Owner(j) # r  BY <1>4, OwnsNothing
<1>6. Kept(r)  BY <1>3, <1>4, <1>5 DEF Kept, RowsKept, Owner
<1>7. row[i].held => Settled(i)'
  BY <1>6, AllStay DEF SpawnSound, HeldSound, Stays
<1>8. /\ job'[r].op = "kill" /\ job'[r].pc = "tear" /\ job'[r].id = i /\ job'[r].left = {}
      /\ job'[r].todo = Ends(i, "tree")
  BY <1>3
<1>9. ASSUME NEW n \in DOMAIN job'[r].todo PROVE CallSound(r, n)'
  <2>1. CASE ~row[i].held
    <3>1. job'[r].todo = <<Call("park", i, 0)>>  BY <1>8, <2>1 DEF Ends
    <3>2. n = 1 /\ job'[r].todo[n] = Call("park", i, 0)  BY <3>1, <1>9
    <3> QED  BY <3>2, <1>8 DEF CallSound, Call, Mine
  <2>2. CASE row[i].held
    <3> DEFINE p == Place(row[i].kind, i)
    <3>1. job'[r].todo = <<Call("runtime", i, 0), Call("tree", i, p), Call("park", i, 0)>>
      BY <1>8, <2>2 DEF Ends
    <3>2. /\ DOMAIN job'[r].todo = 1..3 /\ job'[r].todo[1] = Call("runtime", i, 0)
          /\ job'[r].todo[2] = Call("tree", i, p) /\ job'[r].todo[3] = Call("park", i, 0)
      BY <3>1
    <3>3. p = Place(row'[i].kind, i)  BY <1>4
    <3> HIDE DEF p
    <3>4. n \in {1, 2, 3}  BY <3>2, <1>9
    <3> QED
      BY <3>2, <3>3, <3>4, <1>7, <1>8, <2>2 DEF CallSound, Call, Mine, Own, Spawns
  <2> QED  BY <2>1, <2>2
<1>10. ReqSound(r)'
  BY <1>8, <1>9 DEF ReqSound, PlaceSound, OwnSound, Own, Spawns, At
<1>11. SpawnSound'
  BY <1>3, <1>4, <1>5, <1>10, SoundByQuietStep
<1> QED  BY <1>3, <1>4, <1>11 DEF Types

LEMMA ListShape ==
  ASSUME Types, NEW r \in Req, NEW op \in {"replace", "cleanup"}, NEW calls \in SUBSET Calls,
         Lists(r, op, calls)
  PROVE  /\ job' \in [Req -> Job] /\ JobsKept(r)
         /\ job'[r].op = op /\ job'[r].pc = "tear" /\ job'[r].id = 0
         /\ job'[r].todo = <<>> /\ job'[r].left = calls
<1> DEFINE rec == [op |-> op, pc |-> "tear", id |-> 0, todo |-> <<>>, left |-> calls]
<1>1. rec \in Job  BY DEF Job
<1>2. Becomes(r, rec)  BY DEF Lists
<1>3. job'[r] = rec  BY <1>1, <1>2, Shape
<1> QED  BY <1>1, <1>2, <1>3, Shape DEF JobsKept

LEMMA StartShape ==
  ASSUME Types, NEW r \in Req, NEW op \in {"worker", "plain", "ensure", "replace"},
         NEW where \in {"create", "workspace", "done"}, NEW i \in Id \cup {0},
         Starts(r, op, where, i)
  PROVE  /\ job' \in [Req -> Job] /\ JobsKept(r)
         /\ job'[r].op = op /\ job'[r].pc = where /\ job'[r].id = i
         /\ job'[r].todo = <<>> /\ job'[r].left = {}
<1> DEFINE rec == [op |-> op, pc |-> where, id |-> i, todo |-> <<>>, left |-> {}]
<1>1. rec \in Job  BY DEF Job
<1>2. Becomes(r, rec)  BY DEF Starts
<1>3. job'[r] = rec  BY <1>1, <1>2, Shape
<1> QED  BY <1>1, <1>2, <1>3, Shape DEF JobsKept

LEMMA AskCleanupSound ==
  ASSUME Types, SpawnSound, NEW r \in Req, AskCleanup(r)
  PROVE  Types' /\ SpawnSound'
<1> DEFINE calls == {Call("reclaim", i, Place(row[i].kind, i)) :
                       i \in {j \in Id : row[j].state = "dead" /\ row[j].held}}
<1>1. calls \in SUBSET Calls
  <2>1. \A i \in Id : Call("reclaim", i, Place(row[i].kind, i)) \in Calls
    BY MyPlace, CallType
  <2> QED  BY <2>1
<1>2. Lists(r, "cleanup", calls)  BY DEF AskCleanup
<1>3. /\ job' \in [Req -> Job] /\ JobsKept(r)
      /\ job'[r].op = "cleanup" /\ job'[r].pc = "tear" /\ job'[r].id = 0
      /\ job'[r].todo = <<>> /\ job'[r].left = calls
  BY <1>1, <1>2, ListShape
<1>4. row' = row /\ tmux' = tmux /\ tree' = tree /\ At(r, "idle")  BY DEF AskCleanup
<1>5. \A j \in Id : Owner(j) # r  BY <1>4, OwnsNothing
<1>6. Kept(r)  BY <1>3, <1>4, <1>5 DEF Kept, RowsKept, Owner
<1>7. ASSUME NEW c \in calls PROVE ListSound(r, c)'
  <2>1. PICK i \in Id : /\ row[i].state = "dead" /\ row[i].held
                        /\ c = Call("reclaim", i, Place(row[i].kind, i))
    OBVIOUS
  <2>2. Settled(i)'
    BY <2>1, <1>6, AllStay DEF SpawnSound, HeldSound, Stays
  <2> QED
    BY <2>1, <2>2, <1>3, <1>4 DEF ListSound, Call, Mine
<1> HIDE DEF calls
<1>8. ReqSound(r)'
  BY <1>3, <1>7 DEF ReqSound, PlaceSound, OwnSound, Own, Spawns, At
<1>9. SpawnSound'
  BY <1>3, <1>4, <1>5, <1>8, SoundByQuietStep
<1> QED  BY <1>3, <1>4, <1>9 DEF Types

LEMMA AskOrchestratorSound ==
  ASSUME Types, SpawnSound, NEW r \in Req, AskOrchestrator(r)
  PROVE  Types' /\ SpawnSound'
<1>1. row' = row /\ tmux' = tmux /\ tree' = tree /\ At(r, "idle")  BY DEF AskOrchestrator
<1>2. \A j \in Id : Owner(j) # r  BY <1>1, OwnsNothing
<1>3. SUFFICES job' \in [Req -> Job] /\ JobsKept(r) /\ ReqSound(r)'
  BY <1>1, <1>2, SoundByQuietStep DEF Types
<1>4. CASE Starts(r, "ensure", IF Orchestrators = {} THEN "create" ELSE "done", 0)
  <2>1. PICK where \in {"create", "done"} : Starts(r, "ensure", where, 0)
    BY <1>4
  <2>2. /\ job' \in [Req -> Job] /\ JobsKept(r)
        /\ job'[r].op = "ensure" /\ job'[r].pc = where /\ job'[r].id = 0
        /\ job'[r].todo = <<>> /\ job'[r].left = {}
    BY <2>1, StartShape
  <2> QED
    BY <2>2 DEF ReqSound, PlaceSound, OwnSound, Own, Spawns, At, Mine, Locking
<1>5. CASE Lists(r, "replace", {Call("retire", i, 0) : i \in Orchestrators})
  <2> DEFINE calls == {Call("retire", i, 0) : i \in Orchestrators}
  <2>1. calls \in SUBSET Calls
    <3>1. \A i \in Id : Call("retire", i, 0) \in Calls
      BY MyPlace, CallType
    <3> QED  BY <3>1 DEF Orchestrators
  <2>2. \A c \in calls : c.do = "retire"  BY DEF Call
  <2>3. /\ job' \in [Req -> Job] /\ JobsKept(r)
        /\ job'[r].op = "replace" /\ job'[r].pc = "tear" /\ job'[r].id = 0
        /\ job'[r].todo = <<>> /\ job'[r].left = calls
    BY <1>5, <2>1, ListShape
  <2> HIDE DEF calls
  <2> QED
    BY <2>2, <2>3 DEF ReqSound, PlaceSound, OwnSound, ListSound, Own, Spawns, At, Mine, Locking
<1> QED  BY <1>4, <1>5 DEF AskOrchestrator

-----------------------------------------------------------------------------
(* Spawn.                                                                  *)

LEMMA BeginSound ==
  ASSUME Types, SpawnSound, NEW r \in Req, At(r, "idle") \/ Mine(r) = 0,
         NEW op \in Spawns, NEW n \in Id, NewRow(r, Kind(op), n),
         job' \in [Req -> Job], JobsKept(r), tmux' = tmux, tree' = tree,
         job'[r].op = op, job'[r].pc = "workspace", job'[r].id = n,
         job'[r].todo = <<>>, job'[r].left = {}
  PROVE  Types' /\ SpawnSound'
<1>1. /\ ~Present(n) /\ row' \in [Id -> Row]
      /\ row'[n] = [state |-> "seed", kind |-> Kind(op), held |-> FALSE, by |-> r]
      /\ \A i \in Id \ {n} : row'[i] = row[i]
  <2> DEFINE new == [state |-> "seed", kind |-> Kind(op), held |-> FALSE, by |-> r]
  <2>1. row' = [row EXCEPT ![n] = new] /\ NextNum(n)  BY DEF NewRow
  <2>2. ~Present(n)  BY <2>1, SpawnAssumption DEF NextNum, Id
  <2>3. new \in Row  BY DEF Row, Kind
  <2> QED  BY <2>1, <2>2, <2>3 DEF Types
<1>2. \A i \in Id : Owner(i) # r  BY OwnsNothing
<1>3. Owner(n) \notin Req
  BY <1>1, SpawnAssumption DEF SpawnSound, RowSound, Owner, Absent
<1>4. Kept(r)
  BY <1>1, <1>2, <1>3 DEF Kept, RowsKept, Owner
<1>5. n \notin tmux  BY <1>1 DEF SpawnSound, HeldSound
<1>6. ReqSound(r)'
  <2>1. n # 0  BY <1>1 DEF Id
  <2> QED
    BY <1>1, <1>5, <2>1
    DEF ReqSound, PlaceSound, OwnSound, Own, At, Mine, Has, Owner, Spawns
<1>7. ASSUME NEW i \in Id, row'[i].by \notin Req \ {r}
      PROVE  RowSound(i)' /\ HeldSound(i)'
  <2>1. CASE i = n
    BY <1>1, <1>5, <2>1 DEF RowSound, HeldSound, Present, Owner, Mine
  <2>2. CASE i # n
    <3>1. row'[i] = row[i] /\ RowSound(i) /\ HeldSound(i) /\ Owner(i) \notin Req
      BY <1>1, <1>2, <1>7, <2>2 DEF SpawnSound, Owner
    <3>2. ~Present(i) /\ ~row[i].held  BY <3>1 DEF RowSound, Absent
    <3> QED  BY <3>1, <3>2 DEF RowSound, HeldSound, Present
  <2> QED  BY <2>1, <2>2
<1>8. SpawnSound'  BY <1>4, <1>6, <1>7, SoundByStep
<1> QED  BY <1>1, <1>8 DEF Types

LEMMA SpawnedSound ==
  ASSUME Types, SpawnSound, NEW r \in Req, At(r, "idle"), NEW op \in {"worker", "plain"}, NEW n \in Id,
         Spawned(r, op, n), tmux' = tmux, tree' = tree
  PROVE  Types' /\ SpawnSound'
<1>1. NewRow(r, Kind(op), n) /\ Starts(r, op, "workspace", n)  BY DEF Spawned
<1>2. n \in Id \cup {0}  OBVIOUS
<1>3. /\ job' \in [Req -> Job] /\ JobsKept(r)
      /\ job'[r].op = op /\ job'[r].pc = "workspace" /\ job'[r].id = n
      /\ job'[r].todo = <<>> /\ job'[r].left = {}
  BY <1>1, <1>2, StartShape
<1>4. op \in Spawns  BY DEF Spawns
<1> QED  BY <1>1, <1>3, <1>4, BeginSound

LEMMA CreateSound ==
  ASSUME Types, SpawnSound, NEW r \in Req, Create(r)
  PROVE  Types' /\ SpawnSound'
<1>1. PICK n \in Id : /\ NewRow(r, "orchestrator", n)
                      /\ Becomes(r, [job[r] EXCEPT !.id = n, !.pc = "workspace"])
  BY DEF Create
<1> DEFINE rec == [job[r] EXCEPT !.id = n, !.pc = "workspace"]
<1>2. job[r] \in Job /\ PlaceSound(r)  BY DEF Types, SpawnSound, ReqSound
<1>3. /\ job[r].op \in Locking /\ Mine(r) = 0 /\ job[r].todo = <<>> /\ job[r].left = {}
  BY <1>2 DEF PlaceSound, At, Create
<1>4. rec \in Job  BY <1>2 DEF Job
<1>5. job' \in [Req -> Job] /\ job'[r] = rec /\ JobsKept(r)  BY <1>1, <1>4, Shape DEF JobsKept
<1>6. /\ job'[r].op = job[r].op /\ job'[r].pc = "workspace" /\ job'[r].id = n
      /\ job'[r].todo = <<>> /\ job'[r].left = {}
  BY <1>2, <1>3, <1>5 DEF Job
<1>7. job[r].op \in Spawns /\ Kind(job[r].op) = "orchestrator"
  BY <1>3 DEF Locking, Spawns, Kind
<1>8. tree' = tree /\ tmux' = tmux  BY DEF Create
<1> HIDE DEF rec
<1> QED  BY <1>1, <1>3, <1>5, <1>6, <1>7, <1>8, BeginSound

\* A spawn on its way.
LEMMA OnItsWay ==
  ASSUME Types, SpawnSound, NEW r \in Req, job[r].pc \in {"workspace", "launch", "mark", "deliver"}
  PROVE  /\ Own(r) /\ Mine(r) \in Id /\ Owner(Mine(r)) = r /\ Present(Mine(r))
         /\ job[r].todo = <<>> /\ job[r].left = {}
         /\ row[Mine(r)].kind = Kind(job[r].op)
         /\ \A i \in Id : Owner(i) = r => i = Mine(r)
<1>1. PlaceSound(r) /\ OwnSound(r) /\ job[r] \in Job  BY DEF Types, SpawnSound, ReqSound
<1>2. Own(r) /\ Mine(r) \in Id /\ job[r].todo = <<>> /\ job[r].left = {}
  BY <1>1 DEF PlaceSound, Own, Mine, Job
<1>3. Owner(Mine(r)) = r  BY <1>1, <1>2 DEF OwnSound
<1>4. \A i \in Id : Owner(i) = r => Present(i) /\ i = Mine(r) /\ row[i].kind = Kind(job[r].op)
  <2>1. Absent.by # r  BY SpawnAssumption DEF Absent
  <2> QED  BY <2>1 DEF SpawnSound, RowSound, Owner
<1> QED  BY <1>2, <1>3, <1>4

\* The rollbacks are sound.
LEMMA UndoSound ==
  ASSUME Types, SpawnSound, NEW r \in Req, job[r].pc \in {"workspace", "launch", "mark", "deliver"},
         NEW calls \in Seq(Calls), FailsInto(r, calls), row' = row, tmux' = tmux,
         \/ calls = DeleteRow(r) /\ Mine(r) \notin tmux
         \/ calls = UndoTree(r) /\ Mine(r) \notin tmux
         \/ calls = UndoLaunch(r)
         \/ calls = UndoDelivery(r),
         calls \in {DeleteRow(r), UndoTree(r)} => ~At(r, "deliver")
  PROVE  SpawnSound' /\ job' \in [Req -> Job]
<1>1. /\ job' \in [Req -> Job] /\ JobsKept(r)
      /\ job'[r].pc = "tear" /\ job'[r].op = job[r].op /\ job'[r].id = job[r].id
      /\ job'[r].todo = calls /\ job'[r].left = job[r].left
  BY FailShape DEF JobsKept
<1>2. /\ Own(r) /\ Mine(r) \in Id /\ Owner(Mine(r)) = r /\ Present(Mine(r))
      /\ job[r].left = {} /\ PlaceSound(r)
      /\ \A i \in Id : Owner(i) = r => i = Mine(r)
  BY OnItsWay DEF SpawnSound, ReqSound
<1> DEFINE i == Mine(r)
<1> DEFINE p == MyTree(r)
<1>3. Own(r)' /\ Mine(r)' = i /\ MyTree(r)' = p
  BY <1>1, <1>2 DEF Own, Mine, MyTree
<1>4. \/ calls = <<Call("delete", i, 0)>> /\ Mine(r) \notin tmux /\ ~At(r, "deliver")
      \/ calls = <<Call("tree", i, p), Call("delete", i, 0)>> /\ Mine(r) \notin tmux /\ ~At(r, "deliver")
      \/ calls = <<Call("runtime", i, 0), Call("tree", i, p), Call("park", i, 0)>>
      \/ calls = <<Call("runtime", i, 0), Call("tree", i, p), Call("park", i, 0), Call("clear", i, 0)>>
  BY DEF DeleteRow, UndoTree, UndoLaunch, UndoDelivery
<1> HIDE DEF i, p
<1>5. \/ /\ DOMAIN calls = {1} /\ calls[1] = Call("delete", i, 0) /\ Len(calls) = 1
         /\ Mine(r) \notin tmux /\ ~At(r, "deliver")
      \/ /\ DOMAIN calls = {1, 2} /\ calls[1] = Call("tree", i, p) /\ calls[2] = Call("delete", i, 0)
         /\ Len(calls) = 2 /\ Mine(r) \notin tmux /\ ~At(r, "deliver")
      \/ /\ DOMAIN calls = {1, 2, 3} /\ calls[1] = Call("runtime", i, 0)
         /\ calls[2] = Call("tree", i, p) /\ calls[3] = Call("park", i, 0)
      \/ /\ DOMAIN calls = {1, 2, 3, 4} /\ calls[1] = Call("runtime", i, 0)
         /\ calls[2] = Call("tree", i, p) /\ calls[3] = Call("park", i, 0)
         /\ calls[4] = Call("clear", i, 0)
  BY <1>4
<1>6. ReqSound(r)'
  <2>1. PlaceSound(r)'
    BY <1>1, <1>2, <1>3 DEF PlaceSound, Own, At, Mine, Spawns
  <2>2. OwnSound(r)'
    <3>1. Owner(Mine(r))' = r  BY <1>2, <1>3 DEF i, Owner
    <3>2. Has(r, {"delete"})' => Mine(r)' \notin tmux'
      <4>1. CASE Mine(r) \notin tmux
        <5>1. Mine(r)' = Mine(r)  BY <1>1 DEF Mine
        <5> QED  BY <4>1, <5>1
      <4>2. CASE Mine(r) \in tmux
        <5>1. \A n \in DOMAIN calls : calls[n].do # "delete"
          BY <1>5, <4>2, SMTT(30) DEF Call
        <5> QED  BY <1>1, <5>1 DEF Has
      <4> QED  BY <4>1, <4>2
    <3> QED  BY <1>1, <3>1, <3>2 DEF OwnSound, At
  <2>3. ASSUME NEW n \in DOMAIN calls PROVE CallSound(r, n)'
    <3>1. job'[r].op # "cleanup"  BY <1>1, <1>2 DEF Own, Spawns
    <3>2. job'[r].todo = calls /\ Own(r)' /\ Mine(r)' = i /\ MyTree(r)' = p
      BY <1>1, <1>3
    <3>3. calls[n].id = i
      BY <1>5 DEF Call
    <3>4. calls[n].do \in {"runtime", "tree", "park", "delete", "clear"}
      BY <1>5 DEF Call
    <3>5. calls[n].do = "delete" => n = Len(calls)
      <4>1. Call("runtime", i, 0).do # "delete" /\ Call("tree", i, p).do # "delete"
            /\ Call("park", i, 0).do # "delete" /\ Call("clear", i, 0).do # "delete"
        BY DEF Call
      <4> QED  BY <1>5, <4>1
    <3>6. calls[n].do \in {"tree", "force"} =>
            /\ calls[n].place = p
            /\ \E m \in DOMAIN calls : m > n /\ calls[m].do \in {"park", "delete"} /\ calls[m].id = i
      BY <1>5, SMTT(30) DEF Call
    <3> QED
      BY <3>1, <3>2, <3>3, <3>4, <3>5, <3>6 DEF CallSound
  <2> QED  BY <1>1, <1>2, <2>1, <2>2, <2>3 DEF ReqSound
<1>7. ASSUME NEW j \in Id, Owner(j) = r
      PROVE  Stays(j)
  <2> SUFFICES ASSUME Settled(j) PROVE Stays(j)
    BY DEF Stays
  <2>1. j = Mine(r) /\ At(r, "deliver")
    BY <1>2, <1>7 DEF Settled, At
  <2>2. ~Has(r, {"delete"})'
    <3>1. \A n \in DOMAIN calls : calls[n].do # "delete"  BY <1>5, <2>1, SMTT(30) DEF Call
    <3> QED  BY <1>1, <3>1 DEF Has
  <2> QED
    BY <1>1, <1>7, <2>2 DEF Stays, Settled, Owner, Present
<1> QED  BY <1>1, <1>6, <1>7, SoundByQuietStep

LEMMA WorkspaceSound ==
  ASSUME Types, SpawnSound, NEW r \in Req, Workspace(r)
  PROVE  Types' /\ SpawnSound'
<1>1. At(r, "workspace") /\ row' = row /\ tmux' = tmux  BY DEF Workspace
<1>2. /\ Own(r) /\ Mine(r) \in Id /\ Owner(Mine(r)) = r
      /\ job[r].todo = <<>> /\ job[r].left = {} /\ ReqSound(r)
      /\ \A i \in Id : Owner(i) = r => i = Mine(r)
  BY <1>1, OnItsWay DEF At, SpawnSound
<1>3. Mine(r) \notin tmux  BY <1>1, <1>2 DEF ReqSound, OwnSound, At
<1>4. CASE Goes(r, "launch") /\ \E made \in {"clean", "dirty"} :
                tree' = [tree EXCEPT ![MyTree(r)] = IF @ = "none" THEN made ELSE @]
  <2>1. /\ job' \in [Req -> Job] /\ JobsKept(r)
        /\ job'[r].pc = "launch" /\ job'[r].op = job[r].op /\ job'[r].id = job[r].id
        /\ job'[r].todo = <<>> /\ job'[r].left = {}
    BY <1>2, <1>4, GoesShape DEF JobsKept
  <2>2. ReqSound(r)'
    BY <1>1, <1>2, <1>3, <2>1
    DEF ReqSound, PlaceSound, OwnSound, Own, At, Mine, Has, Owner, Spawns
  <2>3. \A i \in Id : Owner(i) = r => Stays(i)
    BY <1>1 DEF Stays, Settled, At
  <2>4. SpawnSound'  BY <1>1, <2>1, <2>2, <2>3, SoundByQuietStep
  <2>5. tree' \in [Id \cup {Canonical} -> {"none", "clean", "dirty"}]
    BY <1>4 DEF Types
  <2> QED  BY <1>1, <2>1, <2>4, <2>5 DEF Types
<1>5. CASE FailsInto(r, DeleteRow(r)) /\ tree' = tree
  <2>1. DeleteRow(r) \in Seq(Calls)  BY <1>2, Undos
  <2>2. SpawnSound' /\ job' \in [Req -> Job]
    BY <1>1, <1>3, <1>5, <2>1, UndoSound DEF At
  <2> QED  BY <1>1, <1>5, <2>2 DEF Types
<1> QED  BY <1>4, <1>5 DEF Workspace

LEMMA LaunchSound ==
  ASSUME Types, SpawnSound, NEW r \in Req, Launch(r)
  PROVE  Types' /\ SpawnSound'
<1>1. At(r, "launch") /\ row' = row /\ tree' = tree  BY DEF Launch
<1>2. /\ Own(r) /\ Mine(r) \in Id /\ Owner(Mine(r)) = r /\ Present(Mine(r))
      /\ job[r].todo = <<>> /\ job[r].left = {} /\ ReqSound(r)
      /\ \A i \in Id : Owner(i) = r => i = Mine(r)
  BY <1>1, OnItsWay DEF At, SpawnSound
<1>3. Mine(r) \notin tmux  BY <1>1, <1>2 DEF ReqSound, OwnSound, At
<1>4. CASE tmux' = tmux \cup {Mine(r)} /\ Goes(r, "mark")
  <2>1. /\ job' \in [Req -> Job] /\ JobsKept(r)
        /\ job'[r].pc = "mark" /\ job'[r].op = job[r].op /\ job'[r].id = job[r].id
        /\ job'[r].todo = <<>> /\ job'[r].left = {}
    BY <1>2, <1>4, GoesShape DEF JobsKept
  <2>2. ReqSound(r)'
    BY <1>1, <1>2, <2>1
    DEF ReqSound, PlaceSound, OwnSound, Own, At, Mine, Has, Owner, Spawns
  <2>3. \A i \in Id : Owner(i) = r => Stays(i)
    BY <1>1 DEF Stays, Settled, At
  <2>4. Kept(r)
    BY <1>1, <1>2, <1>4, <2>1, <2>3 DEF Kept, RowsKept, Owner
  <2>5. ASSUME NEW i \in Id, row'[i].by \notin Req \ {r}
        PROVE  RowSound(i)' /\ HeldSound(i)'
    <3>1. RowSound(i) /\ HeldSound(i)  BY DEF SpawnSound
    <3>2. Stays(i)  BY <2>4, AllStay
    <3>3. Owner(i) \in Req => Owner(i) = r  BY <1>1, <2>5 DEF Owner
    <3>4. RowSound(i)'
      BY <1>1, <2>1, <3>1, <3>3 DEF RowSound, Present, Mine, Owner
    <3>5. HeldSound(i)'
      BY <1>1, <1>2, <1>4, <3>1, <3>2 DEF HeldSound, Stays, Present
    <3> QED  BY <3>4, <3>5
  <2>6. SpawnSound'  BY <2>2, <2>4, <2>5, SoundByStep
  <2> QED  BY <1>1, <1>2, <1>4, <2>1, <2>6 DEF Types
<1>5. CASE FailsInto(r, UndoTree(r)) /\ UNCHANGED tmux
  <2>1. UndoTree(r) \in Seq(Calls)  BY <1>2, Undos
  <2>2. SpawnSound' /\ job' \in [Req -> Job]
    BY <1>1, <1>3, <1>5, <2>1, UndoSound DEF At
  <2> QED  BY <1>1, <1>5, <2>2 DEF Types
<1> QED  BY <1>4, <1>5 DEF Launch

LEMMA MarkSound ==
  ASSUME Types, SpawnSound, NEW r \in Req, Mark(r)
  PROVE  Types' /\ SpawnSound'
<1>1. At(r, "mark") /\ tmux' = tmux /\ tree' = tree  BY DEF Mark
<1>2. /\ Own(r) /\ Mine(r) \in Id /\ Owner(Mine(r)) = r /\ Present(Mine(r))
      /\ job[r].todo = <<>> /\ job[r].left = {} /\ ReqSound(r)
      /\ row[Mine(r)].kind = Kind(job[r].op)
      /\ \A i \in Id : Owner(i) = r => i = Mine(r)
  BY <1>1, OnItsWay DEF At, SpawnSound
<1>3. CASE /\ row' = [row EXCEPT ![Mine(r)] = [@ EXCEPT !.state = "live", !.held = TRUE]]
           /\ Goes(r, "deliver")
  <2> DEFINE new == [row[Mine(r)] EXCEPT !.state = "live", !.held = TRUE]
  <2>1. row[Mine(r)] \in Row  BY <1>2 DEF Types
  <2>2. /\ new \in Row /\ new.state = "live" /\ new.held = TRUE /\ new.by = r
        /\ new.kind = row[Mine(r)].kind
    BY <1>2, <2>1 DEF Row, Owner
  <2>3. row' = [row EXCEPT ![Mine(r)] = new]  BY <1>3
  <2> HIDE DEF new
  <2>4. /\ row' \in [Id -> Row] /\ row'[Mine(r)] = new
        /\ \A i \in Id : i # Mine(r) => row'[i] = row[i]
    BY <1>2, <2>2, <2>3 DEF Types
  <2>5. /\ job' \in [Req -> Job] /\ JobsKept(r)
        /\ job'[r].pc = "deliver" /\ job'[r].op = job[r].op /\ job'[r].id = job[r].id
        /\ job'[r].todo = <<>> /\ job'[r].left = {}
    BY <1>2, <1>3, GoesShape DEF JobsKept
  <2>6. ReqSound(r)'
    BY <1>1, <1>2, <2>2, <2>4, <2>5
    DEF ReqSound, PlaceSound, OwnSound, Own, At, Mine, Has, Owner, Spawns
  <2>7. \A i \in Id : Owner(i) = r => Stays(i)
    BY <1>1 DEF Stays, Settled, At
  <2>8. Kept(r)
    BY <1>1, <1>2, <2>2, <2>4, <2>5, <2>7 DEF Kept, RowsKept, Owner
  <2>9. ASSUME NEW i \in Id, row'[i].by \notin Req \ {r}
        PROVE  RowSound(i)' /\ HeldSound(i)'
    <3>1. CASE i = Mine(r)
      <4>1. RowSound(i)'
        BY <1>2, <2>2, <2>4, <2>5, <3>1 DEF RowSound, Present, Mine, Owner, Own
      <4>2. HeldSound(i)'
        BY <1>2, <2>2, <2>4, <2>5, <3>1 DEF HeldSound, Present, Settled, Owner, Has
      <4> QED  BY <4>1, <4>2
    <3>2. CASE i # Mine(r)
      <4>1. row'[i] = row[i] /\ RowSound(i) /\ HeldSound(i)  BY <2>4, <3>2 DEF SpawnSound
      <4>2. Owner(i) \notin Req  BY <1>2, <2>9, <3>2, <4>1 DEF Owner
      <4>3. ~Present(i) /\ ~row[i].held  BY <4>1, <4>2 DEF RowSound, Absent
      <4> QED  BY <1>1, <4>1, <4>3 DEF RowSound, HeldSound, Present
    <3> QED  BY <3>1, <3>2
  <2>10. SpawnSound'  BY <2>6, <2>8, <2>9, SoundByStep
  <2> QED  BY <1>1, <2>4, <2>5, <2>10 DEF Types
<1>4. CASE FailsInto(r, UndoLaunch(r)) /\ UNCHANGED row
  <2>1. UndoLaunch(r) \in Seq(Calls)  BY <1>2, Undos
  <2>2. UndoLaunch(r) \notin {DeleteRow(r), UndoTree(r)}
    BY DEF UndoLaunch, DeleteRow, UndoTree, Call
  <2>3. SpawnSound' /\ job' \in [Req -> Job]
    BY <1>1, <1>4, <2>1, <2>2, UndoSound DEF At
  <2> QED  BY <1>1, <1>4, <2>3 DEF Types
<1> QED  BY <1>3, <1>4 DEF Mark

LEMMA DeliverSound ==
  ASSUME Types, SpawnSound, NEW r \in Req, Deliver(r)
  PROVE  Types' /\ SpawnSound'
<1>1. At(r, "deliver") /\ row' = row /\ tmux' = tmux /\ tree' = tree  BY DEF Deliver
<1>2. /\ Own(r) /\ Mine(r) \in Id /\ Owner(Mine(r)) = r
      /\ job[r].todo = <<>> /\ job[r].left = {} /\ ReqSound(r)
      /\ \A i \in Id : Owner(i) = r => i = Mine(r)
  BY <1>1, OnItsWay DEF At, SpawnSound
<1>3. CASE Goes(r, "done")
  <2>1. /\ job' \in [Req -> Job] /\ JobsKept(r)
        /\ job'[r].pc = "done" /\ job'[r].op = job[r].op /\ job'[r].id = job[r].id
        /\ job'[r].todo = <<>> /\ job'[r].left = {}
    BY <1>2, <1>3, GoesShape DEF JobsKept
  <2>2. ReqSound(r)'
    BY <1>1, <1>2, <2>1
    DEF ReqSound, PlaceSound, OwnSound, Own, At, Mine, Has, Owner, Spawns
  <2>3. \A i \in Id : Owner(i) = r => Stays(i)
    BY <1>1, <2>1 DEF Stays, Settled, Has, Present, Owner
  <2>4. SpawnSound'  BY <1>1, <2>1, <2>2, <2>3, SoundByQuietStep
  <2> QED  BY <1>1, <2>1, <2>4 DEF Types
<1>4. CASE FailsInto(r, UndoDelivery(r))
  <2>1. UndoDelivery(r) \in Seq(Calls)  BY <1>2, Undos
  <2>2. UndoDelivery(r) \notin {DeleteRow(r), UndoTree(r)}
    BY DEF UndoDelivery, DeleteRow, UndoTree, Call
  <2>3. SpawnSound' /\ job' \in [Req -> Job]
    BY <1>1, <1>4, <2>1, <2>2, UndoSound DEF At
  <2> QED  BY <1>1, <2>3 DEF Types
<1> QED  BY <1>3, <1>4 DEF Deliver

-----------------------------------------------------------------------------
(* Teardowns.                                                              *)

LEMMA CutOffSound ==
  ASSUME Types, SpawnSound, NEW r \in Req, CutOff(r)
  PROVE  Types' /\ SpawnSound'
<1>1. /\ At(r, "tear") /\ row' = row /\ tmux' = tmux /\ tree' = tree /\ Goes(r, "failed")
      /\ ReqSound(r) /\ ~Own(r)
  BY DEF CutOff, SpawnSound
<1>2. /\ job' \in [Req -> Job] /\ JobsKept(r)
      /\ job'[r].pc = "failed" /\ job'[r].op = job[r].op /\ job'[r].id = job[r].id
      /\ job'[r].todo = job[r].todo /\ job'[r].left = job[r].left
  BY <1>1, GoesShape DEF JobsKept
<1>3. \A i \in Id : Owner(i) = r => Stays(i)
  BY <1>1, <1>2 DEF Stays, Settled, Has, Present, Owner
<1>4. ASSUME NEW i \in Id, Settled(i) PROVE Settled(i)'
  <2>1. Kept(r)  BY <1>1, <1>2, <1>3 DEF Kept, RowsKept, Owner
  <2> QED  BY <2>1, <1>4, AllStay DEF Stays
<1>5. ASSUME NEW n \in DOMAIN job[r].todo PROVE CallSound(r, n)'
  <2>1. PICK c : c = job[r].todo[n]  OBVIOUS
  <2>2. CallSound(r, n) /\ c.id \in Id  BY <1>1, <2>1, CallOf DEF ReqSound, Types
  <2> QED  BY <1>1, <1>2, <1>4, <2>1, <2>2 DEF CallSound, Own, Mine, MyTree
<1>6. ASSUME NEW c \in job[r].left PROVE ListSound(r, c)'
  <2>1. ListSound(r, c) /\ c.id \in Id  BY <1>1 DEF ReqSound, Types, Job, Calls
  <2> QED  BY <1>1, <1>2, <1>4, <2>1 DEF ListSound, Mine
<1>7. PlaceSound(r)' /\ OwnSound(r)'
  BY <1>1, <1>2 DEF ReqSound, PlaceSound, OwnSound, Own, At, Mine, Has, Owner, Running
<1>8. ReqSound(r)'  BY <1>2, <1>5, <1>6, <1>7 DEF ReqSound
<1>9. SpawnSound'  BY <1>1, <1>2, <1>3, <1>8, SoundByQuietStep
<1> QED  BY <1>1, <1>2, <1>9 DEF Types

\* What a torn down session leaves its spawn with.
LEMMA TornSound ==
  ASSUME Types, SpawnSound, NEW r \in Req, Torn(r)
  PROVE  Types' /\ SpawnSound'
<1>1. /\ At(r, "tear") /\ row' = row /\ tmux' = tmux /\ tree' = tree /\ ReqSound(r)
      /\ job[r].todo = <<>> /\ job[r].left = {}
  BY DEF Torn, SpawnSound, Pending
<1>2. PICK where \in {"create", "done", "failed"} :
        /\ Goes(r, where)
        /\ where = "create" => job[r].op = "replace" /\ Mine(r) = 0
        /\ where = "done" => job[r].op \notin Spawns
  BY DEF Torn
<1>3. /\ job' \in [Req -> Job] /\ JobsKept(r)
      /\ job'[r].pc = where /\ job'[r].op = job[r].op /\ job'[r].id = job[r].id
      /\ job'[r].todo = <<>> /\ job'[r].left = {}
  BY <1>1, <1>2, GoesShape DEF JobsKept
<1>4. \A i \in Id : Owner(i) = r => Stays(i)
  BY <1>1, <1>3 DEF Stays, Settled, Has, Present, Owner
<1>5. PlaceSound(r)'
  BY <1>1, <1>2, <1>3 DEF ReqSound, PlaceSound, At, Mine, Spawns, Locking
<1>6. OwnSound(r)'
  BY <1>1, <1>2, <1>3 DEF ReqSound, OwnSound, Own, At, Mine, Has, Owner, Running
<1>7. ReqSound(r)'  BY <1>3, <1>5, <1>6 DEF ReqSound
<1>8. SpawnSound'  BY <1>1, <1>3, <1>4, <1>7, SoundByQuietStep
<1> QED  BY <1>1, <1>3, <1>8 DEF Types

\* The call made is off the list.
LEMMA TailSound ==
  ASSUME Types, SpawnSound, NEW r \in Req, Kept(r), At(r, "tear"), job[r].todo # <<>>,
         job'[r].pc = "tear", job'[r].op = job[r].op, job'[r].id = job[r].id,
         job'[r].todo = Tail(job[r].todo), job'[r].left = job[r].left,
         tmux' \subseteq tmux,
         Own(r) /\ Tail(job[r].todo) # <<>> => row'[Mine(r)].by = r
  PROVE  ReqSound(r)'
<1> DEFINE s == job[r].todo
<1>1. ReqSound(r) /\ s \in Seq(Calls)  BY DEF SpawnSound, Types, Job
<1>2. /\ Head(s) = s[1] /\ 1 \in DOMAIN s
      /\ \A n \in DOMAIN Tail(s) : n + 1 \in DOMAIN s /\ Tail(s)[n] = s[n + 1]
      /\ \A n \in DOMAIN s : n # 1 => n - 1 \in DOMAIN Tail(s) /\ Tail(s)[n - 1] = s[n]
      /\ DOMAIN s = 1..Len(s) /\ Len(s) \in Nat \ {0} /\ Len(Tail(s)) = Len(s) - 1
      /\ Tail(s) \in Seq(Calls)
  BY <1>1, TailFacts
<1>3. DOMAIN Tail(s) = 1..Len(Tail(s))  BY <1>2, LenProperties
<1>5. \A what : Has(r, what)' => Has(r, what)
  BY <1>2 DEF Has
<1>6. Own(r)' = Own(r) /\ Mine(r)' = Mine(r) /\ MyTree(r)' = MyTree(r)
  BY DEF Own, Mine, MyTree
<1>7. PlaceSound(r)'
  BY <1>1 DEF ReqSound, PlaceSound, At, Mine
<1>8. OwnSound(r)'
  <2> SUFFICES ASSUME Own(r) PROVE OwnSound(r)'
    BY <1>6 DEF OwnSound
  <2>1. OwnSound(r) /\ Owner(Mine(r)) = r  BY <1>1 DEF ReqSound, OwnSound
  <2>2. Has(r, {"delete"})' => Mine(r) \notin tmux'
    BY <1>5, <2>1 DEF OwnSound
  <2> QED
    BY <1>6, <2>2 DEF OwnSound, At, Owner
<1>9. ASSUME NEW n \in DOMAIN Tail(s) PROVE CallSound(r, n)'
  <2>1. n + 1 \in DOMAIN s /\ Tail(s)[n] = s[n + 1] /\ CallSound(r, n + 1)
    BY <1>1, <1>2 DEF ReqSound
  <2>2. PICK c : c = s[n + 1]  OBVIOUS
  <2>3. c.id \in Id  BY <2>1, <2>2, CallOf DEF Types
  <2>4. Settled(c.id) => /\ Settled(c.id)' /\ row'[c.id].kind = row[c.id].kind
                         /\ row[c.id].state = "dead" => row'[c.id].state = "dead"
    BY <2>3, AllStay DEF Stays
  <2>5. n = Len(Tail(s)) <=> n + 1 = Len(s)  BY <1>2, <1>3
  <2>6. ASSUME NEW m \in DOMAIN s, m > n + 1
        PROVE  m - 1 \in DOMAIN Tail(s) /\ m - 1 > n /\ Tail(s)[m - 1] = s[m]
    BY <1>2, <1>3, <2>6
  <2>7. job'[r].todo[n] = c /\ job[r].todo[n + 1] = c  BY <2>1, <2>2
  <2>8. CASE c.do \in {"tree", "force"} /\ job[r].op # "cleanup"
    <3>1. PICK m \in DOMAIN s : m > n + 1 /\ s[m].do \in {"park", "delete"} /\ s[m].id = c.id
      BY <2>1, <2>7, <2>8 DEF CallSound
    <3>2. \E k \in DOMAIN job'[r].todo :
            k > n /\ job'[r].todo[k].do \in {"park", "delete"} /\ job'[r].todo[k].id = c.id
      BY <2>6, <3>1
    <3> HIDE DEF s
    <3> QED
      BY <1>6, <2>1, <2>4, <2>7, <2>8, <3>2 DEF CallSound
  <2>9. CASE ~(c.do \in {"tree", "force"} /\ job[r].op # "cleanup")
    BY <1>6, <2>1, <2>4, <2>5, <2>7, <2>9 DEF CallSound
  <2> QED  BY <2>8, <2>9
<1>10. ASSUME NEW c \in job[r].left PROVE ListSound(r, c)'
  <2>1. ListSound(r, c) /\ c.id \in Id  BY <1>1 DEF ReqSound, Types, Job, Calls
  <2>2. Stays(c.id)  BY <2>1, AllStay
  <2> QED  BY <2>1, <2>2 DEF ListSound, Stays, Mine
<1> QED
  BY <1>7, <1>8, <1>9, <1>10 DEF ReqSound

\* The call made was the next one of the list.
LEMMA OnwardShape ==
  ASSUME Types, SpawnSound, NEW r \in Req, At(r, "tear"), job[r].todo # <<>>, Onward(r)
  PROVE  /\ job' \in [Req -> Job] /\ JobsKept(r)
         /\ job'[r].pc = "tear" /\ job'[r].op = job[r].op /\ job'[r].id = job[r].id
         /\ job'[r].todo = Tail(job[r].todo) /\ job'[r].left = job[r].left
         /\ Has(r, {"delete"})' => Has(r, {"delete"})
<1>1. job[r].todo \in Seq(Calls)  BY DEF Types, Job
<1>2. /\ Tail(job[r].todo) \in Seq(Calls)
      /\ \A n \in DOMAIN Tail(job[r].todo) :
           n + 1 \in DOMAIN job[r].todo /\ Tail(job[r].todo)[n] = job[r].todo[n + 1]
  BY <1>1, TailFacts
<1>3. /\ job' \in [Req -> Job] /\ JobsKept(r)
      /\ job'[r].pc = "tear" /\ job'[r].op = job[r].op /\ job'[r].id = job[r].id
      /\ job'[r].todo = Tail(job[r].todo) /\ job'[r].left = job[r].left
  BY <1>2, ThenShape DEF Onward, JobsKept, At
<1>4. Has(r, {"delete"})' => Has(r, {"delete"})
  <2> DEFINE t == Tail(job[r].todo)
  <2>1. \A n \in DOMAIN t : n + 1 \in DOMAIN job[r].todo /\ t[n] = job[r].todo[n + 1]
    BY <1>2
  <2>2. job'[r].todo = t  BY <1>3
  <2> HIDE DEF t
  <2> QED  BY <2>1, <2>2 DEF Has
<1> QED  BY <1>3, <1>4

\* What is known of the next call.
LEMMA NextCall ==
  ASSUME Types, SpawnSound, NEW r \in Req, At(r, "tear"), job[r].todo # <<>>
  PROVE  /\ Head(job[r].todo) \in Calls /\ On(r) \in Id
         /\ CallSound(r, 1) /\ Head(job[r].todo) = job[r].todo[1] /\ 1 \in DOMAIN job[r].todo
         /\ Own(r) => On(r) = Mine(r) /\ Owner(On(r)) = r
         /\ Head(job[r].todo).do = "delete" =>
              Own(r) /\ Has(r, {"delete"}) /\ Tail(job[r].todo) = <<>>
         /\ Head(job[r].todo).do = "clear" => Own(r)
<1>1. job[r].todo \in Seq(Calls) /\ ReqSound(r)  BY DEF Types, Job, SpawnSound
<1>2. /\ Head(job[r].todo) \in Calls /\ Head(job[r].todo) = job[r].todo[1] /\ 1 \in DOMAIN job[r].todo
      /\ Len(Tail(job[r].todo)) = Len(job[r].todo) - 1 /\ Tail(job[r].todo) \in Seq(Calls)
      /\ Len(job[r].todo) \in Nat
  BY <1>1, TailFacts
<1>3. CallSound(r, 1)  BY <1>1, <1>2 DEF ReqSound
<1>4. On(r) \in Id  BY <1>2 DEF On, Calls
<1>5. Own(r) => On(r) = Mine(r) /\ Owner(On(r)) = r
  BY <1>1, <1>2, <1>3 DEF CallSound, On, ReqSound, OwnSound
<1>6. Head(job[r].todo).do = "delete" => Tail(job[r].todo) = <<>>
  <2>1. Head(job[r].todo).do = "delete" => Len(Tail(job[r].todo)) = 0
    BY <1>2, <1>3 DEF CallSound
  <2> QED  BY <1>2, <2>1, EmptySeq
<1>7. Head(job[r].todo).do = "delete" => Own(r) /\ Has(r, {"delete"})
  BY <1>2, <1>3 DEF CallSound, Has
<1>8. Head(job[r].todo).do = "clear" => Own(r)
  BY <1>2, <1>3 DEF CallSound
<1> QED  BY <1>2, <1>3, <1>4, <1>5, <1>6, <1>7, <1>8

\* A call that leaves rows and runtimes alone.
LEMMA QuietCall ==
  ASSUME Types, SpawnSound, NEW r \in Req, At(r, "tear"), job[r].todo # <<>>, Onward(r),
         row' = row, tmux' = tmux
  PROVE  SpawnSound' /\ job' \in [Req -> Job]
<1>1. /\ job' \in [Req -> Job] /\ JobsKept(r)
      /\ job'[r].pc = "tear" /\ job'[r].op = job[r].op /\ job'[r].id = job[r].id
      /\ job'[r].todo = Tail(job[r].todo) /\ job'[r].left = job[r].left
      /\ Has(r, {"delete"})' => Has(r, {"delete"})
  BY OnwardShape
<1>2. \A i \in Id : Owner(i) = r => Stays(i)
  BY <1>1 DEF Stays, Settled, Present, Owner
<1>3. Kept(r)  BY <1>1, <1>2 DEF Kept, RowsKept, Owner
<1>4. Own(r) => Owner(Mine(r)) = r /\ Mine(r) = On(r)  BY NextCall
<1>5. ReqSound(r)'
  <2>1. Own(r) => row'[Mine(r)].by = r  BY <1>1, <1>4 DEF Owner, Mine
  <2> QED  BY <1>1, <1>3, <2>1, TailSound
<1>6. SpawnSound'  BY <1>1, <1>2, <1>5, SoundByQuietStep
<1> QED  BY <1>1, <1>6

LEMMA KillRefusedSound ==
  ASSUME Types, SpawnSound, NEW r \in Req, KillRefused(r)
  PROVE  Types' /\ SpawnSound'
<1>1. /\ At(r, "tear") /\ row' = row /\ tmux' = tmux /\ tree' = tree
      /\ job[r].op = "kill" /\ Then(r, <<>>)
  BY DEF KillRefused
<1>2. /\ job' \in [Req -> Job] /\ JobsKept(r)
      /\ job'[r].pc = "tear" /\ job'[r].op = "kill" /\ job'[r].id = job[r].id
      /\ job'[r].todo = <<>> /\ job'[r].left = job[r].left
  <2>1. <<>> \in Seq(Calls)  OBVIOUS
  <2> QED  BY <1>1, <2>1, ThenShape DEF JobsKept, At
<1>3. ReqSound(r)  BY DEF SpawnSound
<1>4. job[r].left = {}  BY <1>1, <1>3 DEF ReqSound, ListSound
<1>5. ReqSound(r)'
  BY <1>1, <1>2, <1>3, <1>4 DEF ReqSound, PlaceSound, OwnSound, Own, Spawns, At, Mine
<1>6. \A i \in Id : Owner(i) = r => Stays(i)
  BY <1>1, <1>2 DEF Stays, Settled, Has, Present, Owner, At
<1>7. SpawnSound'  BY <1>1, <1>2, <1>5, <1>6, SoundByQuietStep
<1> QED  BY <1>1, <1>2, <1>7 DEF Types

\* A row that cannot be deleted is to be parked.
LEMMA DeleteFailsSound ==
  ASSUME Types, SpawnSound, NEW r \in Req, At(r, "tear"), job[r].todo # <<>>,
         Head(job[r].todo).do = "delete", Then(r, <<Call("park", On(r), 0)>>),
         row' = row, tmux' = tmux
  PROVE  SpawnSound' /\ job' \in [Req -> Job]
<1>1. /\ On(r) \in Id /\ Own(r) /\ On(r) = Mine(r) /\ Owner(Mine(r)) = r
  BY NextCall
<1>2. PICK calls \in Seq(Calls) : calls = <<Call("park", On(r), 0)>>
  BY <1>1, MyPlace, CallType, Tuples
<1>3. DOMAIN calls = {1} /\ calls[1].do = "park" /\ calls[1].id = On(r)
  BY <1>2 DEF Call
<1>4. /\ job' \in [Req -> Job] /\ JobsKept(r)
      /\ job'[r].pc = "tear" /\ job'[r].op = job[r].op /\ job'[r].id = job[r].id
      /\ job'[r].todo = calls /\ job'[r].left = job[r].left
  BY <1>2, ThenShape DEF JobsKept, At
<1>5. ReqSound(r)  BY DEF SpawnSound
<1>6. Own(r)' /\ Mine(r)' = Mine(r)  BY <1>1, <1>4 DEF Own, Mine
<1>7. ~Has(r, {"delete"})'  BY <1>3, <1>4 DEF Has
<1>8. \A i \in Id : Owner(i) = r => Stays(i)
  BY <1>4, <1>7 DEF Stays, Settled, Present, Owner
<1>9. PlaceSound(r)'  BY <1>4, <1>5 DEF ReqSound, PlaceSound, At, Mine
<1>10. OwnSound(r)'
  BY <1>1, <1>4, <1>6, <1>7 DEF OwnSound, At, Owner
<1>11. ASSUME NEW n \in DOMAIN calls PROVE CallSound(r, n)'
  <2>1. job'[r].op # "cleanup"  BY <1>1, <1>4 DEF Own, Spawns
  <2> QED  BY <1>1, <1>3, <1>4, <1>6, <2>1 DEF CallSound
<1>12. job'[r].left = {}
  <2>1. Mine(r) # 0  BY <1>1 DEF Own
  <2> QED  BY <1>4, <1>5, <2>1 DEF ReqSound, ListSound
<1>13. ReqSound(r)'  BY <1>4, <1>9, <1>10, <1>11, <1>12 DEF ReqSound
<1>14. SpawnSound'  BY <1>4, <1>8, <1>13, SoundByQuietStep
<1> QED  BY <1>4, <1>14

LEMMA CallFailsSound ==
  ASSUME Types, SpawnSound, NEW r \in Req, CallFails(r)
  PROVE  Types' /\ SpawnSound'
<1>1. /\ At(r, "tear") /\ job[r].todo # <<>> /\ row' = row /\ tmux' = tmux /\ tree' = tree
      /\ IF Head(job[r].todo).do = "delete" THEN Then(r, <<Call("park", On(r), 0)>>) ELSE Onward(r)
  BY DEF CallFails, On
<1>2. SpawnSound' /\ job' \in [Req -> Job]  BY <1>1, QuietCall, DeleteFailsSound
<1> QED  BY <1>1, <1>2 DEF Types

LEMMA DestroyTreeSound ==
  ASSUME Types, SpawnSound, NEW r \in Req, DestroyTree(r)
  PROVE  Types' /\ SpawnSound'
<1>1. /\ At(r, "tear") /\ job[r].todo # <<>> /\ row' = row /\ tmux' = tmux /\ Onward(r)
      /\ Head(job[r].todo).do \in {"tree", "force"}
      /\ tree' = [tree EXCEPT ![Head(job[r].todo).place] = "none"]
  BY DEF DestroyTree, Does
<1>2. SpawnSound' /\ job' \in [Req -> Job]  BY <1>1, QuietCall
<1>3. tree' \in [Id \cup {Canonical} -> {"none", "clean", "dirty"}]  BY <1>1 DEF Types
<1> QED  BY <1>1, <1>2, <1>3 DEF Types

LEMMA DestroyRuntimeSound ==
  ASSUME Types, SpawnSound, NEW r \in Req, DestroyRuntime(r)
  PROVE  Types' /\ SpawnSound'
<1>1. /\ At(r, "tear") /\ job[r].todo # <<>> /\ row' = row /\ tree' = tree /\ Onward(r)
      /\ Head(job[r].todo).do = "runtime" /\ tmux' = tmux \ {On(r)}
  BY DEF DestroyRuntime, Does
<1>2. /\ job' \in [Req -> Job] /\ JobsKept(r)
      /\ job'[r].pc = "tear" /\ job'[r].op = job[r].op /\ job'[r].id = job[r].id
      /\ job'[r].todo = Tail(job[r].todo) /\ job'[r].left = job[r].left
      /\ Has(r, {"delete"})' => Has(r, {"delete"})
  BY <1>1, OnwardShape
<1>3. \A i \in Id : Owner(i) = r => Stays(i)
  BY <1>1, <1>2 DEF Stays, Settled, Present, Owner
<1>4. Kept(r)  BY <1>1, <1>2, <1>3 DEF Kept, RowsKept, Owner
<1>5. Own(r) => Owner(Mine(r)) = r /\ Mine(r) = On(r)  BY <1>1, NextCall
<1>6. ReqSound(r)'
  <2>1. Own(r) => row'[Mine(r)].by = r  BY <1>1, <1>5 DEF Owner, Mine
  <2> QED  BY <1>1, <1>2, <1>4, <2>1, TailSound
<1>7. ASSUME NEW i \in Id, row'[i].by \notin Req \ {r}
      PROVE  RowSound(i)' /\ HeldSound(i)'
  <2>1. RowSound(i) /\ HeldSound(i)  BY DEF SpawnSound
  <2>2. Stays(i)  BY <1>4, AllStay
  <2>3. Owner(i) \in Req => Owner(i) = r  BY <1>1, <1>7 DEF Owner
  <2>4. RowSound(i)'
    BY <1>1, <1>2, <2>1, <2>3 DEF RowSound, Present, Mine, Owner
  <2>5. HeldSound(i)'
    BY <1>1, <2>1, <2>2 DEF HeldSound, Stays, Present
  <2> QED  BY <2>4, <2>5
<1>8. SpawnSound'  BY <1>4, <1>6, <1>7, SoundByStep
<1> QED  BY <1>1, <1>2, <1>8 DEF Types

\* A call that changes the row it is about.
LEMMA RowCall ==
  ASSUME Types, SpawnSound, NEW r \in Req, At(r, "tear"), job[r].todo # <<>>, Onward(r),
         tmux' = tmux, tree' = tree,
         NEW k \in Id, k = On(r), row' \in [Id -> Row], \A i \in Id : i # k => row'[i] = row[i],
         \/ row'[k] = row[k]
         \/ Running(k) /\ row'[k] = [row[k] EXCEPT !.state = "dead"]
         \/ Own(r) /\ row'[k] = [row[k] EXCEPT !.held = FALSE]
         \/ Own(r) /\ Has(r, {"delete"}) /\ Tail(job[r].todo) = <<>> /\ row'[k] = Absent,
         Head(job[r].todo).do \in {"delete", "park"} => ~Running(k)'
  PROVE  Types' /\ SpawnSound'
<1>1. /\ job' \in [Req -> Job] /\ JobsKept(r)
      /\ job'[r].pc = "tear" /\ job'[r].op = job[r].op /\ job'[r].id = job[r].id
      /\ job'[r].todo = Tail(job[r].todo) /\ job'[r].left = job[r].left
      /\ Has(r, {"delete"})' => Has(r, {"delete"})
  BY OnwardShape
<1>2. row[k] \in Row /\ RowSound(k) /\ HeldSound(k) /\ OwnSound(r)
  BY DEF Types, SpawnSound, ReqSound
<1>3. PICK new \in Row : row'[k] = new  OBVIOUS
<1>4. Own(r) => Mine(r) = k /\ Owner(k) = r  BY NextCall
<1>5. Absent.by = NoReq /\ Absent.state = "absent" /\ Absent.held = FALSE  BY DEF Absent
<1>6. \/ new = row[k]
      \/ /\ Running(k) /\ new = [row[k] EXCEPT !.state = "dead"] /\ new.state = "dead"
         /\ new.by = row[k].by /\ new.kind = row[k].kind /\ new.held = row[k].held
      \/ /\ Own(r) /\ new.state = row[k].state /\ new.by = row[k].by /\ new.kind = row[k].kind
         /\ new.held = FALSE /\ new = [row[k] EXCEPT !.held = FALSE]
      \/ Own(r) /\ Has(r, {"delete"}) /\ Tail(job[r].todo) = <<>> /\ new = Absent
  BY <1>2, <1>3 DEF Row
<1>7. RowsKept(r)
  BY <1>3, <1>4, <1>5, <1>6, SpawnAssumption DEF RowsKept, Owner
<1>8. ASSUME NEW i \in Id, Owner(i) = r PROVE Stays(i)
  <2>1. CASE i # k
    <3> SUFFICES ASSUME Settled(i) PROVE Stays(i)
      BY DEF Stays
    <3>1. row'[i] = row[i] /\ row[i].by = r  BY <1>8, <2>1 DEF Owner
    <3>2. ~Has(r, {"delete"})' /\ job'[r].pc = "tear"
      BY <1>1, <3>1 DEF Settled, Owner
    <3>3. row[i].state # "absent"  BY DEF Settled, Present
    <3>4. Settled(i)'  BY <3>1, <3>2, <3>3 DEF Settled, Present, Owner
    <3> QED  BY <3>1, <3>4 DEF Stays
  <2>2. CASE i = k
    <3> SUFFICES ASSUME Settled(k) PROVE Stays(k)
      BY <2>2 DEF Stays
    <3>1. ~Has(r, {"delete"}) /\ row[k].state # "absent"
      BY <1>8, <2>2 DEF Settled, Present, Owner
    <3>2. /\ new.by = r /\ new.kind = row[k].kind /\ new.state # "absent"
          /\ row[k].state = "dead" => new.state = "dead"
      BY <1>6, <1>8, <2>2, <3>1 DEF Owner
    <3>3. ~Has(r, {"delete"})' /\ job'[r].pc = "tear"
      BY <1>1, <3>1
    <3> QED
      BY ONLY <1>3, <3>2, <3>3 DEF Stays, Settled, Present, Owner
  <2> QED  BY <2>1, <2>2
<1>9. Kept(r)  BY <1>1, <1>7, <1>8 DEF Kept
<1>10. ReqSound(r)'
  <2>1. Own(r) /\ Tail(job[r].todo) # <<>> => row'[Mine(r)].by = r
    BY <1>3, <1>4, <1>6 DEF Owner
  <2> QED  BY <1>1, <1>9, <2>1, TailSound
<1>11. ASSUME NEW i \in Id, row'[i].by \notin Req \ {r}
       PROVE  RowSound(i)' /\ HeldSound(i)'
  <2>1. Stays(i) /\ RowSound(i) /\ HeldSound(i)  BY <1>9, AllStay DEF SpawnSound
  <2>2. CASE i = k /\ row'[k] = Absent /\ Own(r) /\ Has(r, {"delete"})
    <3>1. row'[i] = Absent /\ i \notin tmux'
      BY <1>2, <1>4, <2>2 DEF OwnSound
    <3> QED  BY <1>5, <3>1 DEF RowSound, HeldSound, Present
  <2>3. CASE ~(i = k /\ row'[k] = Absent /\ Own(r) /\ Has(r, {"delete"}))
    <3>1. Own(r) => row[k].state # "absent"
      BY ONLY <1>2, <1>4, <1>5, SpawnAssumption, r \in Req DEF RowSound, Owner, Present
    <3>2. /\ row'[i].by = row[i].by /\ row'[i].kind = row[i].kind
          /\ row'[i].held => row[i].held
          /\ row'[i] = row[i] \/ row'[i].state = row[i].state \/ row'[i].state = "dead"
          /\ row'[i].state = "absent" <=> row[i].state = "absent"
          /\ row'[i].state = "absent" => row'[i] = row[i]
      <4>1. CASE i # k  BY <4>1
      <4>2. CASE i = k  BY <1>3, <1>6, <2>3, <3>1, <4>2 DEF Running
      <4> QED  BY <4>1, <4>2
    <3>3. Owner(i) \in Req => Owner(i) = r  BY ONLY <1>11, <3>2 DEF Owner
    <3>4. RowSound(i)'
      BY ONLY <1>1, <2>1, <3>2, <3>3 DEF RowSound, Present, Mine, Owner
    <3>5. HeldSound(i)'
      BY ONLY <2>1, <3>2, tmux' = tmux DEF HeldSound, Stays, Present
    <3> QED  BY <3>4, <3>5
  <2> QED  BY <2>2, <2>3
<1>12. SpawnSound'  BY <1>9, <1>10, <1>11, SoundByStep
<1> QED  BY <1>1, <1>12 DEF Types

LEMMA ParkedRow ==
  ASSUME Types, NEW k \in Id, row' = Parked(k)
  PROVE  /\ row' \in [Id -> Row] /\ (\A i \in Id : i # k => row'[i] = row[i]) /\ ~Running(k)'
         /\ \/ row'[k] = row[k]
            \/ Running(k) /\ row'[k] = [row[k] EXCEPT !.state = "dead"]
<1>1. row[k] \in Row  BY DEF Types
<1>2. CASE Running(k)
  <2> DEFINE new == [row[k] EXCEPT !.state = "dead"]
  <2>1. row' = [row EXCEPT ![k] = new]  BY <1>2 DEF Parked
  <2>2. new \in Row /\ new.state = "dead"  BY <1>1 DEF Row
  <2>3. row'[k] = new  BY <2>1 DEF Types
  <2> QED  BY <1>2, <2>1, <2>2, <2>3 DEF Types, Running
<1>3. CASE ~Running(k)
  BY <1>3 DEF Parked, Types, Running
<1> QED  BY <1>2, <1>3

LEMMA ParkSound ==
  ASSUME Types, SpawnSound, NEW r \in Req, Park(r)
  PROVE  Types' /\ SpawnSound'
<1>1. /\ At(r, "tear") /\ job[r].todo # <<>> /\ tree' = tree /\ tmux' = tmux /\ Onward(r)
      /\ Head(job[r].todo).do = "park" /\ row' = Parked(On(r))
  BY DEF Park, Does
<1>2. PICK k \in Id : k = On(r)  BY <1>1, NextCall
<1>3. /\ row' \in [Id -> Row] /\ (\A i \in Id : i # k => row'[i] = row[i]) /\ ~Running(k)'
      /\ \/ row'[k] = row[k]
         \/ Running(k) /\ row'[k] = [row[k] EXCEPT !.state = "dead"]
  BY <1>1, <1>2, ParkedRow
<1> QED  BY <1>1, <1>2, <1>3, RowCall

LEMMA DeleteSound ==
  ASSUME Types, SpawnSound, NEW r \in Req, Delete(r)
  PROVE  Types' /\ SpawnSound'
<1>1. /\ At(r, "tear") /\ job[r].todo # <<>> /\ tree' = tree /\ tmux' = tmux /\ Onward(r)
      /\ Head(job[r].todo).do = "delete" /\ row' = Deleted(On(r))
  BY DEF Delete, Does
<1>2. /\ On(r) \in Id /\ Own(r) /\ Has(r, {"delete"}) /\ Tail(job[r].todo) = <<>>
  BY <1>1, NextCall
<1>3. PICK k \in Id : k = On(r)  BY <1>2
<1>4. CASE row[k].state = "seed"
  <2>1. row' = [row EXCEPT ![k] = Absent]  BY <1>1, <1>3, <1>4 DEF Deleted
  <2>2. Absent \in Row /\ Absent.state = "absent"  BY DEF Absent, Row
  <2>3. /\ row' \in [Id -> Row] /\ (\A i \in Id : i # k => row'[i] = row[i])
        /\ row'[k] = Absent /\ ~Running(k)'
    BY <2>1, <2>2 DEF Types, Running
  <2> QED  BY <1>1, <1>2, <1>3, <2>3, RowCall
<1>5. CASE row[k].state # "seed"
  <2>1. row' = Parked(k)  BY <1>1, <1>3, <1>5 DEF Deleted
  <2>2. /\ row' \in [Id -> Row] /\ (\A i \in Id : i # k => row'[i] = row[i]) /\ ~Running(k)'
        /\ \/ row'[k] = row[k]
           \/ Running(k) /\ row'[k] = [row[k] EXCEPT !.state = "dead"]
    BY <2>1, ParkedRow
  <2> QED  BY <1>1, <1>3, <2>2, RowCall
<1> QED  BY <1>4, <1>5

LEMMA ClearSound ==
  ASSUME Types, SpawnSound, NEW r \in Req, Clear(r)
  PROVE  Types' /\ SpawnSound'
<1>1. /\ At(r, "tear") /\ job[r].todo # <<>> /\ tree' = tree /\ tmux' = tmux /\ Onward(r)
      /\ Head(job[r].todo).do = "clear"
      /\ row' = IF Present(On(r)) THEN [row EXCEPT ![On(r)].held = FALSE] ELSE row
  BY DEF Clear, Does
<1>2. On(r) \in Id /\ Own(r)
  BY <1>1, NextCall
<1>3. PICK k \in Id : k = On(r)  BY <1>2
<1>4. row[k] \in Row  BY DEF Types
<1>5. CASE Present(k)
  <2> DEFINE new == [row[k] EXCEPT !.held = FALSE]
  <2>1. row' = [row EXCEPT ![k] = new]  BY <1>1, <1>3, <1>5
  <2>2. new \in Row  BY <1>4 DEF Row
  <2>3. row' \in [Id -> Row] /\ (\A i \in Id : i # k => row'[i] = row[i]) /\ row'[k] = new
    BY <2>1, <2>2 DEF Types
  <2> QED  BY <1>1, <1>2, <1>3, <2>3, RowCall
<1>6. CASE ~Present(k)
  <2>1. row' = row  BY <1>1, <1>3, <1>6
  <2>2. row' \in [Id -> Row] /\ (\A i \in Id : i # k => row'[i] = row[i]) /\ row'[k] = row[k]
    BY <2>1 DEF Types
  <2> QED  BY <1>1, <1>3, <2>2, RowCall
<1> QED  BY <1>5, <1>6

\* The next session of a list.
LEMMA TakesUpSound ==
  ASSUME Types, SpawnSound, NEW r \in Req, NEW what \in {"retire", "reclaim"}, NEW c \in job[r].left,
         NEW calls \in Seq(Calls), TakesUp(r, what, c, calls),
         JobsKept(r) =>
           \A n \in DOMAIN calls :
             /\ calls[n].do \notin {"delete", "clear"}
             /\ calls[n].do \in {"tree", "force"} =>
                  /\ Settled(calls[n].id)' /\ calls[n].place = Place(row[calls[n].id].kind, calls[n].id)
                  /\ job[r].op # "cleanup" =>
                       \E m \in DOMAIN calls :
                         m > n /\ calls[m].do \in {"park", "delete"} /\ calls[m].id = calls[n].id
             /\ job[r].op = "cleanup" =>
                  calls[n].do \in {"runtime", "tree"} /\ Settled(calls[n].id)' /\ row[calls[n].id].state = "dead"
  PROVE  Types' /\ SpawnSound'
<1> DEFINE rec == [job[r] EXCEPT !.left = @ \ {c}, !.todo = calls]
<1>1. /\ At(r, "tear") /\ job[r].todo = <<>> /\ row' = row /\ tmux' = tmux /\ tree' = tree
      /\ ReqSound(r) /\ job[r] \in Job
  BY DEF TakesUp, SpawnSound, Types
<1>2. Mine(r) = 0 /\ job[r].op \in {"replace", "cleanup"}
  BY <1>1 DEF ReqSound, ListSound
<1>3. rec \in Job /\ Becomes(r, rec)  BY <1>1 DEF Job, TakesUp
<1>4. job' \in [Req -> Job] /\ job'[r] = rec /\ JobsKept(r)  BY <1>3, Shape DEF JobsKept
<1>5. /\ job'[r].op = job[r].op /\ job'[r].pc = "tear" /\ job'[r].id = 0
      /\ job'[r].todo = calls /\ job'[r].left \subseteq job[r].left
  BY <1>1, <1>2, <1>4 DEF Job, At, Mine
<1> HIDE DEF rec
<1>6. \A i \in Id : Owner(i) # r  BY <1>2, OwnsNothing
<1>7. Kept(r)  BY <1>1, <1>4, <1>6 DEF Kept, RowsKept, Owner
<1>8. ASSUME NEW d \in job'[r].left PROVE ListSound(r, d)'
  <2>1. d \in job[r].left  BY <1>5, <1>8
  <2>2. ListSound(r, d) /\ d.id \in Id
    BY <1>1, <2>1 DEF ReqSound, Job, Calls
  <2>3. Stays(d.id)  BY <1>7, <2>2, AllStay
  <2> QED  BY <1>1, <1>5, <2>2, <2>3 DEF ListSound, Stays, Mine
<1>9. ASSUME NEW n \in DOMAIN calls PROVE CallSound(r, n)'
  <2>1. PICK d : d = calls[n]  OBVIOUS
  <2>2. job'[r].todo[n] = d  BY <1>5, <2>1
  <2>3. ~Own(r)' /\ job'[r].op # "kill"  BY <1>2, <1>5 DEF Own, Mine
  <2>4. /\ d.do \notin {"delete", "clear"}
        /\ d.do \in {"tree", "force"} =>
             /\ Settled(d.id)' /\ d.place = Place(row[d.id].kind, d.id)
             /\ job[r].op # "cleanup" =>
                  \E m \in DOMAIN calls : m > n /\ calls[m].do \in {"park", "delete"} /\ calls[m].id = d.id
        /\ job[r].op = "cleanup" =>
             d.do \in {"runtime", "tree"} /\ Settled(d.id)' /\ row[d.id].state = "dead"
    BY <1>4, <2>1
  <2> QED
    BY ONLY <1>1, <1>5, <2>2, <2>3, <2>4 DEF CallSound
<1>10. ReqSound(r)'
  BY <1>1, <1>2, <1>5, <1>8, <1>9
  DEF ReqSound, PlaceSound, OwnSound, Own, At, Mine
<1>11. SpawnSound'
  BY <1>1, <1>2, <1>4, <1>5, <1>6, <1>10, SoundByQuietStep DEF Mine
<1> QED  BY <1>1, <1>4, <1>11 DEF Types

LEMMA RetireSound ==
  ASSUME Types, SpawnSound, NEW r \in Req, Retire(r)
  PROVE  Types' /\ SpawnSound'
<1>1. PICK c \in job[r].left :
        TakesUp(r, "retire", c, IF Running(c.id) THEN Ends(c.id, "force") ELSE <<>>)
  BY DEF Retire
<1>2. c \in Calls /\ c.id \in Id /\ ListSound(r, c) /\ c.do = "retire" /\ row' = row /\ tmux' = tmux
  BY <1>1 DEF Types, Job, Calls, SpawnSound, ReqSound, TakesUp
<1>3. job[r].op = "replace" /\ Mine(r) = 0  BY <1>2 DEF ListSound
<1>4. PICK i \in Id : i = c.id  BY <1>2
<1>5. PICK p : p = Place(row[i].kind, i)  OBVIOUS
<1>6. PICK calls \in Seq(Calls) : calls = IF Running(i) THEN Ends(i, "force") ELSE <<>>
  <2>1. Ends(i, "force") \in Seq(Calls) /\ <<>> \in Seq(Calls)  BY EndsType
  <2> QED  BY <2>1
<1>7. TakesUp(r, "retire", c, calls)
  BY <1>1, <1>4, <1>6 DEF TakesUp
<1>8. \/ DOMAIN calls = {}
      \/ DOMAIN calls = {1} /\ calls[1] = Call("park", i, 0)
      \/ /\ DOMAIN calls = {1, 2, 3} /\ row[i].held
         /\ calls[1] = Call("runtime", i, 0) /\ calls[2] = Call("force", i, p)
         /\ calls[3] = Call("park", i, 0)
  <2>1. CASE ~Running(i)  BY <1>6, <2>1
  <2>2. CASE Running(i) /\ ~row[i].held
    <3>1. calls = <<Call("park", i, 0)>>  BY <1>6, <2>2 DEF Ends
    <3> QED  BY <3>1
  <2>3. CASE Running(i) /\ row[i].held
    <3>1. calls = <<Call("runtime", i, 0), Call("force", i, p), Call("park", i, 0)>>
      BY <1>5, <1>6, <2>3 DEF Ends
    <3> QED  BY <2>3, <3>1
  <2> QED  BY <2>1, <2>2, <2>3
<1>9. ASSUME JobsKept(r), row[i].held
      PROVE  Settled(i)'
  <2>1. \A j \in Id : Owner(j) # r  BY <1>3, OwnsNothing
  <2>2. Kept(r)  BY <1>2, <1>9, <2>1 DEF Kept, RowsKept, Owner
  <2> QED  BY <1>9, <2>2, AllStay DEF SpawnSound, HeldSound, Stays
<1>10. ASSUME JobsKept(r), NEW n \in DOMAIN calls
       PROVE  /\ calls[n].do \notin {"delete", "clear"} /\ calls[n].id = i
              /\ calls[n].do \in {"tree", "force"} =>
                   /\ Settled(i)' /\ calls[n].place = p
                   /\ \E m \in DOMAIN calls : m > n /\ calls[m].do \in {"park", "delete"} /\ calls[m].id = i
  BY <1>8, <1>9, <1>10 DEF Call
<1> QED
  BY <1>3, <1>5, <1>7, <1>10, TakesUpSound

LEMMA ReclaimSound ==
  ASSUME Types, SpawnSound, NEW r \in Req, Reclaim(r)
  PROVE  Types' /\ SpawnSound'
<1>1. PICK c \in job[r].left :
        TakesUp(r, "reclaim", c, <<Call("runtime", c.id, 0), Call("tree", c.id, c.place)>>)
  BY DEF Reclaim
<1>2. c \in Calls /\ c.id \in Id /\ ListSound(r, c) /\ c.do = "reclaim" /\ row' = row /\ tmux' = tmux
  BY <1>1 DEF Types, Job, Calls, SpawnSound, ReqSound, TakesUp
<1>3. /\ job[r].op = "cleanup" /\ Mine(r) = 0
      /\ Settled(c.id) /\ row[c.id].state = "dead" /\ c.place = Place(row[c.id].kind, c.id)
  BY <1>2 DEF ListSound
<1>4. PICK calls \in Seq(Calls) : calls = <<Call("runtime", c.id, 0), Call("tree", c.id, c.place)>>
  BY <1>2, ReclaimType
<1>5. TakesUp(r, "reclaim", c, calls)  BY <1>1, <1>4
<1>6. /\ DOMAIN calls = {1, 2} /\ calls[1] = Call("runtime", c.id, 0)
      /\ calls[2] = Call("tree", c.id, c.place)
  BY <1>4
<1>7. ASSUME JobsKept(r)
      PROVE  Settled(c.id)'
  <2>1. \A j \in Id : Owner(j) # r  BY <1>3, OwnsNothing
  <2>2. Kept(r)  BY <1>2, <1>7, <2>1 DEF Kept, RowsKept, Owner
  <2> QED  BY <1>2, <1>3, <2>2, AllStay DEF Stays
<1>8. \A n \in DOMAIN calls :
        /\ calls[n].do \in {"runtime", "tree"} /\ calls[n].id = c.id
        /\ calls[n].do \in {"tree", "force"} => calls[n].place = c.place
  BY <1>6 DEF Call
<1> QED
  BY <1>3, <1>5, <1>7, <1>8, TakesUpSound

-----------------------------------------------------------------------------
(* The specification.                                                      *)

\* Every step of a request, the spawn of an issue among them.
Begins(r) ==
  /\ At(r, "idle") /\ \E op \in {"worker", "plain"}, n \in Id : Spawned(r, op, n)
  /\ UNCHANGED <<tree, tmux, missed>>
Moves(r) ==
  \/ Begins(r) \/ AskOrchestrator(r) \/ AskKill(r) \/ AskCleanup(r)
  \/ Create(r) \/ Workspace(r) \/ Launch(r) \/ Mark(r) \/ Deliver(r)
  \/ Teardown(r)

LEMMA StepMoves ==
  ASSUME NEW r \in Req, Step(r) \/ TakesIssue(r)
  PROVE  Moves(r)
  BY DEF Step, AskSpawn, TakesIssue, Begins, Moves

LEMMA StepSound ==
  ASSUME Types, SpawnSound, NEW r \in Req, Moves(r)
  PROVE  Types' /\ SpawnSound'
<1>1. CASE Begins(r)
  <2>1. PICK op \in {"worker", "plain"}, n \in Id : Spawned(r, op, n)
    BY <1>1 DEF Begins
  <2> QED  BY <1>1, <2>1, SpawnedSound DEF Begins
<1>2. CASE Teardown(r)
  BY <1>2, CutOffSound, KillRefusedSound, CallFailsSound, DestroyRuntimeSound, DestroyTreeSound, DeleteSound,
     ParkSound, ClearSound, RetireSound, ReclaimSound, TornSound DEF Teardown
<1> QED
  BY <1>1, <1>2, AskOrchestratorSound, AskKillSound, AskCleanupSound, CreateSound, WorkspaceSound,
     LaunchSound, MarkSound, DeliverSound DEF Moves

LEMMA InitSound == Init => Types /\ SpawnSound
<1> SUFFICES ASSUME Init PROVE Types /\ SpawnSound
  OBVIOUS
<1>1. Absent \in Row /\ Idle \in Job  BY DEF Absent, Row, Idle, Job
<1>2. Types  BY <1>1 DEF Init, Types
<1>3. \A i \in Id : RowSound(i) /\ HeldSound(i)
  BY DEF Init, RowSound, HeldSound, Present, Absent
<1>4. ASSUME NEW r \in Req PROVE ReqSound(r)
  <2>1. /\ job[r].op = "none" /\ job[r].pc = "idle" /\ job[r].id = 0 /\ job[r].todo = <<>>
        /\ job[r].left = {}
    BY DEF Init, Idle
  <2> QED  BY <2>1 DEF ReqSound, PlaceSound, OwnSound, Own, At, Spawns, Mine
<1> QED  BY <1>2, <1>3, <1>4 DEF SpawnSound

Sound == Types /\ SpawnSound /\ IntakeSound

\* A request for a session, or the spawn of an issue, takes a free number.
LEMMA SpawnedFree ==
  ASSUME Types, NEW r \in Req, NEW op, NEW n \in Id, Spawned(r, op, n)
  PROVE  ~Present(n) /\ \A i \in Id : i # n => row'[i] = row[i]
<1>1. NextNum(n)  BY DEF Spawned, NewRow
<1>2. ~Present(n)  BY <1>1, SpawnAssumption DEF NextNum, Id
<1>3. \A i \in Id : i # n => row'[i] = row[i]  BY DEF Spawned, NewRow, Types
<1> QED  BY <1>2, <1>3

LEMMA EachKeeps ==
  ASSUME NEW some \in SUBSET Issue, Each(some)
  PROVE  poll'.todo \subseteq some
  BY DEF Each, Asleep

LEMMA SameSound ==
  ASSUME SpawnSound, row' = row, tmux' = tmux, job' = job
  PROVE  SpawnSound'
<1>1. ASSUME NEW i \in Id PROVE Settled(i)' = Settled(i)
  BY DEF Settled, Present, Has, Owner
<1>2. ASSUME NEW r \in Req PROVE ReqSound(r)'
  <2>1. ReqSound(r)  BY DEF SpawnSound
  <2>2. PlaceSound(r)' /\ OwnSound(r)'
    BY <2>1 DEF ReqSound, PlaceSound, OwnSound, Own, Mine, At, Has, Owner, Running
  <2>3. ASSUME NEW n \in DOMAIN job[r].todo PROVE CallSound(r, n)'
    <3>1. PICK c : c = job[r].todo[n]  OBVIOUS
    <3>2. CallSound(r, n)  BY <2>1 DEF ReqSound
    <3>3. Settled(c.id)' = Settled(c.id)  BY DEF Settled, Present, Has, Owner
    <3> QED  BY <3>1, <3>2, <3>3 DEF CallSound, Own, Mine, MyTree
  <2>4. ASSUME NEW c \in job[r].left PROVE ListSound(r, c)'
    <3>1. ListSound(r, c)  BY <2>1 DEF ReqSound
    <3>2. Settled(c.id)' = Settled(c.id)  BY DEF Settled, Present, Has, Owner
    <3> QED  BY <3>1, <3>2 DEF ListSound, Mine
  <2> QED  BY <2>2, <2>3, <2>4 DEF ReqSound
<1>3. ASSUME NEW i \in Id PROVE RowSound(i)' /\ HeldSound(i)'
  BY <1>1 DEF SpawnSound, RowSound, HeldSound, Present, Mine, Owner
<1> QED  BY <1>2, <1>3 DEF SpawnSound

\* The invariant, and the property that it is there for.
LEMMA IntakeStep ==
  ASSUME Sound, [IntakeNext]_allVars
  PROVE  Sound' /\ (OneSessionPerIssue => OneSessionPerIssue')
<1> USE DEF Sound
<1>1. CASE UNCHANGED allVars
  <2>1. row' = row /\ tree' = tree /\ tmux' = tmux /\ job' = job /\ issue' = issue /\ poll' = poll
    BY <1>1 DEF allVars, vars
  <2>2. Types'  BY <2>1 DEF Types
  <2>3. SpawnSound'
    BY <2>1, SameSound
  <2>4. IntakeSound'  BY <2>1 DEF IntakeSound, Present
  <2> QED  BY <2>1, <2>2, <2>3, <2>4 DEF OneSessionPerIssue, Automatic, Present
<1>2. ASSUME UNCHANGED <<vars, issue>>, poll'.todo \subseteq poll.todo \cup (Issue \ Seen)
      PROVE  Sound' /\ (OneSessionPerIssue => OneSessionPerIssue')
  <2>1. row' = row /\ tree' = tree /\ tmux' = tmux /\ job' = job /\ issue' = issue
    BY <1>2 DEF vars
  <2>2. Types'  BY <2>1 DEF Types
  <2>3. SpawnSound'
    BY <2>1, SameSound
  <2>4. \A i \in Id : issue[i] \notin Issue \ Seen
    BY IntakeAssumption DEF IntakeSound, Seen
  <2>5. IntakeSound'  BY <1>2, <2>1, <2>4 DEF IntakeSound, Present
  <2> QED  BY <2>1, <2>2, <2>3, <2>5 DEF OneSessionPerIssue, Automatic, Present
<1>3. CASE PollStarts
  <2>1. poll'.todo \subseteq Issue \ Seen  BY <1>3, EachKeeps DEF PollStarts
  <2> QED  BY <1>2, <1>3, <2>1 DEF PollStarts
<1>4. CASE PassesOver
  <2>1. PICK x \in poll.todo : Each(poll.todo \ {x})  BY <1>4 DEF PassesOver
  <2>2. poll'.todo \subseteq poll.todo \ {x}  BY <2>1, EachKeeps DEF IntakeSound
  <2> QED  BY <1>2, <1>4, <2>2 DEF PassesOver
<1>5. CASE SpawnReturns
  <2>1. poll'.todo \subseteq poll.todo  BY <1>5, EachKeeps DEF SpawnReturns, IntakeSound
  <2> QED  BY <1>2, <1>5, <2>1 DEF SpawnReturns
<1>6. CASE PollStops
  <2>1. poll'.todo = {}  BY <1>6 DEF PollStops, Asleep
  <2> QED  BY <1>2, <1>6, <2>1 DEF PollStops
<1>7. ASSUME NEW r \in Req, TakesIssue(r)
      PROVE  Sound' /\ (OneSessionPerIssue => OneSessionPerIssue')
  <2>1. PICK x \in poll.todo, n \in Id :
          /\ Spawned(r, "worker", n) /\ issue' = [issue EXCEPT ![n] = x]
          /\ poll' = [step |-> "spawning", todo |-> poll.todo \ {x}, spawn |-> r]
    BY <1>7 DEF TakesIssue
  <2>2. Types' /\ SpawnSound'  BY <1>7, <2>1, SpawnedSound DEF TakesIssue
  <2>3. ~Present(n) /\ \A i \in Id : i # n => row'[i] = row[i]  BY <2>1, SpawnedFree
  <2>4. x \in Issue /\ poll'.todo = poll.todo \ {x} /\ issue'[n] = x
        /\ \A i \in Id : i # n => issue'[i] = issue[i]
    BY <2>1 DEF IntakeSound
  <2>5. Present(n)'  BY <2>1 DEF Spawned, NewRow, Types, Present
  <2>6. IntakeSound'
    <3>1. issue' \in [Id -> Issue \cup {NoIssue}]  BY <2>1, <2>4 DEF IntakeSound
    <3>2. \A i \in Id : ~Present(i)' => issue'[i] = NoIssue
      BY <2>3, <2>4, <2>5 DEF IntakeSound, Present
    <3>3. \A i \in Id : issue'[i] \notin poll'.todo  BY <2>4 DEF IntakeSound
    <3> QED  BY <2>4, <3>1, <3>2, <3>3 DEF IntakeSound
  <2>7. OneSessionPerIssue => OneSessionPerIssue'
    BY <2>1, <2>3, <2>4 DEF OneSessionPerIssue, Automatic, Present, IntakeSound
  <2> QED  BY <2>2, <2>6, <2>7
<1>8. ASSUME NEW r \in Req, Others(r)
      PROVE  Sound' /\ (OneSessionPerIssue => OneSessionPerIssue')
  <2>1. Step(r) /\ poll' = poll
        /\ issue' = [i \in Id |-> IF row'[i].state = "absent" THEN NoIssue ELSE issue[i]]
    BY <1>8 DEF Others
  <2>2. Types' /\ SpawnSound'  BY <2>1, StepMoves, StepSound
  <2>3. IntakeSound'
    BY <2>1, IntakeAssumption DEF IntakeSound, Present
  <2>4. OneSessionPerIssue => OneSessionPerIssue'
    BY <2>1 DEF OneSessionPerIssue, Automatic, Present, IntakeSound
  <2> QED  BY <2>2, <2>3, <2>4
<1> QED
  BY <1>1, <1>3, <1>4, <1>5, <1>6, <1>7, <1>8 DEF IntakeNext

LEMMA IntakeInitSound == IntakeInit => Sound /\ OneSessionPerIssue
<1> SUFFICES ASSUME IntakeInit PROVE Sound /\ OneSessionPerIssue
  OBVIOUS
<1>1. Types /\ SpawnSound  BY InitSound DEF IntakeInit
<1>2. \A i \in Id : issue[i] = NoIssue  BY DEF IntakeInit
<1>3. IntakeSound  BY <1>2 DEF IntakeInit, IntakeSound, Asleep
<1>4. OneSessionPerIssue  BY <1>2 DEF OneSessionPerIssue, Automatic
<1> QED  BY <1>1, <1>3, <1>4 DEF Sound

\* What rows, calls to come and the poll keep to.
THEOREM IntakeInvariant == IntakeSpec => []Sound
<1>1. Sound /\ [IntakeNext]_allVars => Sound'  BY IntakeStep
<1> QED  BY <1>1, IntakeInitSound, PTL DEF IntakeSpec

\* Intake never has two sessions for one issue.
THEOREM IntakeOneSessionPerIssue == IntakeSpec => []OneSessionPerIssue
<1>1. Sound /\ OneSessionPerIssue /\ [IntakeNext]_allVars => Sound' /\ OneSessionPerIssue'
  BY IntakeStep
<1> QED  BY <1>1, IntakeInitSound, PTL DEF IntakeSpec

-----------------------------------------------------------------------------
(* Nothing is lost.                                                        *)

\* What a request that asks for anything is at.
LEMMA StepJob ==
  ASSUME Types, SpawnSound, NEW r \in Req, Moves(r)
  PROVE  /\ JobsKept(r) /\ job' \in [Req -> Job]
         /\ At(r, "idle") \/ job'[r].op = job[r].op
         /\ At(r, "idle") \/ At(r, "create") \/ job'[r].id = job[r].id
         /\ job'[r].pc = "launch" => Workspace(r)
         /\ job'[r].pc = "mark" => Launch(r)
         /\ job'[r].pc = "create" => Torn(r) \/ At(r, "idle")
         /\ job'[r].pc = "tear" =>
              job[r].pc \in {"idle", "workspace", "launch", "mark", "deliver", "tear"}
<1>1. job[r] \in Job /\ ReqSound(r)  BY DEF Types, SpawnSound
<1>2. ASSUME NEW rec, job' = [job EXCEPT ![r] = rec]
      PROVE  JobsKept(r) /\ job'[r] = rec
  BY <1>2 DEF JobsKept, Types
<1>3. job' \in [Req -> Job]  BY StepSound DEF Types
<1>4. CASE Begins(r) \/ AskOrchestrator(r) \/ AskKill(r) \/ AskCleanup(r)
  <2>1. \E rec : rec.pc \notin {"launch", "mark"} /\ job' = [job EXCEPT ![r] = rec]
    BY <1>4 DEF Begins, AskOrchestrator, AskKill, AskCleanup, Spawned, Starts, Lists, Becomes
  <2> QED  BY <1>2, <1>3, <1>4, <2>1 DEF Begins, AskOrchestrator, AskKill, AskCleanup, At
<1>5. CASE Create(r)
  <2>1. PICK n \in Id : job' = [job EXCEPT ![r] = [job[r] EXCEPT !.id = n, !.pc = "workspace"]]
    BY <1>5 DEF Create, Becomes
  <2>2. PICK rec : rec = [job[r] EXCEPT !.id = n, !.pc = "workspace"]  OBVIOUS
  <2>3. rec.op = job[r].op /\ rec.pc = "workspace"  BY <1>1, <2>2 DEF Job
  <2> QED  BY <1>2, <1>3, <1>5, <2>1, <2>2, <2>3 DEF Create
<1>6. ASSUME NEW where, Goes(r, where)
      PROVE  JobsKept(r) /\ job'[r].op = job[r].op /\ job'[r].id = job[r].id /\ job'[r].pc = where
  <2>1. PICK rec : rec = [job[r] EXCEPT !.pc = where]  OBVIOUS
  <2>2. job' = [job EXCEPT ![r] = rec]  BY <1>6, <2>1 DEF Goes, Becomes
  <2>3. rec.op = job[r].op /\ rec.id = job[r].id /\ rec.pc = where  BY <1>1, <2>1 DEF Job
  <2> QED  BY <1>2, <2>2, <2>3
<1>7. ASSUME NEW calls, FailsInto(r, calls)
      PROVE  /\ JobsKept(r) /\ job'[r].op = job[r].op /\ job'[r].id = job[r].id
             /\ job'[r].pc = "tear"
  <2>1. job' = [job EXCEPT ![r] = [job[r] EXCEPT !.pc = "tear", !.todo = calls]]
    BY <1>7 DEF FailsInto, Becomes
  <2>2. PICK rec : rec = [job[r] EXCEPT !.pc = "tear", !.todo = calls]  OBVIOUS
  <2>3. rec.op = job[r].op /\ rec.id = job[r].id /\ rec.pc = "tear"  BY <1>1, <2>2 DEF Job
  <2> QED  BY <1>2, <2>1, <2>2, <2>3
<1>8. ASSUME NEW calls, Then(r, calls)
      PROVE  JobsKept(r) /\ job'[r].op = job[r].op /\ job'[r].id = job[r].id /\ job'[r].pc = job[r].pc
  <2>1. PICK rec : rec = [job[r] EXCEPT !.todo = calls]  OBVIOUS
  <2>2. job' = [job EXCEPT ![r] = rec]  BY <1>8, <2>1 DEF Then, Becomes
  <2>3. rec.op = job[r].op /\ rec.id = job[r].id /\ rec.pc = job[r].pc  BY <1>1, <2>1 DEF Job
  <2> QED  BY <1>2, <2>2, <2>3
<1>9. ASSUME NEW what, NEW c, NEW calls, TakesUp(r, what, c, calls)
      PROVE  JobsKept(r) /\ job'[r].op = job[r].op /\ job'[r].id = job[r].id /\ job'[r].pc = job[r].pc
  <2>1. PICK rec : rec = [job[r] EXCEPT !.left = @ \ {c}, !.todo = calls]  OBVIOUS
  <2>2. job' = [job EXCEPT ![r] = rec]  BY <1>9, <2>1 DEF TakesUp, Becomes
  <2>3. rec.op = job[r].op /\ rec.id = job[r].id /\ rec.pc = job[r].pc  BY <1>1, <2>1 DEF Job
  <2> QED  BY <1>2, <2>2, <2>3
<1>10. CASE Workspace(r) \/ Launch(r) \/ Mark(r) \/ Deliver(r)
  BY <1>3, <1>6, <1>7, <1>10 DEF Workspace, Launch, Mark, Deliver, At
<1>11. CASE CutOff(r) \/ Torn(r)
  BY <1>3, <1>6, <1>11 DEF CutOff, Torn
<1>12. CASE KillRefused(r) \/ CallFails(r) \/ DestroyRuntime(r) \/ DestroyTree(r) \/ Delete(r) \/ Park(r) \/ Clear(r)
  BY <1>3, <1>8, <1>12
  DEF KillRefused, CallFails, DestroyRuntime, DestroyTree, Delete, Park, Clear, Onward, Does, At
<1>13. CASE Retire(r) \/ Reclaim(r)
  <2>1. At(r, "tear")  BY <1>13 DEF Retire, Reclaim, TakesUp
  <2> QED  BY <1>3, <1>9, <1>13, <2>1 DEF Retire, Reclaim, At
<1> QED
  BY <1>4, <1>5, <1>10, <1>11, <1>12, <1>13 DEF Moves, Teardown

\* After one call of a list, what other calls were to come still are.
LEMMA StillHas ==
  ASSUME Types, SpawnSound, NEW r \in Req, At(r, "tear"), job[r].todo # <<>>, Onward(r),
         NEW n \in DOMAIN job[r].todo, job[r].todo[n] # Head(job[r].todo)
  PROVE  \E m \in DOMAIN job'[r].todo : job'[r].todo[m] = job[r].todo[n]
<1>1. job[r].todo \in Seq(Calls)  BY DEF Types, Job
<1>2. /\ Head(job[r].todo) = job[r].todo[1]
      /\ n # 1 => n - 1 \in DOMAIN Tail(job[r].todo) /\ Tail(job[r].todo)[n - 1] = job[r].todo[n]
  BY <1>1, TailFacts
<1>3. PICK m \in DOMAIN Tail(job[r].todo) : Tail(job[r].todo)[m] = job[r].todo[n]
  BY <1>2
<1>4. job'[r].todo = Tail(job[r].todo)  BY OnwardShape
<1> QED  BY <1>3, <1>4

\* The rollbacks after the worktree was made remove it.
LEMMA UndoHasTree ==
  ASSUME NEW r \in Req, NEW calls, calls \in {UndoTree(r), UndoLaunch(r), UndoDelivery(r)}
  PROVE  \E n \in DOMAIN calls : calls[n].do = "tree"
<1> DEFINE i == Mine(r)
<1> DEFINE p == MyTree(r)
<1>1. \/ calls = <<Call("tree", i, p), Call("delete", i, 0)>>
      \/ calls = <<Call("runtime", i, 0), Call("tree", i, p), Call("park", i, 0)>>
      \/ calls = <<Call("runtime", i, 0), Call("tree", i, p), Call("park", i, 0), Call("clear", i, 0)>>
  BY DEF UndoTree, UndoLaunch, UndoDelivery
<1> HIDE DEF i, p
<1>2. \/ 1 \in DOMAIN calls /\ calls[1] = Call("tree", i, p)
      \/ 2 \in DOMAIN calls /\ calls[2] = Call("tree", i, p)
  BY <1>1
<1> QED  BY <1>2 DEF Call

LEMMA HasKept ==
  ASSUME Types, SpawnSound, NEW r \in Req, At(r, "tear"), job[r].todo # <<>>, Onward(r),
         NEW what, Has(r, what), Head(job[r].todo).do \notin what
  PROVE  Has(r, what)'
<1>1. PICK n \in DOMAIN job[r].todo : job[r].todo[n].do \in what  BY DEF Has
<1>2. PICK m \in DOMAIN job'[r].todo : job'[r].todo[m] = job[r].todo[n]
  BY <1>1, StillHas
<1> QED  BY <1>1, <1>2 DEF Has

\* After a deletion nothing is to come.
LEMMA DeleteIsLast ==
  ASSUME Types, SpawnSound, NEW r \in Req, At(r, "tear"), job[r].todo # <<>>,
         Head(job[r].todo).do = "delete", NEW n \in DOMAIN job[r].todo
  PROVE  job[r].todo[n] = Head(job[r].todo)
<1>1. job[r].todo \in Seq(Calls)  BY DEF Types, Job
<1>2. /\ Head(job[r].todo) = job[r].todo[1]
      /\ n # 1 => n - 1 \in DOMAIN Tail(job[r].todo)
  BY <1>1, TailFacts
<1>3. Tail(job[r].todo) = <<>>  BY NextCall
<1>4. DOMAIN Tail(job[r].todo) = {}  BY <1>3
<1> QED  BY <1>2, <1>4

\* What a failing call leaves is not forgotten before another call gets it.
MissedType == missed \in [{"runtime", "tree", "park"} -> SUBSET (Id \cup {Canonical})]
Makes(r) == Workspace(r) /\ At(r, "workspace") /\ Goes(r, "launch")

LEMMA GetsShape ==
  ASSUME MissedType, NEW what \in {"runtime", "tree", "park"}, NEW n, Gets(what, n)
  PROVE  /\ MissedType' /\ missed'[what] = missed[what] \ {n}
         /\ \A other \in {"runtime", "tree", "park"} \ {what} : missed'[other] = missed[other]
  BY DEF Gets, MissedType

LEMMA FailsShape ==
  ASSUME Types, SpawnSound, MissedType, NEW r \in Req, CallFails(r)
  PROVE  /\ MissedType'
         /\ \A what \in {"runtime", "tree", "park"} : missed[what] \subseteq missed'[what]
         /\ Own(r) /\ Stands(Head(job[r].todo)) =>
              LET c == Head(job[r].todo) IN
              (IF c.do = "tree" THEN c.place ELSE c.id) \in missed'[c.do]
<1>1. PICK c \in Calls : c = Head(job[r].todo)  BY NextCall DEF CallFails
<1>2. PICK n \in Id \cup {Canonical} : n = IF c.do = "tree" THEN c.place ELSE c.id
  BY DEF Calls
<1>3. CASE Own(r) /\ Stands(c)
  <2>1. c.do \in {"runtime", "tree", "park"}  BY <1>3 DEF Stands
  <2>2. missed' = [missed EXCEPT ![c.do] = @ \cup {n}]  BY <1>1, <1>2, <1>3 DEF CallFails
  <2>3. PICK what \in {"runtime", "tree", "park"} : what = c.do  BY <2>1
  <2>4. /\ missed'[what] = missed[what] \cup {n}
        /\ \A other \in {"runtime", "tree", "park"} \ {what} : missed'[other] = missed[other]
    BY <2>2, <2>3 DEF MissedType
  <2>5. MissedType'
    <3>1. missed[what] \cup {n} \in SUBSET (Id \cup {Canonical})  BY DEF MissedType
    <3> QED  BY <2>2, <2>3, <3>1 DEF MissedType
  <2> QED  BY <1>1, <1>2, <2>3, <2>4, <2>5
<1>4. CASE ~(Own(r) /\ Stands(c))
  <2>1. missed' = missed  BY <1>1, <1>4 DEF CallFails
  <2> QED  BY <1>1, <1>4, <2>1 DEF MissedType
<1> QED  BY <1>3, <1>4

LEMMA MissedStep ==
  ASSUME Types, SpawnSound, MissedType, NEW r \in Req, Moves(r)
  PROVE  /\ MissedType'
         /\ \A i \in missed["runtime"] : i \in missed'["runtime"] \/ i \notin tmux'
         /\ \A i \in missed["park"] : i \in missed'["park"] \/ ~Running(i)'
         /\ \A p \in missed["tree"] :
              p \in missed'["tree"] \/ tree'[p] = "none" \/ (Makes(r) /\ p = MyTree(r))
<1>1. CASE missed' = missed  BY <1>1 DEF MissedType
<1>2. CASE Workspace(r) /\ missed' # missed
  <2>1. Gets("tree", MyTree(r)) /\ Makes(r)  BY <1>2 DEF Workspace, Makes
  <2> QED  BY <2>1, GetsShape
<1>3. CASE DestroyRuntime(r)
  <2>1. Gets("runtime", On(r)) /\ tmux' = tmux \ {On(r)}  BY <1>3 DEF DestroyRuntime
  <2> QED  BY <2>1, GetsShape
<1>4. CASE DestroyTree(r)
  <2>1. PICK c \in Calls : c = Head(job[r].todo)  BY <1>4, NextCall DEF DestroyTree, Does
  <2>2. Gets("tree", c.place) /\ tree' = [tree EXCEPT ![c.place] = "none"]
    BY <1>4, <2>1 DEF DestroyTree
  <2>3. tree'[c.place] = "none"  BY <2>2 DEF Types, Calls
  <2> QED  BY <2>2, <2>3, GetsShape
<1>5. CASE Delete(r) \/ Park(r)
  <2>1. PICK k \in Id : k = On(r)  BY <1>5, NextCall DEF Park, Delete, Does
  <2>2. Gets("park", k) /\ (row' = Parked(k) \/ row' = [row EXCEPT ![k] = Absent])
    BY <1>5, <2>1 DEF Park, Delete, Deleted
  <2>3. ~Running(k)'
    <3>1. CASE row' = Parked(k)  BY <3>1, ParkedRow
    <3>2. CASE row' = [row EXCEPT ![k] = Absent]
      <4>1. row'[k] = Absent  BY <3>2 DEF Types
      <4> QED  BY <4>1 DEF Running, Absent
    <3> QED  BY <2>2, <3>1, <3>2
  <2> QED  BY <2>2, <2>3, GetsShape
<1>6. CASE CallFails(r)  BY <1>6, FailsShape
<1>7. CASE ~(Workspace(r) \/ DestroyRuntime(r) \/ DestroyTree(r) \/ Delete(r) \/ Park(r) \/ CallFails(r))
  <2>1. missed' = missed
    BY <1>7 DEF Moves, Begins, Teardown, AskOrchestrator, AskKill, AskCleanup, Create, Launch,
       Mark, Deliver, CutOff, KillRefused, Clear, Retire, Reclaim, TakesUp, Torn
  <2> QED  BY <1>1, <2>1
<1> QED  BY <1>1, <1>2, <1>3, <1>4, <1>5, <1>6, <1>7

LEMMA TreeStep ==
  ASSUME Types, SpawnSound, MissedType, TreeSound, NEW r \in Req, Moves(r)
  PROVE  TreeSound'
<1>1. DOMAIN tree' = DOMAIN tree /\ DOMAIN tree = Id \cup {Canonical}
  BY StepSound DEF Types
<1> SUFFICES ASSUME NEW p \in Id \cup {Canonical}, p \notin missed'["tree"], tree'[p] # "none"
             PROVE  \E q \in Req : Owes(q, p)'
  BY <1>1 DEF TreeSound
<1>2. ReqSound(r) /\ job[r] \in Job  BY DEF SpawnSound, Types
<1>3. CASE Makes(r) /\ p = MyTree(r)
  <2>1. Goes(r, "launch") /\ At(r, "workspace")  BY <1>3 DEF Makes
  <2>2. job'[r].pc = "launch" /\ job'[r].op = job[r].op /\ job'[r].id = job[r].id
    BY <2>1, GoesShape
  <2>3. Own(r)  BY <2>1, OnItsWay DEF At
  <2> QED  BY <1>3, <2>2, <2>3 DEF Owes, Builds, Own, Mine, MyTree
<1>4. CASE ~(Makes(r) /\ p = MyTree(r))
  <2>1. p \notin missed["tree"]  BY <1>4, MissedStep
  <2>2. tree[p] # "none"
    <3>1. CASE Workspace(r)
      <4>1. \/ tree' = tree
            \/ Makes(r) /\ \E made \in {"clean", "dirty"} :
                 tree' = [tree EXCEPT ![MyTree(r)] = IF @ = "none" THEN made ELSE @]
        BY <3>1 DEF Workspace, Makes
      <4>2. CASE tree' = tree  BY <4>2
      <4>3. CASE Makes(r) /\ \E made \in {"clean", "dirty"} :
                   tree' = [tree EXCEPT ![MyTree(r)] = IF @ = "none" THEN made ELSE @]
        <5>1. tree'[p] = tree[p]  BY <1>4, <4>3 DEF Types
        <5> QED  BY <5>1
      <4> QED  BY <4>1, <4>2, <4>3
    <3>2. CASE DestroyTree(r)
      <4>1. tree' = [tree EXCEPT ![Head(job[r].todo).place] = "none"]  BY <3>2 DEF DestroyTree
      <4> QED  BY <4>1 DEF Types
    <3>3. CASE ~Workspace(r) /\ ~DestroyTree(r)
      <4>1. tree' = tree
        BY <3>3 DEF Moves, Teardown, Begins, AskOrchestrator, AskKill, AskCleanup, Create, Launch, Mark,
           Deliver, CutOff, KillRefused, CallFails, DestroyRuntime, Delete, Park, Clear, Retire, Reclaim,
           TakesUp, Torn
      <4> QED  BY <4>1
    <3> QED  BY <3>1, <3>2, <3>3
  <2>3. PICK q \in Req : Owes(q, p)  BY <2>1, <2>2 DEF TreeSound, Types
  <2>4. CASE q # r
    <3>1. job'[q] = job[q]  BY <2>4, StepJob DEF JobsKept
    <3> QED  BY <2>3, <3>1 DEF Owes, Builds, Own, Mine, MyTree, Has
  <2>5. ASSUME q = r
        PROVE  Owes(r, p)'
    <3>1. Own(r) /\ MyTree(r) = p /\ ~At(r, "idle") /\ ~At(r, "create")
      BY <1>2, <2>3, <2>5 DEF Owes, Builds, Own, ReqSound, PlaceSound, Spawns
    <3>2. Own(r)' /\ MyTree(r)' = p
      BY <3>1, StepJob DEF Own, Mine, MyTree
    <3>3. SUFFICES job'[r].pc \in {"launch", "mark", "deliver", "done"} \/ Has(r, {"tree"})'
      BY <3>2 DEF Owes, Builds
    <3>4. ~At(r, "workspace") /\ (job[r].todo = <<>> => ~At(r, "tear"))
      BY <1>2, <2>3, <2>5 DEF Owes, Builds, ReqSound, PlaceSound, Has, At
    <3>5. CASE Launch(r)
      <4>1. CASE Goes(r, "mark")  BY <4>1, GoesShape
      <4>2. CASE FailsInto(r, UndoTree(r))
        <5>1. PICK calls \in Seq(Calls) : calls = UndoTree(r)
          BY <3>5, OnItsWay, Undos DEF Launch, At
        <5>2. job'[r].todo = calls  BY <4>2, <5>1, FailShape
        <5> QED  BY <5>1, <5>2, UndoHasTree DEF Has
      <4> QED  BY <3>5, <4>1, <4>2 DEF Launch
    <3>6. CASE Mark(r)
      <4>1. CASE Goes(r, "deliver")  BY <4>1, GoesShape
      <4>2. CASE FailsInto(r, UndoLaunch(r))
        <5>1. PICK calls \in Seq(Calls) : calls = UndoLaunch(r)
          BY <3>6, OnItsWay, Undos DEF Mark, At
        <5>2. job'[r].todo = calls  BY <4>2, <5>1, FailShape
        <5> QED  BY <5>1, <5>2, UndoHasTree DEF Has
      <4> QED  BY <3>6, <4>1, <4>2 DEF Mark
    <3>7. CASE Deliver(r)
      <4>1. CASE Goes(r, "done")  BY <4>1, GoesShape
      <4>2. CASE FailsInto(r, UndoDelivery(r))
        <5>1. PICK calls \in Seq(Calls) : calls = UndoDelivery(r)
          BY <3>7, OnItsWay, Undos DEF Deliver, At
        <5>2. job'[r].todo = calls  BY <4>2, <5>1, FailShape
        <5> QED  BY <5>1, <5>2, UndoHasTree DEF Has
      <4> QED  BY <3>7, <4>1, <4>2 DEF Deliver
    <3>8. ~CutOff(r) /\ ~KillRefused(r)
      BY <3>1 DEF CutOff, KillRefused, Own, Spawns
    <3>9. ASSUME At(r, "tear")
          PROVE  Has(r, {"tree"})
      BY <2>3, <2>5, <3>9 DEF Owes, Builds, At
    <3>10. ASSUME At(r, "tear"), job[r].todo # <<>>, Head(job[r].todo).do \in {"tree", "force"}
           PROVE  Head(job[r].todo).place = p
      <4>1. CallSound(r, 1) /\ Head(job[r].todo) = job[r].todo[1]  BY <3>10, NextCall
      <4> QED  BY <3>1, <3>10, <4>1 DEF CallSound
    <3>11. CASE CallFails(r)
      <4>1. At(r, "tear") /\ job[r].todo # <<>>  BY <3>11 DEF CallFails
      <4>2. CASE Head(job[r].todo).do = "tree"
        <5>1. Stands(Head(job[r].todo))  BY <2>2, <3>10, <4>1, <4>2 DEF Stands
        <5> QED  BY <3>1, <3>10, <3>11, <4>1, <4>2, <5>1, FailsShape
      <4>3. Head(job[r].todo).do # "delete"
        <5>1. PICK n \in DOMAIN job[r].todo : job[r].todo[n].do = "tree"  BY <3>9, <4>1 DEF Has
        <5> QED  BY <4>1, <5>1, DeleteIsLast
      <4>4. Onward(r)  BY <3>11, <4>3 DEF CallFails
      <4> QED  BY <3>9, <4>1, <4>2, <4>4, HasKept
    <3>12. ~DestroyTree(r)
      <4> SUFFICES ASSUME DestroyTree(r) PROVE FALSE
        OBVIOUS
      <4>1. At(r, "tear") /\ job[r].todo # <<>> /\ Head(job[r].todo).do \in {"tree", "force"}
            /\ tree' = [tree EXCEPT ![Head(job[r].todo).place] = "none"]
        BY DEF DestroyTree, Does
      <4> QED  BY <3>10, <4>1 DEF Types
    <3>13. CASE DestroyRuntime(r) \/ Delete(r) \/ Park(r) \/ Clear(r)
      <4>1. /\ At(r, "tear") /\ job[r].todo # <<>> /\ Onward(r)
            /\ Head(job[r].todo).do \notin {"tree"}
        BY <3>13 DEF DestroyRuntime, Delete, Park, Clear, Does
      <4> QED  BY <3>9, <4>1, HasKept
    <3> QED
      BY <3>1, <3>4, <3>5, <3>6, <3>7, <3>8, <3>11, <3>12, <3>13
      DEF Moves, Teardown, Begins, AskOrchestrator, AskKill, AskCleanup, Create, Workspace,
          Retire, Reclaim, TakesUp, Torn, Pending
  <2> QED  BY <2>3, <2>4, <2>5
<1> QED  BY <1>3, <1>4

-----------------------------------------------------------------------------
(* A worker keeps its worktree.                                            *)

\* How a row comes to run.
LEMMA RowStep ==
  ASSUME Types, SpawnSound, NEW r \in Req, Moves(r), NEW i \in Id, row'[i].state \in {"seed", "live"}
  PROVE  \/ /\ row'[i].state = row[i].state /\ row'[i].kind = row[i].kind /\ row'[i].by = row[i].by
         \/ /\ ~Present(i) /\ row'[i].state = "seed" /\ row'[i].by = r /\ job'[r].id = i
            /\ job'[r].op \in {"worker", "plain"} \/ At(r, "create")
         \/ /\ At(r, "mark") /\ i = Mine(r) /\ row'[i].state = "live"
            /\ row'[i].kind = row[i].kind /\ row'[i].by = row[i].by /\ tree' = tree
<1>1. row[i] \in Row /\ row \in [Id -> Row]  BY DEF Types
<1>2. ASSUME NEW kind, NEW n, NewRow(r, kind, n)
      PROVE  /\ ~Present(n) /\ n \in Id /\ row'[n].state = "seed" /\ row'[n].by = r
             /\ \A j \in Id : j # n => row'[j] = row[j]
  BY <1>1, <1>2, SpawnAssumption DEF NewRow, NextNum, Id, Present
<1>3. CASE Begins(r)
  <2>1. PICK op \in {"worker", "plain"}, n \in Id : Spawned(r, op, n)
    BY <1>3 DEF Begins
  <2>2. /\ job'[r].op = op /\ job'[r].id = n
    BY <2>1, StartShape DEF Spawned
  <2>3. PICK kind : kind = Kind(op)  OBVIOUS
  <2>4. NewRow(r, kind, n)  BY <2>1, <2>3 DEF Spawned
  <2> QED  BY <1>2, <2>2, <2>4
<1>4. CASE Create(r)
  <2>1. PICK n \in Id : /\ NewRow(r, "orchestrator", n)
                        /\ job' = [job EXCEPT ![r] = [job[r] EXCEPT !.id = n, !.pc = "workspace"]]
    BY <1>4 DEF Create, Becomes
  <2>2. job'[r].id = n
    <3>1. job[r] \in Job  BY DEF Types
    <3>2. PICK rec : rec = [job[r] EXCEPT !.id = n, !.pc = "workspace"]  OBVIOUS
    <3>3. rec.id = n  BY <3>1, <3>2 DEF Job
    <3>4. job'[r] = rec  BY <2>1, <3>2 DEF Types
    <3> QED  BY <3>3, <3>4
  <2>3. PICK kind : kind = "orchestrator"  OBVIOUS
  <2>4. NewRow(r, kind, n)  BY <2>1, <2>3
  <2> QED  BY <1>2, <1>4, <2>2, <2>4 DEF Create
<1>5. CASE Mark(r)
  <2>1. CASE row' = row  BY <2>1
  <2>2. CASE row' = [row EXCEPT ![Mine(r)] = [@ EXCEPT !.state = "live", !.held = TRUE]]
    <3>1. PICK new : new = [row[Mine(r)] EXCEPT !.state = "live", !.held = TRUE]  OBVIOUS
    <3>2. CASE i = Mine(r)
      <4>1. new.state = "live" /\ new.kind = row[i].kind /\ new.by = row[i].by
        BY <1>1, <3>1, <3>2 DEF Row
      <4>2. row'[i] = new  BY <1>1, <2>2, <3>1, <3>2
      <4> QED  BY <1>5, <3>2, <4>1, <4>2 DEF Mark
    <3>3. CASE i # Mine(r)
      <4>1. row'[i] = row[i]  BY <1>1, <2>2, <3>3
      <4> QED  BY <4>1
    <3> QED  BY <3>2, <3>3
  <2> QED  BY <1>5, <2>1, <2>2 DEF Mark
<1>6. ASSUME NEW k \in Id, row' = Parked(k)
      PROVE  row'[i] = row[i]
  <2>1. /\ (\A j \in Id : j # k => row'[j] = row[j]) /\ ~Running(k)'
    BY <1>6, ParkedRow
  <2> QED  BY <2>1 DEF Running
<1>7. CASE Park(r)
  <2>1. PICK k \in Id : k = On(r)  BY <1>7, NextCall DEF Park, Does
  <2>2. row' = Parked(k)  BY <1>7, <2>1 DEF Park
  <2>3. row'[i] = row[i]  BY <1>6, <2>2
  <2> QED  BY <2>3
<1>8. CASE Delete(r)
  <2>1. PICK k \in Id : k = On(r)  BY <1>8, NextCall DEF Delete, Does
  <2>2. CASE row' = [row EXCEPT ![k] = Absent]
    <3>1. i # k  BY <1>1, <2>2 DEF Absent
    <3>2. row'[i] = row[i]  BY <1>1, <2>2, <3>1
    <3> QED  BY <3>2
  <2>3. CASE row' = Parked(k)
    <3>1. row'[i] = row[i]  BY <1>6, <2>3
    <3> QED  BY <3>1
  <2> QED  BY <1>8, <2>1, <2>2, <2>3 DEF Delete, Deleted
<1>9. CASE Clear(r)
  <2>1. PICK k \in Id : k = On(r)  BY <1>9, NextCall DEF Clear, Does
  <2>2. PICK new : new = [row[k] EXCEPT !.held = FALSE]  OBVIOUS
  <2>3. row' = row \/ row' = [row EXCEPT ![k] = new]  BY <1>9, <2>1, <2>2 DEF Clear
  <2>4. new.state = row[k].state /\ new.kind = row[k].kind /\ new.by = row[k].by
    BY <1>1, <2>2 DEF Row
  <2>5. row'[i] = row[i] \/ (i = k /\ row'[i] = new)  BY <1>1, <2>3
  <2> QED  BY <2>4, <2>5
<1>10. CASE ~(Begins(r) \/ Create(r) \/ Mark(r) \/ Park(r) \/ Delete(r) \/ Clear(r))
  <2>1. row' = row
    BY <1>10 DEF Moves, Teardown, AskOrchestrator, AskKill, AskCleanup, Workspace, Launch, Deliver,
       CutOff, KillRefused, CallFails, DestroyRuntime, DestroyTree, Retire, Reclaim, TakesUp, Torn
  <2> QED  BY <2>1
<1> QED  BY <1>3, <1>4, <1>5, <1>7, <1>8, <1>9, <1>10

\* A call to end a row is to come until it is made or fails, or a kill stops at a worktree
\* with work in it.
LEMMA EndKept ==
  ASSUME Types, SpawnSound, MissedType, NEW r \in Req, Moves(r), NEW q \in Req, NEW n \in DOMAIN job[q].todo,
         NEW c, c = job[q].todo[n], c.do \in {"park", "delete"}
  PROVE  \/ \E m \in DOMAIN job'[q].todo : job'[q].todo[m] = c
         \/ ~Running(c.id)'
         \/ job[q].op = "kill" /\ tree' = tree /\ row' = row
            /\ tree[Place(row[c.id].kind, c.id)] = "dirty"
         \/ Own(q) /\ Ending(c.id)'
<1>1. CASE q # r
  <2>1. job'[q] = job[q]  BY <1>1, StepJob DEF JobsKept
  <2> QED  BY <2>1
<1>2. CASE q = r
  <2>1. ReqSound(r) /\ job[r] \in Job /\ job[r].todo # <<>>  BY <1>2 DEF SpawnSound, Types
  <2>2. job[r].pc \in {"tear", "failed"}  BY <2>1 DEF ReqSound, PlaceSound
  <2>3. CASE CutOff(r)
    <3>1. job'[r].todo = job[r].todo  BY <2>3, GoesShape DEF CutOff
    <3> QED  BY <1>2, <3>1
  <2>4. ASSUME At(r, "tear"), Onward(r), Head(job[r].todo).do \notin {"park", "delete"}
        PROVE  \E m \in DOMAIN job'[q].todo : job'[q].todo[m] = c
    BY <1>2, <2>1, <2>4, StillHas
  <2>5. CASE KillRefused(r)
    <3>1. /\ At(r, "tear") /\ Head(job[r].todo).do = "tree" /\ row' = row /\ tree' = tree
          /\ tree[Head(job[r].todo).place] = "dirty" /\ job[r].op = "kill"
      BY <2>5 DEF KillRefused, Refused
    <3>2. CallSound(r, 1) /\ CallSound(r, n) /\ Head(job[r].todo) = job[r].todo[1]
      BY <1>2, <2>1, <3>1, NextCall DEF ReqSound
    <3>3. ~Own(r)  BY <3>1 DEF Own, Spawns
    <3>4. /\ Head(job[r].todo).id = Mine(r) /\ c.id = Mine(r)
          /\ Head(job[r].todo).place = Place(row[Head(job[r].todo).id].kind, Head(job[r].todo).id)
      BY <1>2, <3>1, <3>2, <3>3 DEF CallSound
    <3> QED  BY <1>2, <3>1, <3>4
  <2>8. CASE CallFails(r)
    <3>1. At(r, "tear") /\ row' = row  BY <2>8 DEF CallFails
    <3>2. CallSound(r, n) /\ c.id \in Id
      BY <1>2, <2>1, CallOf DEF ReqSound
    <3>3. Own(r)
      <4>1. job[r].op # "cleanup"  BY <1>2, <3>2 DEF CallSound
      <4> QED  BY <2>8, <4>1 DEF CallFails
    <3>4. CASE Head(job[r].todo).do = "delete"
      <4>1. c = Head(job[r].todo)  BY <1>2, <2>1, <3>1, <3>4, DeleteIsLast
      <4>2. Then(r, <<Call("park", c.id, 0)>>)  BY <2>8, <3>4, <4>1 DEF CallFails
      <4>3. PICK calls \in Seq(Calls) : calls = <<Call("park", c.id, 0)>>
        BY <3>2, MyPlace, CallType, Tuples
      <4>4. job'[r].todo = calls  BY <4>2, <4>3, ThenShape
      <4>5. 1 \in DOMAIN calls /\ calls[1].do = "park" /\ calls[1].id = c.id  BY <4>3 DEF Call
      <4> QED  BY <1>2, <3>3, <4>4, <4>5 DEF Ending
    <3>5. CASE Head(job[r].todo).do # "delete" /\ c # Head(job[r].todo)
      <4>1. Onward(r)  BY <2>8, <3>5 DEF CallFails
      <4> QED  BY <1>2, <2>1, <3>1, <3>5, <4>1, StillHas
    <3>6. CASE c = Head(job[r].todo) /\ c.do = "park"
      <4>1. CASE Running(c.id)
        <5>1. Stands(c)  BY <3>6, <4>1 DEF Stands
        <5>2. c.id \in missed'["park"]  BY <2>8, <3>3, <3>6, <5>1, FailsShape
        <5> QED  BY <1>2, <3>3, <5>2 DEF Ending
      <4>2. CASE ~Running(c.id)  BY <3>1, <4>2 DEF Running
      <4> QED  BY <4>1, <4>2
    <3> QED  BY <3>4, <3>5, <3>6
  <2>6. CASE Park(r) \/ Delete(r)
    <3>1. At(r, "tear") /\ Onward(r)  BY <2>6 DEF Park, Delete, Does
    <3>2. PICK k \in Id : k = On(r)  BY <2>1, <3>1, NextCall
    <3>3. row' = Parked(k) \/ row' = [row EXCEPT ![k] = Absent]
      BY <2>6, <3>2 DEF Park, Delete, Deleted
    <3>4. ~Running(k)'
      <4>1. CASE row' = Parked(k)  BY <4>1, ParkedRow
      <4>2. CASE row' = [row EXCEPT ![k] = Absent]
        <5>1. row'[k] = Absent  BY <4>2 DEF Types
        <5> QED  BY <5>1 DEF Running, Absent
      <4> QED  BY <3>3, <4>1, <4>2
    <3>5. CASE c = Head(job[r].todo)
      BY <3>2, <3>4, <3>5 DEF On
    <3>6. CASE c # Head(job[r].todo)
      BY <1>2, <2>1, <3>1, <3>6, StillHas
    <3> QED  BY <3>5, <3>6
  <2>7. CASE DestroyRuntime(r) \/ DestroyTree(r) \/ Clear(r)
    BY <2>4, <2>7 DEF DestroyRuntime, DestroyTree, Clear, Does
  <2> QED
    BY <2>1, <2>2, <2>3, <2>5, <2>6, <2>7, <2>8
    DEF Moves, Teardown, Begins, AskOrchestrator, AskKill, AskCleanup, Create, Workspace,
        Launch, Mark, Deliver, Retire, Reclaim, TakesUp, Torn, Pending, At
<1> QED  BY <1>1, <1>2

LEMMA KeepStep ==
  ASSUME Types, SpawnSound, MissedType, KeepSound, NEW r \in Req, Moves(r)
  PROVE  KeepSound'
<1>1. Types' /\ SpawnSound'  BY StepSound
\* Who else may remove a worker's worktree.
<1>2. ASSUME NEW i \in Id, row[i].kind = "worker", tree[i] # "none", tree'[i] = "none"
      PROVE  /\ DestroyTree(r) /\ row' = row /\ (Settled(i) \/ Owner(i) = r)
             /\ row[i].state = "live" => Ending(i)'
  <2>1. CASE ~Workspace(r) /\ ~DestroyTree(r)
    <3>1. tree' = tree
      BY <2>1 DEF Moves, Teardown, Begins, AskOrchestrator, AskKill, AskCleanup, Create, Launch, Mark,
         Deliver, CutOff, KillRefused, CallFails, DestroyRuntime, Delete, Park, Clear, Retire, Reclaim, TakesUp, Torn
    <3> QED  BY <1>2, <3>1
  <2>2. CASE Workspace(r)
    <3>1. \/ tree' = tree
          \/ \E made \in {"clean", "dirty"} :
               tree' = [tree EXCEPT ![MyTree(r)] = IF @ = "none" THEN made ELSE @]
      BY <2>2 DEF Workspace
    <3> QED  BY <1>2, <3>1 DEF Types
  <2>3. CASE DestroyTree(r)
    <3>1. PICK c : c = Head(job[r].todo)  OBVIOUS
    <3>2. /\ At(r, "tear") /\ job[r].todo # <<>> /\ c.do \in {"tree", "force"} /\ row' = row
          /\ tree' = [tree EXCEPT ![c.place] = "none"] /\ Onward(r)
      BY <2>3, <3>1 DEF DestroyTree, Does
    <3>3. c.place = i  BY <1>2, <3>2 DEF Types
    <3>4. /\ CallSound(r, 1) /\ c = job[r].todo[1] /\ 1 \in DOMAIN job[r].todo
          /\ Own(r) => c.id = Mine(r) /\ Owner(Mine(r)) = r
      BY <3>1, <3>2, NextCall DEF On
    <3>5. i # Canonical  BY DEF Id, Canonical
    <3>6. c.id = i /\ (Settled(i) \/ Owner(i) = r)
      BY <3>2, <3>3, <3>4, <3>5 DEF CallSound, Place, MyTree
    <3>7. ASSUME row[i].state = "live"
          PROVE  Ending(i)'
      <4>1. job[r].op # "cleanup"  BY <3>4, <3>6, <3>7 DEF CallSound
      <4>2. PICK m \in DOMAIN job[r].todo :
              job[r].todo[m].do \in {"park", "delete"} /\ job[r].todo[m].id = i
        BY <3>2, <3>4, <3>6, <4>1 DEF CallSound
      <4>3. job[r].todo[m] # Head(job[r].todo)  BY <3>1, <3>2, <4>2
      <4>4. PICK k \in DOMAIN job'[r].todo : job'[r].todo[k] = job[r].todo[m]
        BY <3>2, <4>3, StillHas
      <4> QED  BY <4>2, <4>4 DEF Ending
    <3> QED  BY <2>3, <3>2, <3>6, <3>7
  <2> QED  BY <2>1, <2>2, <2>3
<1>3. ASSUME NEW q \in Req, job'[q].op = "worker", job'[q].pc \in {"launch", "mark"}
      PROVE  tree'[Mine(q)'] # "none"
  <2>1. CASE q # r
    <3>1. job'[q] = job[q]  BY <2>1, StepJob DEF JobsKept
    <3>2. job[q].op = "worker" /\ job[q].pc \in {"launch", "mark"} /\ Mine(q)' = Mine(q)
      BY <1>3, <3>1 DEF Mine
    <3>3. PICK i \in Id : i = Mine(q) /\ Owner(i) = q /\ row[i].kind = "worker" /\ Present(i)
      BY <3>2, OnItsWay DEF Kind
    <3>4. tree[i] # "none"  BY <3>2, <3>3 DEF KeepSound
    <3>5. ~Settled(i)  BY <3>2, <3>3 DEF Settled
    <3> QED  BY <1>2, <2>1, <3>2, <3>3, <3>4, <3>5
  <2>2. CASE q = r /\ job'[r].pc = "launch"
    <3>1. Workspace(r) /\ At(r, "workspace")  BY <2>2, StepJob DEF Workspace
    <3>2. job'[r].op = job[r].op /\ Mine(r)' = Mine(r)
      BY <3>1, StepJob DEF Mine, At
    <3>3. Mine(r) \in Id /\ MyTree(r) = Mine(r)
      BY <1>3, <2>2, <3>1, <3>2, OnItsWay DEF At, MyTree, Kind, Place
    <3>4. \E made \in {"clean", "dirty"} :
            tree' = [tree EXCEPT ![MyTree(r)] = IF @ = "none" THEN made ELSE @]
      <4>1. ~FailsInto(r, DeleteRow(r))
        <5> SUFFICES ASSUME FailsInto(r, DeleteRow(r)) PROVE FALSE
          OBVIOUS
        <5>1. DeleteRow(r) \in Seq(Calls)  BY <3>3, Undos
        <5> QED  BY <2>2, <5>1, FailShape
      <4> QED  BY <3>1, <4>1 DEF Workspace
    <3> QED  BY <2>2, <3>2, <3>3, <3>4 DEF Types
  <2>3. CASE q = r /\ job'[r].pc = "mark"
    <3>1. Launch(r) /\ At(r, "launch") /\ tree' = tree  BY <2>3, StepJob DEF Launch
    <3>2. job'[r].op = job[r].op /\ Mine(r)' = Mine(r)
      BY <3>1, StepJob DEF Mine, At
    <3> QED  BY <1>3, <2>3, <3>1, <3>2 DEF KeepSound, At
  <2> QED  BY <1>3, <2>1, <2>2, <2>3
<1>4. ASSUME NEW i \in Id, row'[i].state = "live", row'[i].kind = "worker"
      PROVE  tree'[i] # "none" \/ Ending(i)'
  <2>1. CASE At(r, "mark") /\ i = Mine(r) /\ row'[i].kind = row[i].kind /\ tree' = tree
    <3>1. row[i].kind = Kind(job[r].op)  BY <2>1, OnItsWay DEF At
    <3>2. job[r].op = "worker"  BY <1>4, <2>1, <3>1 DEF Kind
    <3> QED  BY <2>1, <3>2 DEF KeepSound, At
  <2>2. CASE row[i].state = "live" /\ row[i].kind = "worker"
    <3>1. CASE tree[i] # "none"
      BY <1>2, <2>2, <3>1
    <3>2. CASE i \in missed["park"]
      <4>1. i \in missed'["park"] \/ ~Running(i)'  BY <3>2, MissedStep
      <4> QED  BY <1>4, <4>1 DEF Ending, Running
    <3>3. CASE Ending(i) /\ i \notin missed["park"]
      <4>1. PICK q \in Req : \E n \in DOMAIN job[q].todo :
              job[q].todo[n].do \in {"park", "delete"} /\ job[q].todo[n].id = i
        BY <3>3 DEF Ending
      <4>2. PICK n \in DOMAIN job[q].todo :
              job[q].todo[n].do \in {"park", "delete"} /\ job[q].todo[n].id = i
        BY <4>1
      <4>3. PICK c : c = job[q].todo[n] /\ c.do \in {"park", "delete"} /\ c.id = i
        BY <4>2
      <4>4. \/ \E m \in DOMAIN job'[q].todo : job'[q].todo[m] = c
            \/ ~Running(c.id)'
            \/ tree' = tree /\ row' = row /\ tree[Place(row[c.id].kind, c.id)] = "dirty"
            \/ Ending(c.id)'
        BY <4>1, <4>2, <4>3, EndKept
      <4>5. (\E m \in DOMAIN job'[q].todo : job'[q].todo[m] = c) => Ending(i)'
        BY <4>1, <4>3 DEF Ending
      <4>6. Running(c.id)'  BY <1>4, <4>3 DEF Running
      <4>7. Ending(c.id)' => Ending(i)'  BY <4>3 DEF Ending
      <4> QED  BY <2>2, <4>3, <4>4, <4>5, <4>6, <4>7 DEF Place
    <3> QED  BY <2>2, <3>1, <3>2, <3>3 DEF KeepSound
  <2> QED  BY <1>4, <2>1, <2>2, RowStep
<1>5. ASSUME NEW q \in Req, job'[q].op = "worker", job'[q].pc \in {"launch", "mark"}
      PROVE  tree'[job'[q].id] # "none"
  BY <1>3, <1>5 DEF Mine
<1> QED
  BY <1>4, <1>5 DEF KeepSound, Mine

-----------------------------------------------------------------------------
(* What a rollback leaves.                                                 *)

\* A step of r takes over no row.
LEMMA ByStep ==
  ASSUME Types, SpawnSound, NEW r \in Req, Moves(r), NEW i \in Id
  PROVE  row'[i].by \in {row[i].by, r, NoReq}
<1>1. row[i] \in Row /\ row \in [Id -> Row]  BY DEF Types
<1>2. ASSUME NEW kind, NEW n, NewRow(r, kind, n)
      PROVE  row'[i].by \in {row[i].by, r}
  <2>1. PICK new : new = [state |-> "seed", kind |-> kind, held |-> FALSE, by |-> r]  OBVIOUS
  <2>2. row' = [row EXCEPT ![n] = new] /\ new.by = r  BY <1>2, <2>1 DEF NewRow
  <2> QED  BY <1>1, <2>2
<1>3. CASE Begins(r)
  <2>1. PICK op \in {"worker", "plain"}, n \in Id : Spawned(r, op, n)  BY <1>3 DEF Begins
  <2>2. PICK kind : kind = Kind(op)  OBVIOUS
  <2>3. NewRow(r, kind, n)  BY <2>1, <2>2 DEF Spawned
  <2> QED  BY <1>2, <2>3
<1>4. CASE Create(r)
  <2>1. PICK n \in Id : NewRow(r, "orchestrator", n)  BY <1>4 DEF Create
  <2>2. PICK kind : kind = "orchestrator"  OBVIOUS
  <2>3. NewRow(r, kind, n)  BY <2>1, <2>2
  <2> QED  BY <1>2, <2>3
<1>5. ASSUME NEW k, NEW new, row' = [row EXCEPT ![k] = new], new.by \in {row[k].by, NoReq}
      PROVE  row'[i].by \in {row[i].by, NoReq}
  BY <1>1, <1>5
<1>6. ASSUME NEW k \in Id, row' = Parked(k)
      PROVE  row'[i].by = row[i].by
  <2>1. CASE i = k /\ row'[k] # row[k]
    <3>1. row'[k] = [row[k] EXCEPT !.state = "dead"]  BY <1>6, <2>1, ParkedRow
    <3> QED  BY <1>1, <2>1, <3>1 DEF Row
  <2>2. CASE row'[i] = row[i]  BY <2>2
  <2> QED  BY <1>6, <2>1, <2>2, ParkedRow
<1>7. CASE Mark(r)
  <2>1. Mine(r) \in Id  BY <1>7, OnItsWay DEF Mark, At
  <2>2. PICK new : new = [row[Mine(r)] EXCEPT !.state = "live", !.held = TRUE]  OBVIOUS
  <2>3. new.by = row[Mine(r)].by  BY <1>1, <2>1, <2>2 DEF Row
  <2>4. row' = row \/ row' = [row EXCEPT ![Mine(r)] = new]  BY <1>7, <2>2 DEF Mark
  <2> QED  BY <1>5, <2>3, <2>4
<1>8. CASE Park(r)
  <2>1. PICK k \in Id : k = On(r)  BY <1>8, NextCall DEF Park, Does
  <2> QED  BY <1>6, <1>8, <2>1 DEF Park
<1>9. CASE Delete(r)
  <2>1. PICK k \in Id : k = On(r)  BY <1>9, NextCall DEF Delete, Does
  <2>2. Absent.by = NoReq  BY DEF Absent
  <2>3. row' = [row EXCEPT ![k] = Absent] \/ row' = Parked(k)  BY <1>9, <2>1 DEF Delete, Deleted
  <2> QED  BY <1>5, <1>6, <2>2, <2>3
<1>10. CASE Clear(r)
  <2>1. PICK k \in Id : k = On(r)  BY <1>10, NextCall DEF Clear, Does
  <2>2. PICK new : new = [row[k] EXCEPT !.held = FALSE]  OBVIOUS
  <2>3. new.by = row[k].by  BY <1>1, <2>2 DEF Row
  <2>4. row' = row \/ row' = [row EXCEPT ![k] = new]  BY <1>10, <2>1, <2>2 DEF Clear
  <2> QED  BY <1>5, <2>3, <2>4
<1>11. CASE ~(Begins(r) \/ Create(r) \/ Mark(r) \/ Park(r) \/ Delete(r) \/ Clear(r))
  <2>1. row' = row
    BY <1>11 DEF Moves, Teardown, AskOrchestrator, AskKill, AskCleanup, Workspace, Launch, Deliver,
       CutOff, KillRefused, CallFails, DestroyRuntime, DestroyTree, Retire, Reclaim, TakesUp, Torn
  <2> QED  BY <2>1
<1> QED  BY <1>3, <1>4, <1>7, <1>8, <1>9, <1>10, <1>11

\* A runtime is launched by the request whose row has its number.
LEMMA TmuxStep ==
  ASSUME Types, SpawnSound, NEW r \in Req, Moves(r), NEW i \in tmux', i \notin tmux
  PROVE  At(r, "launch") /\ i = Mine(r) /\ row' = row /\ Owner(i) = r
<1>1. Launch(r) \/ tmux' \subseteq tmux
  BY DEF Moves, Teardown, Begins, AskOrchestrator, AskKill, AskCleanup, Create, Workspace, Mark,
     Deliver, CutOff, KillRefused, CallFails, DestroyRuntime, DestroyTree, Delete, Park, Clear, Retire,
     Reclaim, TakesUp, Torn
<1>2. Launch(r)  BY <1>1
<1>3. At(r, "launch") /\ row' = row /\ i = Mine(r)  BY <1>2 DEF Launch
<1> QED  BY <1>3, OnItsWay DEF At

\* How a request gets to fail, and to tear down what is its own.
LEMMA FailedTorn ==
  ASSUME Types, SpawnSound, NEW r \in Req, Moves(r), ~Teardown(r)
  PROVE  job'[r].pc # "failed"
<1>1. job[r] \in Job  BY DEF Types
<1>2. CASE Begins(r) \/ AskOrchestrator(r) \/ AskKill(r) \/ AskCleanup(r)
  <2>1. PICK rec : rec.pc # "failed" /\ job' = [job EXCEPT ![r] = rec]
    BY <1>2 DEF Begins, AskOrchestrator, AskKill, AskCleanup, Spawned, Starts, Lists, Becomes
  <2> QED  BY <2>1 DEF Types
<1>3. CASE Create(r)
  <2>1. PICK n \in Id : job' = [job EXCEPT ![r] = [job[r] EXCEPT !.id = n, !.pc = "workspace"]]
    BY <1>3 DEF Create, Becomes
  <2>2. PICK rec : rec = [job[r] EXCEPT !.id = n, !.pc = "workspace"]  OBVIOUS
  <2>3. rec.pc = "workspace"  BY <1>1, <2>2 DEF Job
  <2> QED  BY <2>1, <2>2, <2>3 DEF Types
<1>4. ASSUME NEW where, where # "failed", Goes(r, where)
      PROVE  job'[r].pc # "failed"
  <2>1. PICK rec : rec = [job[r] EXCEPT !.pc = where]  OBVIOUS
  <2>2. job' = [job EXCEPT ![r] = rec]  BY <1>4, <2>1 DEF Goes, Becomes
  <2>3. rec.pc = where  BY <1>1, <2>1 DEF Job
  <2> QED  BY <1>4, <2>2, <2>3 DEF Types
<1>5. ASSUME NEW calls, FailsInto(r, calls)
      PROVE  job'[r].pc # "failed"
  <2>1. job' = [job EXCEPT ![r] = [job[r] EXCEPT !.pc = "tear", !.todo = calls]]
    BY <1>5 DEF FailsInto, Becomes
  <2>2. PICK rec : rec = [job[r] EXCEPT !.pc = "tear", !.todo = calls]  OBVIOUS
  <2>3. rec.pc = "tear"  BY <1>1, <2>2 DEF Job
  <2> QED  BY <2>1, <2>2, <2>3 DEF Types
<1>6. CASE Workspace(r) \/ Launch(r) \/ Mark(r) \/ Deliver(r)
  BY <1>4, <1>5, <1>6 DEF Workspace, Launch, Mark, Deliver
<1> QED  BY <1>2, <1>3, <1>6 DEF Moves

LEMMA IdleBegins ==
  ASSUME Types, SpawnSound, NEW r \in Req, Moves(r), At(r, "idle"), Own(r)'
  PROVE  job'[r].pc \notin {"tear", "failed"}
<1>1. job[r] \in Job /\ PlaceSound(r)  BY DEF Types, SpawnSound, ReqSound
<1>2. PICK rec : (rec.pc \notin {"tear", "failed"} \/ rec.op \notin Spawns \/ rec.id = 0)
                 /\ job' = [job EXCEPT ![r] = rec]
  BY DEF Moves, Teardown, Begins, AskOrchestrator, AskKill, AskCleanup, Create, Workspace, Launch,
     Mark, Deliver, CutOff, KillRefused, CallFails, DestroyRuntime, DestroyTree, Delete, Park, Clear,
     Retire, Reclaim, TakesUp, Torn, Does, At, Spawned, Starts, Lists, Becomes, Spawns
<1>3. job'[r] = rec  BY <1>2 DEF Types
<1> QED  BY <1>2, <1>3 DEF Own, Mine

\* The rollbacks once the runtime was launched remove it and end the row.
LEMMA UndoHasAll ==
  ASSUME NEW r \in Req, NEW calls, calls \in {UndoLaunch(r), UndoDelivery(r)}
  PROVE  /\ \E n \in DOMAIN calls : calls[n].do = "runtime"
         /\ \E n \in DOMAIN calls : calls[n].do = "park"
<1> DEFINE i == Mine(r)
<1> DEFINE p == MyTree(r)
<1>1. \/ calls = <<Call("runtime", i, 0), Call("tree", i, p), Call("park", i, 0)>>
      \/ calls = <<Call("runtime", i, 0), Call("tree", i, p), Call("park", i, 0), Call("clear", i, 0)>>
  BY DEF UndoLaunch, UndoDelivery
<1> HIDE DEF i, p
<1>2. /\ 1 \in DOMAIN calls /\ calls[1] = Call("runtime", i, 0)
      /\ 3 \in DOMAIN calls /\ calls[3] = Call("park", i, 0)
  BY <1>1
<1> QED  BY <1>2 DEF Call

LEMMA UndoHasDelete ==
  ASSUME NEW r \in Req, NEW calls, calls \in {DeleteRow(r), UndoTree(r)}
  PROVE  \E n \in DOMAIN calls : calls[n].do = "delete"
<1> DEFINE i == Mine(r)
<1> DEFINE p == MyTree(r)
<1>1. \/ calls = <<Call("delete", i, 0)>>
      \/ calls = <<Call("tree", i, p), Call("delete", i, 0)>>
  BY DEF DeleteRow, UndoTree
<1> HIDE DEF i, p
<1>2. \/ 1 \in DOMAIN calls /\ calls[1] = Call("delete", i, 0)
      \/ 2 \in DOMAIN calls /\ calls[2] = Call("delete", i, 0)
  BY <1>1
<1> QED  BY <1>2 DEF Call

\* What LeftSound says of one request.
Left(r) ==
  /\ Mine(r) \in tmux => Has(r, {"runtime"}) \/ Mine(r) \in missed["runtime"]
  /\ Running(Mine(r)) => Has(r, {"delete", "park"}) \/ Mine(r) \in missed["park"]

LEMMA LeftStep ==
  ASSUME Types, SpawnSound, MissedType, LeftSound, NEW r \in Req, Moves(r)
  PROVE  LeftSound'
<1> SUFFICES ASSUME NEW q \in Req, Own(q)', job'[q].pc \in {"tear", "failed"}, Owner(Mine(q))' = q
             PROVE  Left(q)'
  BY DEF LeftSound, Left
<1>1. Types' /\ job[r] \in Job /\ ReqSound(r) /\ MissedType' /\ NoReq \notin Req
  BY StepSound, MissedStep, SpawnAssumption DEF Types, SpawnSound
<1>2. CASE q # r
  <2>1. job'[q] = job[q] /\ Mine(q)' = Mine(q)  BY <1>2, StepJob DEF JobsKept, Mine
  <2>2. PICK i \in Id : i = Mine(q)  BY <2>1 DEF Own, Mine, Types, Job
  <2>3. row[i].by = q /\ row'[i].by = q
    <3>1. row'[i].by = q  BY <2>1, <2>2 DEF Owner
    <3> QED  BY <1>1, <1>2, <2>2, <3>1, ByStep
  <2>4. Own(q) /\ job[q].pc \in {"tear", "failed"} /\ Owner(Mine(q)) = q
    BY <2>1, <2>2, <2>3 DEF Own, Mine, Owner
  <2>5. Left(q)  BY <2>4 DEF LeftSound, Left
  <2>6. i \in tmux' => i \in tmux  BY <1>2, <2>3, TmuxStep DEF Owner
  <2>7. Running(i)' => Running(i)
    <3>1. At(r, "mark") /\ i = Mine(r) => row[i].by = r
      BY OnItsWay DEF At, Owner
    <3> QED  BY <1>2, <2>3, <3>1, RowStep DEF Running
  <2>8. /\ i \in missed["runtime"] => i \in missed'["runtime"] \/ i \notin tmux'
        /\ i \in missed["park"] => i \in missed'["park"] \/ ~Running(i)'
    BY MissedStep
  <2>9. \A what : Has(q, what)' = Has(q, what)  BY <2>1 DEF Has
  <2>10. i \in tmux' => Has(q, {"runtime"})' \/ i \in missed'["runtime"]
    BY <2>2, <2>5, <2>6, <2>8, <2>9 DEF Left
  <2>11. Running(i)' => Has(q, {"delete", "park"})' \/ i \in missed'["park"]
    BY <2>2, <2>5, <2>7, <2>8, <2>9 DEF Left
  <2> QED  BY <2>1, <2>2, <2>10, <2>11 DEF Left
<1>3. CASE q = r
  <2>1. job[r].pc \in {"workspace", "launch", "mark", "deliver", "tear"}
    <3>1. job'[r].pc = "failed" => job[r].pc = "tear"
      <4>1. CASE job[r].pc = "tear"  BY <4>1
      <4>2. CASE job[r].pc # "tear"
        <5>1. ~Teardown(r)
          BY <4>2 DEF Teardown, CutOff, KillRefused, CallFails, DestroyRuntime, DestroyTree, Delete,
             Park, Clear, Retire, Reclaim, TakesUp, Torn, Does, At
        <5> QED  BY <5>1, FailedTorn
      <4> QED  BY <4>1, <4>2
    <3>2. CASE At(r, "idle")
      BY <1>3, <3>2, IdleBegins DEF At
    <3> QED  BY <1>3, <3>1, <3>2, StepJob DEF At
  <2>2. /\ job'[r].op = job[r].op /\ job'[r].id = job[r].id /\ Own(r) /\ Mine(r)' = Mine(r)
    BY <1>3, <2>1, StepJob DEF At, Own, Mine
  <2>3. PICK i \in Id : i = Mine(r)  BY <1>1, <2>2 DEF Own, Mine, Job
  <2>4. SUFFICES /\ i \in tmux' => Has(r, {"runtime"})' \/ i \in missed'["runtime"]
                 /\ Running(i)' => Has(r, {"delete", "park"})' \/ i \in missed'["park"]
    BY <1>3, <2>2, <2>3 DEF Left
  <2>5. ASSUME NEW calls \in Seq(Calls), FailsInto(r, calls), calls \in {DeleteRow(r), UndoTree(r)},
               i \notin tmux'
        PROVE  /\ i \in tmux' => Has(r, {"runtime"})' \/ i \in missed'["runtime"]
               /\ Running(i)' => Has(r, {"delete", "park"})' \/ i \in missed'["park"]
    <3>1. job'[r].todo = calls  BY <2>5, FailShape
    <3> QED  BY <2>5, <3>1, UndoHasDelete DEF Has
  <2>6. ASSUME NEW calls \in Seq(Calls), FailsInto(r, calls), calls \in {UndoLaunch(r), UndoDelivery(r)}
        PROVE  /\ i \in tmux' => Has(r, {"runtime"})' \/ i \in missed'["runtime"]
               /\ Running(i)' => Has(r, {"delete", "park"})' \/ i \in missed'["park"]
    <3>1. job'[r].todo = calls  BY <2>6, FailShape
    <3> QED  BY <2>6, <3>1, UndoHasAll DEF Has
  <2>7. /\ DeleteRow(r) \in Seq(Calls) /\ UndoTree(r) \in Seq(Calls)
        /\ UndoLaunch(r) \in Seq(Calls) /\ UndoDelivery(r) \in Seq(Calls)
    BY <2>3, Undos
  <2>8. job[r].pc \in {"workspace", "launch"} => i \notin tmux
    BY <1>1, <2>2, <2>3 DEF ReqSound, OwnSound
  <2>9. job'[r].pc = "tear" \/ job'[r].pc = "failed"  BY <1>3
  <2>10. CASE Workspace(r)
    <3>1. FailsInto(r, DeleteRow(r))  BY <2>9, <2>10, GoesShape DEF Workspace
    <3>2. i \notin tmux'  BY <2>8, <2>10 DEF Workspace, At
    <3> QED  BY <2>5, <2>7, <3>1, <3>2
  <2>11. CASE Launch(r)
    <3>1. FailsInto(r, UndoTree(r)) /\ tmux' = tmux
      <4>1. ~Goes(r, "mark")  BY <2>9, GoesShape
      <4> QED  BY <2>11, <4>1 DEF Launch
    <3>2. i \notin tmux'  BY <2>8, <2>11, <3>1 DEF Launch, At
    <3> QED  BY <2>5, <2>7, <3>1, <3>2
  <2>12. CASE Mark(r)
    <3>1. FailsInto(r, UndoLaunch(r))
      <4>1. ~Goes(r, "deliver")  BY <2>9, GoesShape
      <4> QED  BY <2>12, <4>1 DEF Mark
    <3> QED  BY <2>6, <2>7, <3>1
  <2>13. CASE Deliver(r)
    <3>1. FailsInto(r, UndoDelivery(r))
      <4>1. ~Goes(r, "done")  BY <2>9, GoesShape
      <4> QED  BY <2>13, <4>1 DEF Deliver
    <3> QED  BY <2>6, <2>7, <3>1
  <2>14. ASSUME At(r, "tear"), row' = row \/ row'[i].by = row[i].by
         PROVE  Left(r)
    <3>1. row[i].by = r  BY <1>3, <2>2, <2>3, <2>14 DEF Owner
    <3> QED  BY <2>2, <2>3, <2>14, <3>1 DEF LeftSound, Left, At, Owner
  <2>15. /\ i \in missed["runtime"] => i \in missed'["runtime"] \/ i \notin tmux'
         /\ i \in missed["park"] => i \in missed'["park"] \/ ~Running(i)'
    BY MissedStep
  <2>16. ~CutOff(r) /\ ~KillRefused(r)
    BY <2>2 DEF CutOff, KillRefused, Own, Spawns
  <2>17. ~Retire(r) /\ ~Reclaim(r)
    BY <1>1, <2>2 DEF Retire, Reclaim, TakesUp, ReqSound, ListSound, Own
  <2>18. CASE Torn(r)
    <3>1. At(r, "tear") /\ job[r].todo = <<>> /\ row' = row /\ tmux' = tmux
      BY <2>18 DEF Torn, Pending
    <3>2. \A what : ~Has(r, what)  BY <3>1 DEF Has
    <3>3. Left(r)  BY <2>14, <3>1
    <3> QED  BY <2>3, <2>15, <3>1, <3>2, <3>3 DEF Left, Running
  <2>19. CASE CallFails(r)
    <3>1. PICK c \in Calls : c = Head(job[r].todo)  BY <2>19, NextCall DEF CallFails
    <3>2. /\ At(r, "tear") /\ job[r].todo # <<>> /\ row' = row /\ tmux' = tmux
          /\ c.do # "delete" => Onward(r)
      BY <2>19, <3>1 DEF CallFails
    <3>3. c.id = i /\ Left(r)  BY <2>2, <2>3, <2>14, <3>1, <3>2, NextCall DEF On
    <3>4. ASSUME i \in tmux', i \notin missed'["runtime"]
          PROVE  Has(r, {"runtime"})'
      <4>1. Has(r, {"runtime"})  BY <2>3, <2>15, <3>2, <3>3, <3>4 DEF Left
      <4>2. c.do # "runtime"
        <5> SUFFICES ASSUME c.do = "runtime" PROVE FALSE
          OBVIOUS
        <5>1. Stands(c)  BY <3>2, <3>3, <3>4 DEF Stands
        <5> QED  BY <2>2, <2>19, <3>1, <3>3, <3>4, <5>1, FailsShape
      <4>3. c.do # "delete"
        <5>1. PICK n \in DOMAIN job[r].todo : job[r].todo[n].do = "runtime"  BY <4>1 DEF Has
        <5> QED  BY <3>1, <3>2, <5>1, DeleteIsLast
      <4> QED  BY <3>1, <3>2, <4>1, <4>2, <4>3, HasKept
    <3>5. ASSUME Running(i)', i \notin missed'["park"]
          PROVE  Has(r, {"delete", "park"})'
      <4>1. Running(i)  BY <3>2, <3>5 DEF Running
      <4>2. Has(r, {"delete", "park"})  BY <2>3, <2>15, <3>3, <3>5, <4>1 DEF Left
      <4>3. c.do # "park"
        <5> SUFFICES ASSUME c.do = "park" PROVE FALSE
          OBVIOUS
        <5>1. Stands(c)  BY <3>3, <4>1 DEF Stands
        <5> QED  BY <2>2, <2>19, <3>1, <3>3, <3>5, <5>1, FailsShape
      <4>4. CASE c.do = "delete"
        <5>1. Then(r, <<Call("park", i, 0)>>)  BY <2>19, <3>1, <3>3, <4>4 DEF CallFails
        <5>2. PICK calls \in Seq(Calls) : calls = <<Call("park", i, 0)>>
          BY MyPlace, CallType, Tuples
        <5>3. job'[r].todo = calls  BY <5>1, <5>2, ThenShape
        <5>4. 1 \in DOMAIN calls /\ calls[1].do = "park"  BY <5>2 DEF Call
        <5> QED  BY <5>3, <5>4 DEF Has
      <4> QED  BY <3>1, <3>2, <4>2, <4>3, <4>4, HasKept
    <3> QED  BY <3>4, <3>5
  <2>20. ASSUME At(r, "tear"), job[r].todo # <<>>, Onward(r), row'[i].by = row[i].by,
                Running(i)' => Running(i), tmux' \subseteq tmux,
                NEW what, what = Head(job[r].todo).do,
                what = "runtime" => i \notin tmux', what \in {"park", "delete"} => ~Running(i)'
         PROVE  /\ i \in tmux' => Has(r, {"runtime"})' \/ i \in missed'["runtime"]
                /\ Running(i)' => Has(r, {"delete", "park"})' \/ i \in missed'["park"]
    <3>1. Left(r)  BY <2>14, <2>20
    <3>2. ASSUME i \in tmux', i \notin missed'["runtime"]
          PROVE  Has(r, {"runtime"})'
      <4>1. Has(r, {"runtime"})  BY <2>3, <2>15, <2>20, <3>1, <3>2 DEF Left
      <4>2. what \notin {"runtime"}  BY <2>20, <3>2
      <4> QED  BY <2>20, <4>1, <4>2, HasKept
    <3>3. ASSUME Running(i)', i \notin missed'["park"]
          PROVE  Has(r, {"delete", "park"})'
      <4>1. Has(r, {"delete", "park"})  BY <2>3, <2>15, <2>20, <3>1, <3>3 DEF Left
      <4>2. what \notin {"delete", "park"}  BY <2>20, <3>3
      <4> QED  BY <2>20, <4>1, <4>2, HasKept
    <3> QED  BY <3>2, <3>3
  <2>21. CASE DestroyRuntime(r)
    <3>1. /\ At(r, "tear") /\ job[r].todo # <<>> /\ Onward(r) /\ row' = row
          /\ Head(job[r].todo).do = "runtime" /\ tmux' = tmux \ {On(r)}
      BY <2>21 DEF DestroyRuntime, Does
    <3>2. On(r) = i  BY <2>2, <2>3, <3>1, NextCall
    <3> QED  BY <2>20, <3>1, <3>2 DEF Running
  <2>22. CASE DestroyTree(r)
    <3>1. /\ At(r, "tear") /\ job[r].todo # <<>> /\ Onward(r) /\ row' = row /\ tmux' = tmux
          /\ Head(job[r].todo).do \in {"tree", "force"}
      BY <2>22 DEF DestroyTree, Does
    <3> QED  BY <2>20, <3>1 DEF Running
  <2>23. CASE Park(r) \/ Delete(r)
    <3>1. /\ At(r, "tear") /\ job[r].todo # <<>> /\ Onward(r) /\ tmux' = tmux
          /\ Head(job[r].todo).do \in {"park", "delete"}
      BY <2>23 DEF Park, Delete, Does
    <3>2. On(r) = i  BY <2>2, <2>3, <3>1, NextCall
    <3>3. row' = Parked(i) \/ row' = [row EXCEPT ![i] = Absent]
      BY <2>23, <3>2 DEF Park, Delete, Deleted
    <3>4. row'[i].by = r  BY <1>3, <2>2, <2>3 DEF Owner
    <3>5. row' # [row EXCEPT ![i] = Absent]
      <4>1. row' = [row EXCEPT ![i] = Absent] => row'[i] = Absent  BY DEF Types
      <4> QED  BY <1>1, <3>4, <4>1 DEF Absent
    <3>6. ~Running(i)' /\ row'[i].by = row[i].by
      <4>1. row' = Parked(i)  BY <3>3, <3>5
      <4>2. ~Running(i)' /\ (row'[i] = row[i] \/ row'[i] = [row[i] EXCEPT !.state = "dead"])
        BY <4>1, ParkedRow
      <4>3. row[i] \in Row  BY DEF Types
      <4> QED  BY <4>2, <4>3 DEF Row
    <3> QED  BY <2>20, <3>1, <3>6
  <2>24. CASE Clear(r)
    <3>1. /\ At(r, "tear") /\ job[r].todo # <<>> /\ Onward(r) /\ tmux' = tmux
          /\ Head(job[r].todo).do = "clear"
      BY <2>24 DEF Clear, Does
    <3>2. On(r) = i  BY <2>2, <2>3, <3>1, NextCall
    <3>3. PICK new : new = [row[i] EXCEPT !.held = FALSE]  OBVIOUS
    <3>4. row' = row \/ row' = [row EXCEPT ![i] = new]  BY <2>24, <3>2, <3>3 DEF Clear
    <3>5. row'[i] = row[i] \/ row'[i] = new  BY <3>4 DEF Types
    <3>6. new.state = row[i].state /\ new.by = row[i].by
      <4>1. row[i] \in Row  BY DEF Types
      <4> QED  BY <3>3, <4>1 DEF Row
    <3>7. row'[i].state = row[i].state /\ row'[i].by = row[i].by  BY <3>5, <3>6
    <3> QED  BY <2>20, <3>1, <3>7 DEF Running
  <2> QED
    BY <2>1, <2>10, <2>11, <2>12, <2>13, <2>16, <2>17, <2>18, <2>19, <2>21, <2>22, <2>23, <2>24
    DEF Moves, Teardown, Begins, AskOrchestrator, AskKill, AskCleanup, Create, At
<1> QED  BY <1>2, <1>3

-----------------------------------------------------------------------------
(* One orchestrator.                                                       *)

LEMMA TheirsStep ==
  ASSUME Types, SpawnSound, NEW r \in Req, Moves(r), NEW i \in Theirs'
  PROVE  /\ Running(i)'
         /\ \/ i \in Theirs
            \/ At(r, "create") /\ job'[r].id = i
            \/ At(r, "mark") /\ i = Mine(r) /\ job[r].op \in Locking
<1>1. /\ i \in Id /\ row'[i].state \in {"seed", "live"} /\ row'[i].kind = "orchestrator"
      /\ job'[row'[i].by].op \in Locking
  BY DEF Theirs, Orchestrators, Running, Owner
<1>2. CASE row'[i].state = row[i].state /\ row'[i].kind = row[i].kind /\ row'[i].by = row[i].by
  <2>1. PICK q : q = row[i].by  OBVIOUS
  <2>2. q \in Req /\ job[q].op \in Spawns
    BY <1>1, <1>2, <2>1 DEF SpawnSound, RowSound, Present, Owner
  <2>3. job'[q].op = job[q].op
    <3>1. CASE q # r  BY <2>2, <3>1, StepJob DEF JobsKept
    <3>2. CASE q = r
      <4>1. ~At(r, "idle")  BY <2>2, <3>2 DEF SpawnSound, ReqSound, PlaceSound, Spawns
      <4> QED  BY <3>2, <4>1, StepJob
    <3> QED  BY <3>1, <3>2
  <2> QED  BY <1>1, <1>2, <2>1, <2>3 DEF Theirs, Orchestrators, Running, Owner
<1>3. CASE At(r, "mark") /\ i = Mine(r) /\ row'[i].by = row[i].by
  <2>1. row[i].by = r  BY <1>3, OnItsWay DEF At, Owner
  <2>2. job'[r].op = job[r].op  BY <1>3, StepJob DEF At
  <2> QED  BY <1>1, <1>3, <2>1, <2>2 DEF Running
<1>4. CASE row'[i].by = r /\ job'[r].id = i /\ (job'[r].op \in {"worker", "plain"} \/ At(r, "create"))
  BY <1>1, <1>4 DEF Locking, Running
<1> QED  BY <1>1, <1>2, <1>3, <1>4, RowStep

\* The lock is taken by one that finds it free.
LEMMA LockStep ==
  ASSUME Types, SpawnSound, NEW r \in Req, Moves(r), ~AskOrchestrator(r), NEW q \in Req, Locked(q)'
  PROVE  Locked(q)
<1>1. CASE q # r
  <2>1. job'[q] = job[q]  BY <1>1, StepJob DEF JobsKept
  <2> QED  BY <2>1 DEF Locked
<1>2. CASE q = r
  <2>1. job'[r].op \in {"ensure", "replace"}  BY <1>2 DEF Locked, Locking
  <2>2. ~Begins(r)
    <3> SUFFICES ASSUME Begins(r) PROVE FALSE
      OBVIOUS
    <3>1. PICK op \in {"worker", "plain"}, n \in Id : Starts(r, op, "workspace", n)
      BY DEF Begins, Spawned
    <3> QED  BY <2>1, <3>1, StartShape
  <2>3. ~AskKill(r)
    <3> SUFFICES ASSUME AskKill(r) PROVE FALSE
      OBVIOUS
    <3>1. PICK rec : rec.op = "kill" /\ job' = [job EXCEPT ![r] = rec]  BY DEF AskKill, Becomes
    <3>2. job'[r] = rec  BY <3>1 DEF Types
    <3> QED  BY <2>1, <3>1, <3>2
  <2>4. ~AskCleanup(r)
    <3> SUFFICES ASSUME AskCleanup(r) PROVE FALSE
      OBVIOUS
    <3>1. PICK rec : rec.op = "cleanup" /\ job' = [job EXCEPT ![r] = rec]  BY DEF AskCleanup, Lists, Becomes
    <3>2. job'[r] = rec  BY <3>1 DEF Types
    <3> QED  BY <2>1, <3>1, <3>2
  <2>5. job[r].pc \notin {"idle", "done", "failed"}
    BY <2>2, <2>3, <2>4 DEF Moves, Teardown, At, AskOrchestrator, Create, Workspace, Launch, Mark, Deliver,
       CutOff, KillRefused, CallFails, DestroyRuntime, DestroyTree, Delete, Park, Clear, Does, Retire, Reclaim,
       TakesUp, Torn
  <2>6. job'[r].op = job[r].op  BY <2>5, StepJob DEF At
  <2> QED  BY <1>2, <2>5, <2>6 DEF Locked, Ended
<1> QED  BY <1>1, <1>2

LEMMA AskOrchestratorOne ==
  ASSUME Types, SpawnSound, OrchestratorSound, NEW r \in Req, AskOrchestrator(r)
  PROVE  OrchestratorSound'
<1>1. Moves(r) /\ row' = row /\ At(r, "idle") /\ LockFree  BY DEF Moves, AskOrchestrator
<1>2. ASSUME NEW q \in Req, Locked(q)'
      PROVE  q = r
  <2> SUFFICES ASSUME q # r PROVE FALSE
    OBVIOUS
  <2>1. job'[q] = job[q]  BY <1>1, StepJob DEF JobsKept
  <2> QED  BY <1>1, <1>2, <2>1 DEF LockFree, Locked
<1>3. ASSUME NEW i \in Theirs'
      PROVE  i \in Theirs /\ i \in Orchestrators
  BY <1>1, <1>3, TheirsStep DEF At, Theirs
<1>4. CASE Starts(r, "ensure", IF Orchestrators = {} THEN "create" ELSE "done", 0)
  <2>1. PICK where \in {"create", "done"} :
          where = IF Orchestrators = {} THEN "create" ELSE "done"
    OBVIOUS
  <2>2. Starts(r, "ensure", where, 0)  BY <1>4, <2>1
  <2>3. job'[r].pc = where /\ job'[r].id = 0  BY <2>2, StartShape
  <2> QED
    BY <1>2, <1>3, <2>1, <2>3 DEF OrchestratorSound, Locked, Ended, At, Mine
<1>5. CASE Lists(r, "replace", {Call("retire", i, 0) : i \in Orchestrators})
  <2>1. PICK calls : calls = {Call("retire", i, 0) : i \in Orchestrators}  OBVIOUS
  <2>2. calls \in SUBSET Calls
    <3>1. \A i \in Id : Call("retire", i, 0) \in Calls
      BY MyPlace, CallType
    <3> QED  BY <2>1, <3>1 DEF Orchestrators
  <2>3. job'[r].pc = "tear" /\ job'[r].id = 0 /\ job'[r].left = calls
    BY <1>5, <2>1, <2>2, ListShape
  <2>4. ASSUME NEW i \in Theirs'
        PROVE  \E c \in job'[r].left : c.id = i
    <3>1. PICK c : c = Call("retire", i, 0)  OBVIOUS
    <3>2. c.id = i  BY <3>1 DEF Call
    <3>3. c \in calls  BY <1>3, <2>1, <3>1
    <3> QED  BY <2>3, <3>2, <3>3
  <2> QED
    BY <1>2, <1>3, <2>3, <2>4 DEF OrchestratorSound, At, Mine
<1> QED  BY <1>4, <1>5 DEF AskOrchestrator

LEMMA OrchestratorStep ==
  ASSUME Types, SpawnSound, MissedType, OrchestratorSound, NEW r \in Req, Moves(r)
  PROVE  OrchestratorSound'
<1> SUFFICES ASSUME ~AskOrchestrator(r) PROVE OrchestratorSound'
  BY AskOrchestratorOne
<1>1. \A q \in Req : Locked(q)' => Locked(q)  BY LockStep
<1>2. \A q, p \in Req : Locked(q)' /\ Locked(p)' => q = p  BY <1>1 DEF OrchestratorSound
<1>3. ReqSound(r) /\ job[r] \in Job  BY DEF SpawnSound, Types
<1>4. At(r, "create") => Locked(r) /\ Mine(r) = 0
  BY <1>3 DEF ReqSound, PlaceSound, Locked, At, Ended
<1>5. At(r, "mark") /\ job[r].op \in Locking => Locked(r) /\ Mine(r) # 0
  BY <1>3 DEF ReqSound, PlaceSound, Locked, At, Ended
\* What r adds is its own.
<1>6. ASSUME NEW i \in Theirs'
      PROVE  i \in Theirs \/ (Locked(r) /\ i = job'[r].id /\ Theirs \subseteq {i})
  <2>1. CASE At(r, "create") /\ job'[r].id = i
    BY <1>4, <2>1 DEF OrchestratorSound
  <2>2. CASE At(r, "mark") /\ i = Mine(r) /\ job[r].op \in Locking
    <3>1. job'[r].id = i  BY <2>2, StepJob DEF At, Mine
    <3> QED  BY <1>5, <2>2, <3>1 DEF OrchestratorSound
  <2> QED  BY <1>6, <2>1, <2>2, TheirsStep
<1>7. ASSUME NEW i \in Theirs', NEW j \in Theirs'
      PROVE  i = j
  BY <1>6, <1>7 DEF OrchestratorSound
<1>8. ASSUME NEW q \in Req, Locked(q)', q # r
      PROVE  /\ job'[q] = job[q] /\ Locked(q) /\ \A i \in Theirs' : i \in Theirs
  <2>1. Locked(q) /\ ~Locked(r)  BY <1>1, <1>8 DEF OrchestratorSound
  <2>2. job'[q] = job[q]  BY <1>8, StepJob DEF JobsKept
  <2> QED  BY <1>6, <2>1, <2>2
<1>9. ASSUME Locked(r)', At(r, "create")'
      PROVE  Theirs' = {}
  <2>1. Torn(r)
    BY <1>1, <1>3, <1>9, StepJob DEF Locked, Locking, ReqSound, PlaceSound, At
  <2>2. At(r, "tear") /\ job[r].todo = <<>> /\ job[r].left = {} /\ Locked(r)
    BY <1>1, <1>9, <2>1 DEF Torn, Pending
  <2>3. Mine(r) = 0
    <3>1. job'[r].op = job[r].op /\ job'[r].id = job[r].id  BY <2>2, StepJob DEF At
    <3>2. job'[r].id = 0
      <4>1. (ReqSound(r))'  BY StepSound DEF SpawnSound
      <4> QED  BY <1>9, <4>1 DEF ReqSound, PlaceSound, Mine
    <3> QED  BY <3>1, <3>2 DEF Mine
  <2>4. Theirs = {}  BY <2>2, <2>3 DEF OrchestratorSound
  <2>5. ~At(r, "create") /\ ~At(r, "mark")  BY <2>2 DEF At
  <2> QED  BY <2>4, <2>5, TheirsStep
<1>10. ASSUME Locked(r)', Mine(r)' # 0, NEW i \in Theirs'
       PROVE  i = job'[r].id
  <2>1. CASE i \in Theirs /\ At(r, "create")  BY <1>4, <2>1 DEF OrchestratorSound
  <2>2. CASE i \in Theirs /\ ~At(r, "create")
    <3>1. Locked(r) /\ ~At(r, "idle")
      BY <1>1, <1>3, <1>10 DEF Locked, Locking, ReqSound, PlaceSound
    <3>2. job'[r].id = job[r].id  BY <2>2, <3>1, StepJob
    <3> QED  BY <1>10, <2>2, <3>1, <3>2 DEF OrchestratorSound, Mine
  <2> QED  BY <1>6, <1>10, <2>1, <2>2
<1>11. ASSUME Locked(r)', At(r, "tear")', Mine(r)' = 0, NEW i \in Theirs'
       PROVE  \/ \E c \in job'[r].left : c.id = i
              \/ \E n \in DOMAIN job'[r].todo : job'[r].todo[n] = Call("park", i, 0)
  <2>1. Locked(r) /\ ~At(r, "idle")
    BY <1>1, <1>3, <1>11 DEF Locked, Locking, ReqSound, PlaceSound
  <2>2. ~Create(r)
    <3> SUFFICES ASSUME Create(r) PROVE FALSE
      OBVIOUS
    <3>1. job'[r].pc = "workspace"
      <4>1. PICK rec : rec.pc = "workspace" /\ job' = [job EXCEPT ![r] = rec]
        <5>1. PICK n \in Id : Becomes(r, [job[r] EXCEPT !.id = n, !.pc = "workspace"])
          BY DEF Create
        <5>2. PICK rec : rec = [job[r] EXCEPT !.id = n, !.pc = "workspace"]  OBVIOUS
        <5>3. rec.pc = "workspace"  BY <1>3, <5>2 DEF Job
        <5> QED  BY <5>1, <5>2, <5>3 DEF Becomes
      <4> QED  BY <4>1 DEF Types
    <3> QED  BY <1>11, <3>1 DEF At
  <2>3. job[r].pc \in {"workspace", "launch", "mark", "deliver", "tear"}
    BY <1>11, <2>1, StepJob DEF At
  <2>4. Mine(r) = 0 /\ job[r].op \in Locking /\ job'[r].op = job[r].op
    BY <1>11, <2>1, <2>3, StepJob DEF At, Mine, Locked
  <2>5. At(r, "tear")  BY <1>3, <2>3, <2>4 DEF ReqSound, PlaceSound, At
  <2>6. i \in Theirs /\ Running(i)' /\ i \in Id
    BY <2>5, <1>11, TheirsStep DEF At, Theirs, Orchestrators
  <2>7. CASE \E n \in DOMAIN job[r].todo : job[r].todo[n] = Call("park", i, 0)
    <3>1. PICK c : c = Call("park", i, 0)  OBVIOUS
    <3>2. c.do = "park" /\ c.id = i  BY <3>1 DEF Call
    <3>3. PICK n \in DOMAIN job[r].todo : job[r].todo[n] = c  BY <2>7, <3>1
    <3>4. job[r].op # "kill" /\ ~Own(r)  BY <2>4 DEF Locking, Own
    <3>5. \/ \E m \in DOMAIN job'[r].todo : job'[r].todo[m] = c
          \/ ~Running(c.id)'
      BY <3>2, <3>3, <3>4, EndKept
    <3>6. Running(c.id)'  BY <2>6, <3>2
    <3> QED  BY <3>1, <3>5, <3>6
  <2>8. ASSUME NEW c \in job[r].left, c.id = i
        PROVE  \/ \E d \in job'[r].left : d.id = i
               \/ \E n \in DOMAIN job'[r].todo : job'[r].todo[n] = Call("park", i, 0)
    <3>1. CASE job'[r].left = job[r].left  BY <2>8, <3>1
    <3>2. CASE Retire(r)
      <4>1. PICK d \in job[r].left :
              TakesUp(r, "retire", d, IF Running(d.id) THEN Ends(d.id, "force") ELSE <<>>)
        BY <3>2 DEF Retire
      <4>2. PICK calls : calls = IF Running(d.id) THEN Ends(d.id, "force") ELSE <<>>  OBVIOUS
      <4>3. PICK rec : rec = [job[r] EXCEPT !.left = @ \ {d}, !.todo = calls]  OBVIOUS
      <4>4. job' = [job EXCEPT ![r] = rec]  BY <4>1, <4>2, <4>3 DEF TakesUp, Becomes
      <4>5. rec.left = job[r].left \ {d} /\ rec.todo = calls  BY <1>3, <4>3 DEF Job
      <4>6. job'[r].left = job[r].left \ {d} /\ job'[r].todo = calls
        BY <4>4, <4>5 DEF Types
      <4>7. CASE c # d  BY <2>8, <4>6, <4>7
      <4>8. CASE c = d
        <5>1. Running(i)  BY <2>6 DEF Theirs, Orchestrators
        <5>2. calls = Ends(i, "force")  BY <2>8, <4>2, <4>8, <5>1
        <5>3. PICK p : p = Place(row[i].kind, i)  OBVIOUS
        <5>4. \/ calls = <<Call("runtime", i, 0), Call("force", i, p), Call("park", i, 0)>>
              \/ calls = <<Call("park", i, 0)>>
          BY <5>2, <5>3 DEF Ends
        <5>5. \E n \in DOMAIN calls : calls[n] = Call("park", i, 0)
          <6>1. \/ 3 \in DOMAIN calls /\ calls[3] = Call("park", i, 0)
                \/ 1 \in DOMAIN calls /\ calls[1] = Call("park", i, 0)
            BY <5>4
          <6> QED  BY <6>1
        <5> QED  BY <4>6, <5>5
      <4> QED  BY <4>7, <4>8
    <3>3. ~Reclaim(r)
      <4> SUFFICES ASSUME Reclaim(r) PROVE FALSE
        OBVIOUS
      <4>1. PICK d \in job[r].left : d.do = "reclaim"  BY DEF Reclaim, TakesUp
      <4> QED  BY <1>3, <2>4, <4>1 DEF ReqSound, ListSound, Locking
    <3>4. ASSUME NEW calls, Then(r, calls)
          PROVE  job'[r].left = job[r].left
      <4>1. PICK rec : rec = [job[r] EXCEPT !.todo = calls]  OBVIOUS
      <4>2. job' = [job EXCEPT ![r] = rec]  BY <3>4, <4>1 DEF Then, Becomes
      <4>3. rec.left = job[r].left  BY <1>3, <4>1 DEF Job
      <4> QED  BY <4>2, <4>3 DEF Types
    <3>5. ~CutOff(r) /\ ~Torn(r)
      <4>1. ~Goes(r, "failed") /\ ~Goes(r, "done") /\ ~Goes(r, "create")
        BY <1>11, GoesShape DEF At
      <4> QED  BY <4>1 DEF CutOff, Torn
    <3>6. CASE KillRefused(r) \/ CallFails(r) \/ DestroyRuntime(r) \/ DestroyTree(r) \/ Delete(r) \/ Park(r) \/ Clear(r)
      <4>1. \E calls : Then(r, calls)
        BY <3>6 DEF KillRefused, CallFails, DestroyRuntime, DestroyTree, Delete, Park, Clear, Onward
      <4> QED  BY <3>1, <3>4, <4>1
    <3> QED
      BY <2>5, <3>2, <3>3, <3>5, <3>6
      DEF Moves, Teardown, At, Begins, AskOrchestrator, AskKill, AskCleanup, Create, Workspace,
          Launch, Mark, Deliver
  <2> QED  BY <2>1, <2>4, <2>5, <2>6, <2>7, <2>8 DEF OrchestratorSound
<1>12. ASSUME NEW q \in Req, Locked(q)'
       PROVE  /\ At(q, "create")' => Theirs' = {}
              /\ Mine(q)' # 0 => Theirs' \subseteq {Mine(q)'}
              /\ At(q, "tear")' /\ Mine(q)' = 0 => \A i \in Theirs' :
                   \/ \E c \in job'[q].left : c.id = i
                   \/ \E n \in DOMAIN job'[q].todo : job'[q].todo[n] = Call("park", i, 0)
  <2>1. CASE q = r  BY <1>9, <1>10, <1>11, <1>12, <2>1 DEF Mine
  <2>2. CASE q # r
    BY <1>8, <1>12, <2>2 DEF OrchestratorSound, At, Mine
  <2> QED  BY <2>1, <2>2
<1> QED
  BY <1>2, <1>7, <1>12 DEF OrchestratorSound

-----------------------------------------------------------------------------
(* The safety of spawning.                                                 *)

Kept3 == MissedType /\ TreeSound /\ LeftSound /\ KeepSound /\ OrchestratorSound

LEMMA SameKept ==
  ASSUME Kept3, UNCHANGED vars
  PROVE  Kept3'
<1> USE DEF vars
<1>1. TreeSound'
  BY DEF Kept3, TreeSound, Owes, Builds, Own, Mine, MyTree, Has
<1>2. KeepSound'
  BY DEF Kept3, KeepSound, Mine, Ending
<1>3. Theirs' = Theirs
  BY DEF Theirs, Orchestrators, Running, Owner
<1>4. OrchestratorSound'
  BY <1>3 DEF Kept3, OrchestratorSound, Locked, At, Mine
<1>5. LeftSound'
  BY DEF Kept3, LeftSound, Own, Mine, Owner, Has, Running
<1>6. MissedType'  BY DEF Kept3, MissedType
<1> QED  BY <1>1, <1>2, <1>4, <1>5, <1>6 DEF Kept3

LEMMA IntakeMoves ==
  ASSUME IntakeNext
  PROVE  UNCHANGED vars \/ \E r \in Req : Moves(r)
  BY StepMoves DEF IntakeNext, PollStarts, PassesOver, SpawnReturns, PollStops, Others

\* Everything the properties below rest on holds in every reachable state: what
\* the requests and the rows know of each other, which worktrees are owed, and who
\* may take one.
THEOREM IntakeKept == IntakeSpec => [](Sound /\ Kept3)
<1>1. IntakeInit => Kept3
  <2> SUFFICES ASSUME IntakeInit PROVE Kept3
    OBVIOUS
  <2>1. Theirs = {}
    BY DEF IntakeInit, Init, Theirs, Orchestrators, Running, Absent
  <2>2. \A r \in Req : ~Locked(r)
    BY DEF IntakeInit, Init, Idle, Locked, Locking
  <2> QED
    BY <2>1, <2>2 DEF Kept3, MissedType, TreeSound, LeftSound, KeepSound, OrchestratorSound, IntakeInit,
       Init, Idle, Absent, Own, Mine
<1>2. Sound /\ Kept3 /\ [IntakeNext]_allVars => Kept3'
  <2> SUFFICES ASSUME Sound, Kept3, [IntakeNext]_allVars PROVE Kept3'
    OBVIOUS
  <2>1. CASE UNCHANGED vars
    BY <2>1, SameKept
  <2>2. ASSUME NEW r \in Req, Moves(r) PROVE Kept3'
    BY <2>2, MissedStep, TreeStep, LeftStep, KeepStep, OrchestratorStep DEF Sound, Kept3
  <2>3. CASE UNCHANGED allVars  BY <2>1, <2>3 DEF allVars
  <2> QED  BY <2>1, <2>2, <2>3, IntakeMoves
<1>3. Sound /\ [IntakeNext]_allVars => Sound'  BY IntakeStep
<1> QED  BY <1>1, <1>2, <1>3, IntakeInitSound, PTL DEF IntakeSpec

\* The types, and that a spawn under way has its row to itself.
THEOREM IntakeTypeOK == IntakeSpec => []SpawnTypeOK
<1>1. Sound /\ Kept3 => SpawnTypeOK
  <2> SUFFICES ASSUME Sound, Kept3 PROVE SpawnTypeOK
    OBVIOUS
  <2>1. \A r \in Req : job[r].pc \in {"workspace", "launch", "mark", "deliver"} => row[Mine(r)].by = r
    BY OnItsWay DEF Sound, Owner
  <2> QED  BY <2>1 DEF SpawnTypeOK, Sound, Kept3, MissedType, Types, Row, Job
<1> QED  BY <1>1, IntakeKept, PTL

\* Who is to end, to take down or to name what is there.
LEMMA LostNothing ==
  ASSUME Types, SpawnSound, TreeSound, LeftSound
  PROVE  NothingLost
<1>1. ASSUME NEW r \in Req, At(r, "failed"), NEW i \in Id, row[i].by = r, Running(i)
      PROVE  i \in missed["park"]
  <2>1. Present(i) /\ Mine(r) = i /\ Own(r)
    BY <1>1, SpawnAssumption DEF SpawnSound, RowSound, Absent, Owner, Own, Id
  <2>2. job[r].todo = <<>>  BY <1>1, <2>1 DEF SpawnSound, ReqSound, OwnSound
  <2>3. ~Has(r, {"delete", "park"})  BY <2>2 DEF Has
  <2>4. Owner(i) = r /\ job[r].pc = "failed"  BY <1>1 DEF Owner, At
  <2> QED  BY <1>1, <2>1, <2>3, <2>4 DEF LeftSound
<1>2. ASSUME NEW i \in tmux, i \notin missed["runtime"], ~row[i].held
      PROVE  \E r \in Req : Mine(r) = i /\ Builds(r, {"mark"}, {"runtime"})
  <2>1. i \in Id /\ Present(i)  BY <1>2 DEF Types, SpawnSound, HeldSound
  <2>2. PICK r \in Req : r = Owner(i) /\ Mine(r) = i /\ job[r].op \in Spawns
    BY <2>1 DEF SpawnSound, RowSound
  <2>3. Own(r) /\ OwnSound(r) /\ PlaceSound(r) /\ job[r] \in Job
    BY <2>1, <2>2 DEF Own, Id, SpawnSound, ReqSound, Types
  <2>4. job[r].pc \notin {"workspace", "launch", "deliver", "done", "idle", "create"}
    BY <1>2, <2>2, <2>3 DEF OwnSound, PlaceSound, At, Own, Spawns
  <2>5. job[r].pc \in {"tear", "failed"} => Has(r, {"runtime"})
    BY <1>2, <2>2, <2>3 DEF LeftSound
  <2>6. job[r].pc \in {"mark", "tear", "failed"}  BY <2>3, <2>4 DEF Job
  <2> QED  BY <2>2, <2>3, <2>5, <2>6 DEF Builds
<1>3. ASSUME NEW p \in DOMAIN tree, p \notin missed["tree"], tree[p] # "none"
      PROVE  \/ \E i \in Id : row[i].held /\ Place(row[i].kind, i) = p
             \/ \E r \in Req : MyTree(r) = p /\ Builds(r, {"launch", "mark"}, {"tree"})
  <2>1. PICK r \in Req : Owes(r, p)  BY <1>3 DEF TreeSound
  <2>2. Own(r) /\ MyTree(r) = p /\ ReqSound(r) /\ Mine(r) \in Id
    BY <2>1 DEF Owes, Builds, SpawnSound, Types, Job, Own, Mine
  <2>3. CASE job[r].pc \in {"deliver", "done"}
    <3>1. row[Mine(r)].held /\ Owner(Mine(r)) = r  BY <2>2, <2>3 DEF ReqSound, OwnSound
    <3>2. Present(Mine(r)) /\ row[Mine(r)].kind = Kind(job[r].op)
      BY <2>2, <3>1, SpawnAssumption DEF SpawnSound, RowSound, Absent, Owner
    <3> QED  BY <2>2, <3>1, <3>2 DEF MyTree
  <2>4. CASE job[r].pc \notin {"deliver", "done"}
    BY <2>1, <2>2, <2>4 DEF Owes, Builds
  <2> QED  BY <2>3, <2>4
<1> QED  BY <1>1, <1>2, <1>3 DEF NothingLost

\* A failed spawn leaves nothing behind in silence, whichever of its calls fail: a row that
\* looks live, and a runtime or a worktree that no row names, still have the call to come
\* that is to get them, or that very call has failed (rollbackSpawn*, Spawn).
THEOREM IntakeNothingLost == IntakeSpec => []NothingLost
<1>1. Sound /\ Kept3 => NothingLost  BY LostNothing DEF Sound, Kept3
<1> QED  BY <1>1, IntakeKept, PTL

\* No rollback, kill or cleanup takes the worktree of another worker.
THEOREM IntakeWorkerKeepsTree == IntakeSpec => []WorkerKeepsTree
<1>1. KeepSound => WorkerKeepsTree
  <2>1. \A i \in Id : Ending(i) => Falling(i)  BY DEF Ending, Falling
  <2> QED  BY <2>1 DEF KeepSound, WorkerKeepsTree
<1> QED  BY <1>1, IntakeKept, PTL DEF Kept3

\* One orchestrator of the requests for one runs.
THEOREM IntakeOneOrchestrator == IntakeSpec => []OneOrchestrator
<1>1. OrchestratorSound => OneOrchestrator
  <2> SUFFICES ASSUME OrchestratorSound PROVE OneOrchestrator
    OBVIOUS
  <2>1. Theirs = {i \in Orchestrators : job[row[i].by].op \in Locking}  BY DEF Theirs, Owner
  <2>2. CASE Theirs = {}
    BY <2>1, <2>2, FS_EmptySet DEF OneOrchestrator
  <2>3. CASE Theirs # {}
    <3>1. \A i, j \in Theirs : i = j  BY DEF OrchestratorSound
    <3>2. PICK i \in Theirs : TRUE  BY <2>3
    <3>3. Theirs = {i}  BY <3>1, <3>2
    <3>4. Cardinality({i}) = 1  BY FS_Singleton
    <3>5. Cardinality(Theirs) <= 1  BY <3>3, <3>4
    <3> QED  BY <2>1, <3>5 DEF OneOrchestrator
  <2> QED  BY <2>2, <2>3
<1> QED  BY <1>1, IntakeKept, PTL DEF Kept3
=============================================================================
