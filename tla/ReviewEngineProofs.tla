-------------------------- MODULE ReviewEngineProofs --------------------------
(***************************************************************************)
(* Proofs about ReviewEngine, for every worker, every number of requests   *)
(* and every bound: its rows are a ReviewLedger, its deliveries go through *)
(* the nudge pipe.                                                         *)
(***************************************************************************)
EXTENDS ReviewEngine, TLAPS, WellFoundedInduction

Inv == EngineTypeOK /\ RowSound /\ PlaceSound /\ LockSound /\ SubmitSound

\* The first of some numbers is one of them.
LEMMA FirstIn ==
  ASSUME NEW some, some \subseteq Nat, some # {}
  PROVE  First(some) \in some
<1> DEFINE R == OpToRel(<, Nat)
<1>1. IsWellFoundedOn(R, Nat)  BY NatLessThanWellFounded, Zenon
<1>2. PICK x \in some : \A y \in some : <<y, x>> \notin R
  <2> HIDE DEF R
  <2> QED  BY <1>1, WFMin
<1>3. \A y \in some : ~ (y < x)  BY <1>2 DEF OpToRel
<1>4. \A y \in some : x <= y  BY <1>3
<1> QED  BY <1>4 DEF First

LEMMA FirstPr ==
  ASSUME NEW some \in SUBSET Pr, some # {}
  PROVE  First(some) \in some /\ First(some) \in Pr
  BY FirstIn, ReviewAssumption DEF ReviewAssumption

LEMMA FirstRun ==
  ASSUME NEW some \in SUBSET RunId, some # {}
  PROVE  First(some) \in some /\ First(some) \in RunId
  BY FirstIn, ReviewAssumption DEF ReviewAssumption

\* What a step may do to the rows: a pass that ended keeps its result.
RowsKept ==
  \A i \in RunId :
    /\ Exists(i) => /\ Exists(i)'
                    /\ run'[i].pr = run[i].pr /\ run'[i].sha = run[i].sha
                    /\ run'[i].batch = run[i].batch
    /\ run[i].status \in {"complete", "delivered"} =>
         run'[i].status \in {"complete", "delivered"} /\ run'[i].verdict = run[i].verdict

NoneBegun == \A i \in RunId : Running(i)' => Running(i)

\* The invariants of one request.
RequestSound(r) ==
  /\ req[r].at \in {"supersede", "insert"} =>
       req[r].prs # {} /\ \A p \in req[r].prs : req[r].view[p] # 0
  /\ req[r].at \in {"update", "apply", "send", "persist"} => req[r].todo # {}
  /\ req[r].at \in TriggerPlaces => lock = {r}
  /\ At(r, "insert") =>
       \A i \in RunId : Running(i) /\ run[i].pr = First(req[r].prs)
                          => run[i].sha = req[r].view[run[i].pr]
  /\ req[r].at \in SubmitPlaces => \A i \in req[r].made :
       run[i].status \in {"complete", "delivered"} /\ run[i].verdict = req[r].says[i]
  /\ req[r].at \in {"apply", "send", "persist", "deliver"} => \A i \in req[r].todo :
       run[i].status \in {"complete", "delivered"} /\ run[i].verdict = "changes_requested"

LEMMA InvParts == Inv <=> EngineTypeOK /\ RowSound /\ \A r \in Req : RequestSound(r)
  BY DEF Inv, PlaceSound, LockSound, SubmitSound, RequestSound

\* A step of one request leaves the invariants of the others alone.
LEMMA OthersSound ==
  ASSUME Inv, NEW r \in Req, NEW q \in Req, q # r,
         req'[q] = req[q],
         RowsKept,
         NoneBegun \/ lock = {r},
         lock' = lock \/ (lock' = lock \ {r}) \/ (lock = {} /\ lock' = {r}),
         fed \subseteq fed', spent \subseteq spent'
  PROVE  RequestSound(q)'
<1>1. RequestSound(q) /\ EngineTypeOK  BY InvParts
<1>2. req'[q] \in Request /\ req[q] \in Request  BY <1>1 DEF EngineTypeOK
<1>3. req'[q].at \in TriggerPlaces => lock' = {q}  BY <1>1 DEF RequestSound
<1>4. At(q, "insert")' =>
        \A i \in RunId : (Running(i) /\ run[i].pr = First(req[q].prs)
                          => run[i].sha = req[q].view[run[i].pr])'
  <2>1. SUFFICES ASSUME At(q, "insert")', NEW i \in RunId, Running(i)',
                        run'[i].pr = First(req'[q].prs)
                 PROVE  run'[i].sha = req'[q].view[run'[i].pr]
    BY DEF At
  <2>2. At(q, "insert") /\ lock = {q}  BY <1>1, <2>1 DEF At, RequestSound, TriggerPlaces
  <2>3. Running(i)  BY <2>1, <2>2 DEF NoneBegun
  <2>4. Exists(i)  BY <2>3 DEF Exists, Running
  <2>5. run'[i].pr = run[i].pr /\ run'[i].sha = run[i].sha  BY <2>4 DEF RowsKept
  <2>6. run[i].pr = First(req[q].prs)  BY <2>1, <2>5
  <2>7. run[i].sha = req[q].view[run[i].pr]  BY <1>1, <2>2, <2>3, <2>6 DEF RequestSound
  <2> QED  BY <2>5, <2>7
<1>5. \A i \in req[q].made \cup req[q].todo : i \in RunId  BY <1>2 DEF Request
<1> QED  BY <1>1, <1>3, <1>4, <1>5 DEF RequestSound, RowsKept, At

\* So a step is sound when it is for the request that makes it.
LEMMA StepOf ==
  ASSUME Inv, NEW r \in Req, EngineTypeOK', RowSound', RequestSound(r)',
         \A q \in Req \ {r} : req'[q] = req[q],
         RowsKept,
         NoneBegun \/ lock = {r},
         lock' = lock \/ (lock' = lock \ {r}) \/ (lock = {} /\ lock' = {r}),
         fed \subseteq fed', spent \subseteq spent'
  PROVE  Inv'
<1>1. \A q \in Req : RequestSound(q)'  BY OthersSound
<1> QED  BY <1>1, InvParts DEF Inv, PlaceSound, LockSound, SubmitSound, RequestSound

\* The rest of the state has its types.
OtherTypes ==
  /\ head \in [Pr -> Sha] /\ open \in SUBSET Pr /\ handle \in BOOLEAN
  /\ pane \in BOOLEAN /\ queue \in SUBSET RunId /\ handed \in SUBSET RunId
  /\ starts \in 0..MaxStarts /\ turns \in 0..MaxTurns /\ faults \in 0..MaxFaults
  /\ fed \in SUBSET RunId /\ spent \in SUBSET RunId

\* The rows after a step of r.
RowsStep(r) ==
  run' \in [RunId -> Run] /\ RowSound' /\ RowsKept /\ (NoneBegun \/ lock = {r})

LEMMA Moves ==
  ASSUME Inv, NEW r \in Req, NEW rec \in Request,
         req' = [req EXCEPT ![r] = rec],
         OtherTypes', RowsStep(r),
         lock' = lock \/ (lock' = lock \ {r}) \/ (lock = {} /\ lock' = {r}),
         fed \subseteq fed', spent \subseteq spent', RequestSound(r)'
  PROVE  Inv'
<1>1. EngineTypeOK /\ RowSound  BY DEF Inv
<1>2. req' \in [Req -> Request] /\ \A q \in Req \ {r} : req'[q] = req[q]
  BY <1>1 DEF EngineTypeOK
<1>3. lock' \in SUBSET Req  BY <1>1 DEF EngineTypeOK
<1>4. EngineTypeOK'  BY <1>2, <1>3 DEF EngineTypeOK, OtherTypes, RowsStep
<1> QED  BY <1>2, <1>4, StepOf DEF RowsStep

LEMMA Ends ==
  ASSUME Inv, NEW r \in Req, Returns(r), OtherTypes', RowsStep(r),
         fed \subseteq fed', spent \subseteq spent'
  PROVE  Inv'
<1>1. EngineTypeOK  BY DEF Inv
<1>2. NoReq \in Request
  BY DEF NoReq, Request, Places, SomeOpinion
<1>3. req' = [req EXCEPT ![r] = NoReq] /\ lock' = lock \ {r}  BY DEF Returns
<1>4. req'[r].at = "idle"  BY <1>1, <1>3 DEF EngineTypeOK, NoReq
<1>5. RequestSound(r)'
  BY <1>4 DEF RequestSound, At, TriggerPlaces, SubmitPlaces
<1> QED  BY <1>2, <1>3, <1>5, Moves

LEMMA RowsSame == ASSUME Inv, NEW r \in Req, UNCHANGED run PROVE RowsStep(r)
<1>1. EngineTypeOK /\ RowSound  BY DEF Inv
<1> QED  BY <1>1 DEF RowsStep, RowSound, RowsKept, NoneBegun, EngineTypeOK, Exists, Running

\* Passes under way are given up.
LEMMA RowsEnded ==
  ASSUME Inv, NEW r \in Req, NEW some, NEW how \in {"failed", "cancelled"},
         run' = [i \in RunId |-> IF i \in some THEN [run[i] EXCEPT !.status = how] ELSE run[i]],
         \A i \in RunId : i \in some => Running(i)
  PROVE  RowsStep(r)
<1>1. EngineTypeOK /\ RowSound  BY DEF Inv
<1>2. run' \in [RunId -> Run]  BY <1>1 DEF EngineTypeOK, Run
<1>3. \A i \in RunId : /\ run'[i].pr = run[i].pr /\ run'[i].sha = run[i].sha
                       /\ run'[i].batch = run[i].batch /\ run'[i].verdict = run[i].verdict
                       /\ run'[i].status = (IF i \in some THEN how ELSE run[i].status)
  BY <1>1 DEF EngineTypeOK, Run
<1> QED  BY <1>1, <1>2, <1>3 DEF RowsStep, RowSound, RowsKept, NoneBegun, Exists, Running

LEMMA OthersSame ==
  ASSUME Inv, UNCHANGED <<prVars, handle, paneVars, faultVars, fed, spent>>
  PROVE  OtherTypes' /\ fed \subseteq fed' /\ spent \subseteq spent'
  BY DEF Inv, EngineTypeOK, OtherTypes, prVars, paneVars, faultVars

LEMMA Counters ==
  ASSUME Inv, Fault \/ Begins \/ Turn
  PROVE  starts' \in 0..MaxStarts /\ turns' \in 0..MaxTurns /\ faults' \in 0..MaxFaults
  BY ReviewAssumption DEF Inv, EngineTypeOK, Fault, Begins, Turn, ReviewAssumption

-----------------------------------------------------------------------------
(* The steps of a trigger.                                                 *)

LEMMA TriggerStartsSound == ASSUME Inv, NEW r \in Req, TriggerStarts(r) PROVE Inv'
<1> DEFINE rec == [NoReq EXCEPT !.at = "plan",
                     !.view = [p \in Pr |-> IF p \in open THEN head[p] ELSE 0]]
<1>1. EngineTypeOK  BY DEF Inv
<1>2. rec \in Request
  BY <1>1 DEF EngineTypeOK, NoReq, Request, Places, TriggerPlaces, SomeOpinion
<1>3. req' = [req EXCEPT ![r] = rec] /\ lock = {} /\ lock' = {r}
  BY DEF TriggerStarts, Free
<1>4. OtherTypes'
  BY <1>1, Counters DEF TriggerStarts, EngineTypeOK, OtherTypes, prVars, paneVars
<1>5. req'[r].at = "plan"  BY <1>1, <1>3 DEF EngineTypeOK, NoReq
<1>6. RequestSound(r)'  BY <1>3, <1>5 DEF RequestSound, At, SubmitPlaces
<1>7. RowsStep(r)  BY RowsSame DEF TriggerStarts
<1>8. fed \subseteq fed' /\ spent \subseteq spent'  BY DEF TriggerStarts
<1> HIDE DEF rec
<1> QED  BY <1>2, <1>3, <1>4, <1>6, <1>7, <1>8, Moves

\* The steps that go on to another place of the loop and leave the rest alone.
LEMMA Goto ==
  ASSUME Inv, NEW r \in Req, NEW place \in Places, Goes(r, place),
         OtherTypes', RowsStep(r), UNCHANGED lock,
         fed \subseteq fed', spent \subseteq spent', RequestSound(r)'
  PROVE  Inv'
<1> DEFINE rec == [req[r] EXCEPT !.at = place]
<1>1. EngineTypeOK  BY DEF Inv
<1>2. rec \in Request  BY <1>1 DEF EngineTypeOK, Request
<1>3. req' = [req EXCEPT ![r] = rec]  BY DEF Goes
<1> HIDE DEF rec
<1> QED  BY <1>2, <1>3, Moves

LEMMA TriggerPlansSound == ASSUME Inv, NEW r \in Req, TriggerPlans(r) PROVE Inv'
<1> DEFINE due == {p \in Pr : req[r].view[p] # 0 /\ NeedsReview(p, req[r].view[p])}
           rec == [req[r] EXCEPT !.at = "supersede", !.prs = due]
<1>1. EngineTypeOK /\ RequestSound(r)  BY InvParts
<1>2. OtherTypes' /\ fed \subseteq fed' /\ spent \subseteq spent'
  BY OthersSame DEF TriggerPlans
<1>3. RowsStep(r)  BY RowsSame DEF TriggerPlans
<1>4. CASE due = {}  BY <1>2, <1>3, <1>4, Ends DEF TriggerPlans
<1>5. CASE due # {}
  <2>1. req' = [req EXCEPT ![r] = rec] /\ lock' = lock  BY <1>5 DEF TriggerPlans
  <2>2. rec \in Request  BY <1>1, ZenonT(60) DEF EngineTypeOK, Request, Places, TriggerPlaces
  <2>3. req'[r].at = "supersede" /\ req'[r].prs = due /\ req'[r].view = req[r].view
    BY <1>1, <2>1 DEF EngineTypeOK, Request
  <2>4. lock = {r}  BY <1>1 DEF TriggerPlans, At, RequestSound, TriggerPlaces
  <2>5. RequestSound(r)'
    BY <1>5, <2>1, <2>3, <2>4 DEF RequestSound, At, SubmitPlaces
  <2> HIDE DEF rec
  <2> QED  BY <1>2, <1>3, <2>1, <2>2, <2>5, Moves
<1> QED  BY <1>4, <1>5

LEMMA SupersedeSound == ASSUME Inv, NEW r \in Req, Supersede(r) PROVE Inv'
<1> DEFINE p == First(req[r].prs)
           stale == {i \in RunId : Running(i) /\ run[i].pr = p /\ run[i].sha # req[r].view[p]}
<1>1. EngineTypeOK /\ RequestSound(r) /\ At(r, "supersede")  BY InvParts DEF Supersede
<1>2. OtherTypes' /\ fed \subseteq fed' /\ spent \subseteq spent'
  BY OthersSame DEF Supersede
<1>3. run' = [i \in RunId |-> IF i \in stale THEN [run[i] EXCEPT !.status = "failed"] ELSE run[i]]
  BY DEF Supersede
<1>4. RowsStep(r)
  <2>1. \A i \in RunId : i \in stale => Running(i)  OBVIOUS
  <2> HIDE DEF stale
  <2> QED  BY <1>3, <2>1, RowsEnded
<1>5. Goes(r, "insert") /\ lock' = lock  BY DEF Supersede
<1>6. req'[r].at = "insert" /\ req'[r].prs = req[r].prs /\ req'[r].view = req[r].view
  BY <1>1, <1>5 DEF Goes, EngineTypeOK, Request
<1>7. lock = {r}  BY <1>1 DEF At, RequestSound, TriggerPlaces
<1>8. \A i \in RunId : Running(i)' /\ run'[i].pr = p => run'[i].sha = req[r].view[p]
  <2> HIDE DEF p
  <2> QED  BY <1>1, <1>3 DEF Running, EngineTypeOK, Run
<1>9. First(req'[r].prs) = p  BY <1>6
<1>10. RequestSound(r)'
  <2>1. req[r].prs # {} /\ \A o \in req[r].prs : req[r].view[o] # 0
    BY <1>1 DEF RequestSound, At
  <2>2. \A i \in RunId : Running(i)' /\ run'[i].pr = First(req'[r].prs)
                          => run'[i].sha = req'[r].view[run'[i].pr]
    BY <1>6, <1>8, <1>9
  <2> HIDE DEF p
  <2> QED  BY <1>5, <1>6, <1>7, <2>1, <2>2 DEF RequestSound, At, SubmitPlaces, First
<1> QED  BY <1>2, <1>4, <1>5, <1>10, Goto DEF Places, TriggerPlaces

LEMMA NextPrSound ==
  ASSUME Inv, NEW r \in Req, NEW rest \in SUBSET req[r].prs, NEW made \in SUBSET RunId,
         At(r, "insert"), NextPr(r, rest, made), OtherTypes', RowsStep(r),
         fed \subseteq fed', spent \subseteq spent'
  PROVE  Inv'
<1> DEFINE place == IF rest = {} THEN "alive" ELSE "supersede"
           rec == [req[r] EXCEPT !.at = place, !.prs = rest, !.made = made]
<1>1. EngineTypeOK /\ RequestSound(r)  BY InvParts
<1>2. CASE rest = {} /\ made = {}  BY <1>2, Ends DEF NextPr
<1>3. CASE ~(rest = {} /\ made = {})
  <2>1. req' = [req EXCEPT ![r] = rec] /\ lock' = lock  BY <1>3 DEF NextPr
  <2>2. place \in Places /\ place \in {"alive", "supersede"}  BY DEF Places, TriggerPlaces
  <2>3. rec \in Request
    <3>1. req[r] \in Request  BY <1>1 DEF EngineTypeOK
    <3>2. rest \in SUBSET Pr  BY <3>1 DEF Request
    <3> HIDE DEF place
    <3> QED  BY <2>2, <3>1, <3>2 DEF Request
  <2>4. req'[r].at = place /\ req'[r].prs = rest /\ req'[r].view = req[r].view
    <3> HIDE DEF place
    <3> QED  BY <1>1, <2>1 DEF EngineTypeOK, Request
  <2>5. lock = {r} /\ \A o \in req[r].prs : req[r].view[o] # 0
    BY <1>1 DEF At, RequestSound, TriggerPlaces
  <2>6. RequestSound(r)'
    BY <2>1, <2>4, <2>5 DEF RequestSound, At, SubmitPlaces
  <2> HIDE DEF rec
  <2> QED  BY <2>1, <2>3, <2>6, Moves
<1> QED  BY <1>2, <1>3

\* A new pass.
LEMMA RowInserted ==
  ASSUME Inv, NEW r \in Req, lock = {r}, NEW i \in RunId, ~Exists(i),
         NEW p \in Pr, NEW s \in Sha, NEW b \in RunId,
         run' = [run EXCEPT ![i] = [pr |-> p, sha |-> s, status |-> "running",
                                    batch |-> b, verdict |-> "none"]]
  PROVE  RowsStep(r)
<1> DEFINE row == [pr |-> p, sha |-> s, status |-> "running", batch |-> b, verdict |-> "none"]
<1>1. EngineTypeOK /\ RowSound  BY DEF Inv
<1>2. row \in Run  BY DEF Run
<1>3. run' = [run EXCEPT ![i] = row]  OBVIOUS
<1>4. row.pr \in Pr /\ row.sha \in Sha /\ row.batch \in RunId  OBVIOUS
<1> HIDE DEF row
<1>5. run' \in [RunId -> Run]  BY <1>1, <1>2, <1>3 DEF EngineTypeOK
<1>6. run'[i] = row /\ \A j \in RunId : j # i => run'[j] = run[j]
  BY <1>1, <1>3 DEF EngineTypeOK
<1>7. RowSound'  BY <1>1, <1>4, <1>6 DEF RowSound, Exists
<1>8. RowsKept  BY <1>6 DEF RowsKept, Exists
<1> QED  BY <1>5, <1>7, <1>8 DEF RowsStep

LEMMA InsertSound == ASSUME Inv, NEW r \in Req, Insert(r) PROVE Inv'
<1> DEFINE p == First(req[r].prs)
           s == req[r].view[p]
           made == req[r].made
           rest == req[r].prs \ {p}
<1>1. EngineTypeOK /\ RequestSound(r) /\ At(r, "insert")  BY InvParts DEF Insert
<1>2. OtherTypes' /\ fed \subseteq fed' /\ spent \subseteq spent'
  BY OthersSame DEF Insert
<1>3. req[r].prs \in SUBSET Pr /\ req[r].made \in SUBSET RunId /\ req[r].view \in [Pr -> Sha \cup {0}]
  BY <1>1 DEF EngineTypeOK, Request
<1>4. req[r].prs # {} /\ lock = {r} /\ \A o \in req[r].prs : req[r].view[o] # 0
  BY <1>1 DEF RequestSound, At, TriggerPlaces
<1>5. p \in Pr /\ s \in Sha
  <2>1. p \in req[r].prs /\ p \in Pr  BY <1>3, <1>4, FirstPr
  <2> HIDE DEF p
  <2> QED  BY <2>1, <1>3, <1>4
<1>6. rest \in SUBSET req[r].prs  OBVIOUS
<1>7. CASE Duplicate(p, s)
  <2>1. NextPr(r, rest, made) /\ UNCHANGED run  BY <1>7 DEF Insert
  <2>2. RowsStep(r)  BY <2>1, RowsSame
  <2> HIDE DEF rest, made
  <2> QED  BY <1>1, <1>2, <1>3, <1>6, <2>1, <2>2, NextPrSound DEF made
<1>8. CASE ~Duplicate(p, s)
  <2> DEFINE b(i) == IF made = {} THEN i ELSE First(made)
  <2>1. PICK i \in RunId :
          /\ ~Exists(i)
          /\ run' = [run EXCEPT ![i] = [pr |-> p, sha |-> s, status |-> "running",
                                        batch |-> b(i), verdict |-> "none"]]
          /\ NextPr(r, rest, made \cup {i})
    BY <1>8 DEF Insert
  <2>2. b(i) \in RunId  BY <1>3, FirstRun
  <2> HIDE DEF b, p, s
  <2>3. RowsStep(r)  BY <1>4, <1>5, <2>1, <2>2, RowInserted
  <2>4. made \cup {i} \in SUBSET RunId  BY <1>3
  <2> HIDE DEF rest, made
  <2> QED  BY <1>1, <1>2, <1>6, <2>1, <2>3, <2>4, NextPrSound
<1> QED  BY <1>7, <1>8

\* A place of a trigger that claims nothing but the lock.
LEMMA AtPane ==
  ASSUME Inv, NEW r \in Req, req[r].at \in TriggerPlaces, UNCHANGED lock,
         req'[r].at \in {"alive", "notify", "spawn", "record", "fail"}
  PROVE  RequestSound(r)'
<1>1. lock = {r}  BY InvParts DEF RequestSound
<1> QED  BY <1>1 DEF RequestSound, At, SubmitPlaces

LEMMA GotoPane ==
  ASSUME Inv, NEW r \in Req, req[r].at \in TriggerPlaces, UNCHANGED <<lock, run>>,
         NEW place \in {"alive", "notify", "spawn", "record", "fail"}, Goes(r, place),
         OtherTypes', fed \subseteq fed', spent \subseteq spent'
  PROVE  Inv'
<1>1. EngineTypeOK  BY DEF Inv
<1>2. req'[r].at = place  BY <1>1 DEF EngineTypeOK, Request, Goes
<1>3. place \in Places  BY DEF Places, TriggerPlaces
<1> QED  BY <1>2, <1>3, AtPane, RowsSame, Goto

LEMMA PaneSound ==
  ASSUME Inv, NEW r \in Req, Probe(r) \/ Spawn(r) \/ Notify(r) \/ PaneFails(r)
  PROVE  Inv'
<1>1. EngineTypeOK  BY DEF Inv
<1>2. req[r] \in Request  BY <1>1 DEF EngineTypeOK
<1>3. req[r].at \in TriggerPlaces
  BY DEF Probe, Spawn, Notify, PaneFails, At, TriggerPlaces
<1>4. UNCHANGED <<lock, run>>  BY DEF Probe, Spawn, Notify, PaneFails
<1>5. OtherTypes' /\ fed \subseteq fed' /\ spent \subseteq spent'
  <2>1. CASE PaneFails(r)
    BY <1>1, <1>2, <2>1, Counters DEF PaneFails, EngineTypeOK, OtherTypes, prVars, Request
  <2>2. CASE Probe(r) \/ Spawn(r) \/ Notify(r)
    BY <1>1, <1>2, <2>2 DEF Probe, Spawn, Notify, Asks, EngineTypeOK, OtherTypes, prVars,
       paneVars, faultVars, Request
  <2> QED  BY <2>1, <2>2
<1>6. \E place \in {"alive", "notify", "spawn", "record", "fail"} : Goes(r, place)
  BY DEF Probe, Spawn, Notify, PaneFails, Asks
<1> QED  BY <1>3, <1>4, <1>5, <1>6, GotoPane

LEMMA FailRunSound == ASSUME Inv, NEW r \in Req, FailRun(r) PROVE Inv'
<1> DEFINE i == First(req[r].made)
           rec == [req[r] EXCEPT !.made = @ \ {i}]
<1>1. EngineTypeOK /\ At(r, "fail")  BY DEF Inv, FailRun
<1>2. OtherTypes' /\ fed \subseteq fed' /\ spent \subseteq spent'
  BY OthersSame DEF FailRun
<1>3. CASE req[r].made = {}
  BY <1>2, <1>3, RowsSame, Ends DEF FailRun
<1>4. CASE req[r].made # {}
  <2>1. /\ run' = IF Running(i) THEN [run EXCEPT ![i].status = "failed"] ELSE run
        /\ req' = [req EXCEPT ![r] = rec] /\ lock' = lock
    BY <1>4 DEF FailRun
  <2>2. i \in RunId  BY <1>1, <1>4, FirstRun DEF EngineTypeOK, Request
  <2>3. rec \in Request /\ req'[r].at = "fail"
    BY <1>1, <2>1 DEF EngineTypeOK, Request, At
  <2> HIDE DEF i, rec
  <2>4. run' = [j \in RunId |-> IF j \in {o \in {i} : Running(i)}
                                THEN [run[j] EXCEPT !.status = "failed"] ELSE run[j]]
    BY <1>1, <2>1, <2>2 DEF EngineTypeOK
  <2>5. RowsStep(r)
    <3> DEFINE some == {o \in {i} : Running(i)}
    <3>1. \A j \in RunId : j \in some => Running(j)  OBVIOUS
    <3> HIDE DEF some
    <3> QED  BY <2>4, <3>1, RowsEnded DEF some
  <2>6. RequestSound(r)'  BY <1>1, <2>1, <2>3, AtPane DEF At, TriggerPlaces
  <2> QED  BY <1>2, <2>1, <2>3, <2>5, <2>6, Moves
<1> QED  BY <1>3, <1>4

\* The steps that end a request and leave the rows alone.
LEMMA GivenUp ==
  ASSUME Inv, NEW r \in Req,
         InsertFails(r) \/ WriteFails(r) \/ CancelFails(r) \/ SubmitFails(r)
         \/ SendSuppressed(r) \/ Record(r) \/ SendFails(r) \/ SendNotPersisted(r)
  PROVE  Inv'
<1>1. EngineTypeOK /\ req[r] \in Request  BY DEF Inv, EngineTypeOK
<1>2. Returns(r) /\ UNCHANGED run
  BY DEF InsertFails, WriteFails, CancelFails, SubmitFails, SendSuppressed, Record, SendFails,
         SendNotPersisted
<1>3. OtherTypes' /\ fed \subseteq fed' /\ spent \subseteq spent'
  <2>1. CASE InsertFails(r) \/ WriteFails(r) \/ CancelFails(r) \/ SubmitFails(r) \/ SendNotPersisted(r)
    BY <1>1, <2>1, Counters DEF InsertFails, WriteFails, CancelFails, SubmitFails,
       SendNotPersisted, EngineTypeOK, OtherTypes, prVars, paneVars
  <2>2. CASE SendSuppressed(r)  BY <2>2, OthersSame DEF SendSuppressed
  <2>3. CASE Record(r)
    BY <1>1, <2>3 DEF Record, EngineTypeOK, OtherTypes, prVars, paneVars, faultVars
  <2>4. CASE SendFails(r)
    BY <1>1, <2>4, Counters DEF SendFails, EngineTypeOK, OtherTypes, prVars, paneVars, Request
  <2> QED  BY <2>1, <2>2, <2>3, <2>4
<1> QED  BY <1>2, <1>3, RowsSame, Ends

-----------------------------------------------------------------------------
(* The steps of a cancellation and of a submission.                        *)

LEMMA CancelSound ==
  ASSUME Inv, NEW r \in Req, CancelStarts(r) \/ Interrupt(r) \/ MarkCancelled(r)
  PROVE  Inv'
<1>1. EngineTypeOK /\ req[r] \in Request  BY DEF Inv, EngineTypeOK
<1>2. CASE CancelStarts(r) \/ Interrupt(r)
  <2>1. PICK place \in {"interrupt", "mark"} : Goes(r, place)
    BY <1>2 DEF CancelStarts, Interrupt
  <2>2. UNCHANGED <<lock, run>> /\ fed \subseteq fed' /\ spent \subseteq spent'
    BY <1>2 DEF CancelStarts, Interrupt
  <2>3. CASE CancelStarts(r)
    <3>1. OtherTypes'
      BY <1>1, <2>3, Counters DEF CancelStarts, EngineTypeOK, OtherTypes, prVars, paneVars
    <3>2. req'[r].at = place  BY <1>1, <2>1 DEF EngineTypeOK, Request, Goes
    <3>3. RequestSound(r)'
      BY <3>2 DEF RequestSound, At, TriggerPlaces, SubmitPlaces
    <3> QED  BY <2>1, <2>2, <3>1, <3>3, RowsSame, Goto DEF Places
  <2>4. CASE Interrupt(r)
    <3>1. OtherTypes'
      BY <1>1, <2>4 DEF Interrupt, EngineTypeOK, OtherTypes, prVars, faultVars
    <3>2. req'[r].at = place  BY <1>1, <2>1 DEF EngineTypeOK, Request, Goes
    <3>3. RequestSound(r)'
      BY <3>2 DEF RequestSound, At, TriggerPlaces, SubmitPlaces
    <3> QED  BY <2>1, <2>2, <3>1, <3>3, RowsSame, Goto DEF Places
  <2> QED  BY <1>2, <2>3, <2>4
<1>3. CASE MarkCancelled(r)
  <2> DEFINE some == {i \in RunId : Running(i)}
  <2>1. run' = [i \in RunId |-> IF i \in some THEN [run[i] EXCEPT !.status = "cancelled"] ELSE run[i]]
    BY <1>3 DEF MarkCancelled
  <2>2. \A i \in RunId : i \in some => Running(i)  OBVIOUS
  <2>3. OtherTypes' /\ fed \subseteq fed' /\ spent \subseteq spent'
    BY <1>3, OthersSame DEF MarkCancelled
  <2> HIDE DEF some
  <2>4. RowsStep(r)  BY <2>1, <2>2, RowsEnded
  <2> QED  BY <1>3, <2>3, <2>4, Ends DEF MarkCancelled
<1> QED  BY <1>2, <1>3

LEMMA SubmitStartsSound == ASSUME Inv, NEW r \in Req, SubmitStarts(r) PROVE Inv'
<1>1. EngineTypeOK  BY DEF Inv
<1>2. PICK some \in SUBSET queue, o \in Opinions :
        req' = [req EXCEPT ![r] = [NoReq EXCEPT !.at = "read", !.todo = some, !.says = o]]
  BY DEF SubmitStarts
<1> DEFINE rec == [NoReq EXCEPT !.at = "read", !.todo = some, !.says = o]
<1>3. some \in SUBSET RunId /\ o \in [RunId -> {"approved", "changes_requested"}]
  BY <1>1, ReviewAssumption DEF EngineTypeOK, ReviewAssumption
<1>4. rec \in Request /\ rec.at = "read" /\ rec.made = {}
  BY <1>3 DEF NoReq, Request, Places, SubmitPlaces, SomeOpinion
<1>5. req' = [req EXCEPT ![r] = rec]  BY <1>2
<1> HIDE DEF rec
<1>6. req'[r] = rec  BY <1>1, <1>5 DEF EngineTypeOK
<1>7. RequestSound(r)'  BY <1>4, <1>6 DEF RequestSound, At, TriggerPlaces
<1>8. OtherTypes'
  BY <1>1, Counters DEF SubmitStarts, EngineTypeOK, OtherTypes, prVars, paneVars
<1>9. UNCHANGED <<lock, run>> /\ fed \subseteq fed' /\ spent \subseteq spent'
  BY DEF SubmitStarts
<1> QED  BY <1>4, <1>5, <1>7, <1>8, <1>9, RowsSame, Moves

LEMMA ReadRunSound == ASSUME Inv, NEW r \in Req, ReadRun(r) PROVE Inv'
<1> DEFINE i == First(req[r].todo)
<1>1. EngineTypeOK /\ RequestSound(r) /\ At(r, "read")  BY InvParts DEF ReadRun
<1>2. req[r] \in Request  BY <1>1 DEF EngineTypeOK
<1>3. OtherTypes' /\ fed \subseteq fed' /\ spent \subseteq spent'
  BY OthersSame DEF ReadRun
<1>4. RowsStep(r)  BY RowsSame DEF ReadRun
<1>5. UNCHANGED run  BY DEF ReadRun
<1>6. \A j \in req[r].made : run[j].status \in {"complete", "delivered"} /\ run[j].verdict = req[r].says[j]
  BY <1>1 DEF RequestSound, At, SubmitPlaces
<1>7. CASE Returns(r)  BY <1>3, <1>4, <1>7, Ends
<1>8. CASE UNCHANGED lock /\ \/ Goes(r, "heads")
                             \/ req[r].todo # {} /\ Goes(r, "update")
  <2>1. PICK place \in {"heads", "update"} :
          Goes(r, place) /\ (place = "update" => req[r].todo # {})
    BY <1>8
  <2>2. /\ req'[r].at = place /\ req'[r].todo = req[r].todo /\ req'[r].made = req[r].made
        /\ req'[r].says = req[r].says
    BY <1>1, <1>2, <2>1 DEF EngineTypeOK, Request, Goes
  <2>3. RequestSound(r)'
    BY <1>5, <1>6, <2>1, <2>2 DEF RequestSound, At, TriggerPlaces
  <2> QED  BY <1>3, <1>4, <1>8, <2>1, <2>3, Goto DEF Places, SubmitPlaces
<1>9. CASE UNCHANGED lock /\
           \/ /\ req[r].todo # {} /\ run[i].status = "complete" /\ run[i].verdict = req[r].says[i]
              /\ req' = [[req EXCEPT ![r].todo = @ \ {i}] EXCEPT ![r].made = @ \cup {i}]
           \/ req' = [req EXCEPT ![r].todo = @ \ {i}]
  <2>1. PICK more \in SUBSET {i} :
          /\ req' = [req EXCEPT ![r] = [req[r] EXCEPT !.todo = @ \ {i}, !.made = @ \cup more]]
          /\ \A j \in more : req[r].todo # {} /\ run[j].status = "complete" /\ run[j].verdict = req[r].says[j]
    <3>1. CASE req[r].todo # {} /\ run[i].status = "complete" /\ run[i].verdict = req[r].says[i]
               /\ req' = [[req EXCEPT ![r].todo = @ \ {i}] EXCEPT ![r].made = @ \cup {i}]
      <4> HIDE DEF i
      <4>1. req' = [req EXCEPT ![r] = [req[r] EXCEPT !.todo = @ \ {i}, !.made = @ \cup {i}]]
        BY <1>1, <1>2, <3>1 DEF EngineTypeOK, Request
      <4> WITNESS {i} \in SUBSET {i}
      <4> QED  BY <3>1, <4>1
    <3>2. CASE req' = [req EXCEPT ![r].todo = @ \ {i}]
      <4> HIDE DEF i
      <4>1. req' = [req EXCEPT ![r] = [req[r] EXCEPT !.todo = @ \ {i}, !.made = @ \cup {}]]
        BY <1>1, <1>2, <3>2, ZenonT(60) DEF EngineTypeOK, Request
      <4> WITNESS {} \in SUBSET {i}
      <4> QED  BY <4>1
    <3> QED  BY <1>9, <3>1, <3>2
  <2> DEFINE rec == [req[r] EXCEPT !.todo = @ \ {i}, !.made = @ \cup more]
  <2>2. more \in SUBSET RunId  BY <1>2, <2>1, FirstRun DEF Request
  <2> HIDE DEF i
  <2>3. /\ rec \in Request /\ rec.at = "read" /\ rec.made = req[r].made \cup more
        /\ rec.says = req[r].says
    BY <1>1, <1>2, <2>2 DEF Request, At
  <2>4. req' = [req EXCEPT ![r] = rec]  BY <2>1
  <2> HIDE DEF rec
  <2>5. req'[r] = rec  BY <1>1, <2>4 DEF EngineTypeOK
  <2>6. RequestSound(r)'
    BY <1>5, <1>6, <2>1, <2>3, <2>5 DEF RequestSound, At, TriggerPlaces
  <2> QED  BY <1>3, <1>4, <1>9, <2>3, <2>4, <2>6, Moves
<1> QED  BY <1>7, <1>8, <1>9 DEF ReadRun

\* A result is recorded.
LEMMA RowCompleted ==
  ASSUME Inv, NEW r \in Req, NEW i \in RunId, Running(i),
         NEW v \in {"approved", "changes_requested"},
         run' = [run EXCEPT ![i].status = "complete", ![i].verdict = v]
  PROVE  RowsStep(r) /\ run'[i].status = "complete" /\ run'[i].verdict = v
<1>1. EngineTypeOK /\ RowSound  BY DEF Inv
<1>2. run[i] \in Run  BY <1>1 DEF EngineTypeOK
<1>3. run' \in [RunId -> Run]  BY <1>1, <1>2 DEF EngineTypeOK, Run
<1>4. /\ run'[i].pr = run[i].pr /\ run'[i].sha = run[i].sha /\ run'[i].batch = run[i].batch
      /\ run'[i].status = "complete" /\ run'[i].verdict = v
  BY <1>1, <1>2 DEF EngineTypeOK, Run
<1>5. \A j \in RunId : j # i => run'[j] = run[j]  BY <1>1 DEF EngineTypeOK
<1>6. RowSound'  BY <1>1, <1>4, <1>5 DEF RowSound, Exists, Running
<1>7. RowsKept  BY <1>4, <1>5 DEF RowsKept, Exists, Running
<1>8. NoneBegun  BY <1>4, <1>5 DEF NoneBegun, Running
<1> QED  BY <1>3, <1>4, <1>6, <1>7, <1>8 DEF RowsStep

LEMMA UpdateSound == ASSUME Inv, NEW r \in Req, Update(r) PROVE Inv'
<1> DEFINE i == First(req[r].todo)
           rec == [req[r] EXCEPT !.at = "read", !.todo = @ \ {i}, !.made = @ \cup {i}]
<1>1. EngineTypeOK /\ RequestSound(r) /\ At(r, "update")  BY InvParts DEF Update
<1>2. req[r] \in Request  BY <1>1 DEF EngineTypeOK
<1>3. OtherTypes' /\ fed \subseteq fed' /\ spent \subseteq spent'
  BY OthersSame DEF Update
<1>4. CASE ~Running(i)  BY <1>3, <1>4, RowsSame, Ends DEF Update
<1>5. CASE Running(i)
  <2>1. i \in RunId  BY <1>1, <1>2, FirstRun DEF Request, RequestSound, At
  <2>2. /\ run' = [run EXCEPT ![i].status = "complete", ![i].verdict = req[r].says[i]]
        /\ req' = [req EXCEPT ![r] = rec] /\ lock' = lock
    BY <1>5 DEF Update
  <2> HIDE DEF i
  <2>3. req[r].says[i] \in {"approved", "changes_requested"}  BY <1>2, <2>1 DEF Request
  <2>4. RowsStep(r) /\ run'[i].status = "complete" /\ run'[i].verdict = req[r].says[i]
    BY <1>5, <2>1, <2>2, <2>3, RowCompleted
  <2>5. /\ rec \in Request /\ rec.at = "read" /\ rec.made = req[r].made \cup {i}
        /\ rec.says = req[r].says
    BY <1>2, <2>1 DEF Request, Places, SubmitPlaces
  <2> HIDE DEF rec
  <2>6. req'[r] = rec  BY <1>1, <2>2 DEF EngineTypeOK
  <2>7. \A j \in req[r].made : /\ run[j].status \in {"complete", "delivered"}
                               /\ run[j].verdict = req[r].says[j] /\ j \in RunId
    BY <1>1, <1>2 DEF RequestSound, At, SubmitPlaces, Request
  <2>8. RequestSound(r)'
    BY <2>4, <2>5, <2>6, <2>7 DEF RequestSound, RowsStep, RowsKept, At, TriggerPlaces
  <2> QED  BY <1>3, <2>2, <2>4, <2>5, <2>8, Moves
<1> QED  BY <1>4, <1>5

LEMMA ReadHeadsSound == ASSUME Inv, NEW r \in Req, ReadHeads(r) PROVE Inv'
<1> DEFINE due == {i \in req[r].made :
                     req[r].says[i] = "changes_requested" /\ head[run[i].pr] = run[i].sha}
           rec == [req[r] EXCEPT !.at = "apply", !.todo = due, !.made = {}]
<1>1. EngineTypeOK /\ RequestSound(r) /\ At(r, "heads")  BY InvParts DEF ReadHeads
<1>2. req[r] \in Request  BY <1>1 DEF EngineTypeOK
<1>3. OtherTypes' /\ fed \subseteq fed' /\ spent \subseteq spent'
  BY OthersSame DEF ReadHeads
<1>4. RowsStep(r) /\ UNCHANGED run  BY RowsSame DEF ReadHeads
<1>5. CASE due = {}  BY <1>3, <1>4, <1>5, Ends DEF ReadHeads
<1>6. CASE due # {}
  <2>1. req' = [req EXCEPT ![r] = rec] /\ lock' = lock  BY <1>6 DEF ReadHeads
  <2>2. rec \in Request /\ rec.at = "apply" /\ rec.todo = due /\ rec.made = {}
    BY <1>2 DEF Request, Places, SubmitPlaces
  <2>3. \A i \in due : run[i].status \in {"complete", "delivered"} /\ run[i].verdict = "changes_requested"
    BY <1>1 DEF RequestSound, At, SubmitPlaces
  <2> HIDE DEF rec, due
  <2>4. req'[r] = rec  BY <1>1, <2>1 DEF EngineTypeOK
  <2>5. RequestSound(r)'
    BY <1>4, <1>6, <2>2, <2>3, <2>4 DEF RequestSound, At, TriggerPlaces
  <2> QED  BY <1>3, <1>4, <2>1, <2>2, <2>5, Moves
<1> QED  BY <1>5, <1>6

\* The steps of a submission that keep what it has in hand.
LEMMA SendSound ==
  ASSUME Inv, NEW r \in Req, Apply(r) \/ SendAccounted(r) \/ SendPaste(r) \/ SendPersists(r)
  PROVE  Inv'
<1>1. EngineTypeOK /\ RequestSound(r)  BY InvParts
<1>2. req[r] \in Request  BY <1>1 DEF EngineTypeOK
<1>3. OtherTypes'
  BY <1>1, <1>2 DEF Apply, SendAccounted, SendPaste, SendPersists, EngineTypeOK, OtherTypes,
     prVars, paneVars, faultVars, Request
<1>4. fed \subseteq fed' /\ spent \subseteq spent'
  BY DEF Apply, SendAccounted, SendPaste, SendPersists
<1>5. RowsStep(r) /\ UNCHANGED run
  BY RowsSame DEF Apply, SendAccounted, SendPaste, SendPersists
<1>6. CASE Returns(r)  BY <1>3, <1>4, <1>5, <1>6, Ends
<1>7. CASE ~Returns(r)
  <2>1. PICK place \in {"send", "persist", "deliver"} :
          Goes(r, place) /\ UNCHANGED lock
    BY <1>7 DEF Apply, SendAccounted, SendPaste, SendPersists
  <2>2. req[r].at \in {"apply", "send", "persist"}
    BY DEF Apply, SendAccounted, SendPaste, SendPersists, At
  <2>3. /\ req'[r].at = place /\ req'[r].todo = req[r].todo /\ req'[r].made = req[r].made
        /\ req'[r].says = req[r].says
    BY <1>1, <1>2, <2>1 DEF EngineTypeOK, Request, Goes
  <2>4. /\ req[r].todo # {}
        /\ \A i \in req[r].todo : run[i].status \in {"complete", "delivered"}
                                  /\ run[i].verdict = "changes_requested"
        /\ \A i \in req[r].made : run[i].status \in {"complete", "delivered"}
                                  /\ run[i].verdict = req[r].says[i]
    BY <1>1, <2>2 DEF RequestSound, SubmitPlaces
  <2>5. RequestSound(r)'
    BY <1>5, <2>1, <2>3, <2>4 DEF RequestSound, At, TriggerPlaces
  <2> QED  BY <1>3, <1>4, <1>5, <2>1, <2>5, Goto DEF Places, SubmitPlaces
<1> QED  BY <1>6, <1>7

LEMMA MarkDeliveredSound == ASSUME Inv, NEW r \in Req, MarkDelivered(r) PROVE Inv'
<1> DEFINE i == First(req[r].todo)
           rec == [req[r] EXCEPT !.todo = @ \ {i}]
<1>1. EngineTypeOK /\ RowSound /\ RequestSound(r) /\ At(r, "deliver")
  BY InvParts DEF MarkDelivered, Inv
<1>2. req[r] \in Request  BY <1>1 DEF EngineTypeOK
<1>3. OtherTypes' /\ fed \subseteq fed' /\ spent \subseteq spent'
  BY OthersSame DEF MarkDelivered
<1>4. CASE req[r].todo = {}  BY <1>3, <1>4, RowsSame, Ends DEF MarkDelivered
<1>5. CASE req[r].todo # {}
  <2>1. i \in RunId  BY <1>2, <1>5, FirstRun DEF Request
  <2>2. /\ run' = IF run[i].status = "complete" THEN [run EXCEPT ![i].status = "delivered"] ELSE run
        /\ req' = [req EXCEPT ![r] = rec] /\ lock' = lock
    BY <1>5 DEF MarkDelivered
  <2> HIDE DEF i
  <2>3. /\ rec \in Request /\ rec.at = "deliver" /\ rec.made = req[r].made
        /\ rec.says = req[r].says /\ rec.todo \subseteq req[r].todo
    BY <1>1, <1>2 DEF Request, At
  <2> HIDE DEF rec
  <2>4. \A j \in RunId : /\ run'[j].pr = run[j].pr /\ run'[j].sha = run[j].sha
                         /\ run'[j].batch = run[j].batch /\ run'[j].verdict = run[j].verdict
                         /\ run'[j].status = IF j = i /\ run[j].status = "complete"
                                             THEN "delivered" ELSE run[j].status
    BY <1>1, <2>2 DEF EngineTypeOK, Run
  <2>5. run' \in [RunId -> Run]
    <3>1. run[i] \in Run  BY <1>1, <2>1 DEF EngineTypeOK
    <3>2. [run[i] EXCEPT !.status = "delivered"] \in Run  BY <3>1 DEF Run
    <3> QED  BY <1>1, <2>1, <2>2, <3>2 DEF EngineTypeOK
  <2>6. RowsStep(r)
    BY <1>1, <2>4, <2>5 DEF RowsStep, RowSound, RowsKept, NoneBegun, Exists, Running
  <2>7. req'[r] = rec  BY <1>1, <2>2 DEF EngineTypeOK
  <2>8. \A j \in req[r].made \cup req[r].todo : j \in RunId  BY <1>2 DEF Request
  <2>9. /\ \A j \in req[r].todo : run[j].status \in {"complete", "delivered"}
                                  /\ run[j].verdict = "changes_requested"
        /\ \A j \in req[r].made : run[j].status \in {"complete", "delivered"}
                                  /\ run[j].verdict = req[r].says[j]
    BY <1>1 DEF RequestSound, SubmitPlaces, At
  <2>10. RequestSound(r)'
    BY <2>3, <2>4, <2>7, <2>8, <2>9 DEF RequestSound, At, TriggerPlaces
  <2> QED  BY <1>3, <2>2, <2>3, <2>6, <2>10, Moves
<1> QED  BY <1>4, <1>5

-----------------------------------------------------------------------------
(* The environment, and all steps.                                         *)

LEMMA RequestsSame ==
  ASSUME Inv, UNCHANGED <<run, lock, req>>, OtherTypes' PROVE Inv'
<1>1. EngineTypeOK'  BY DEF Inv, EngineTypeOK, OtherTypes
<1>2. RowSound' /\ PlaceSound' /\ LockSound' /\ SubmitSound'
  BY DEF Inv, RowSound, PlaceSound, LockSound, SubmitSound, Exists, Running, At, First
<1> QED  BY <1>1, <1>2 DEF Inv

LEMMA TurnsSound ==
  ASSUME Inv, \/ \E p \in Pr : Push(p) \/ Settle(p)
              \/ SessionMoves \/ PaneDies
  PROVE  Inv'
<1>1. EngineTypeOK  BY DEF Inv
<1>2. UNCHANGED <<run, lock, req>>
  BY DEF Push, Settle, SessionMoves, PaneDies, engineVars
<1>3. OtherTypes'
  <2>1. ASSUME NEW p \in Pr, Push(p) PROVE OtherTypes'
    BY <1>1, <2>1, Counters DEF Push, EngineTypeOK, OtherTypes, engineVars, paneVars
  <2>2. ASSUME NEW p \in Pr, Settle(p) PROVE OtherTypes'
    BY <1>1, <2>2, Counters DEF Settle, EngineTypeOK, OtherTypes, engineVars, paneVars
  <2>3. CASE SessionMoves
    BY <1>1, <2>3, Counters DEF SessionMoves, EngineTypeOK, OtherTypes, engineVars, paneVars, prVars
  <2>4. CASE PaneDies
    BY <1>1, <2>4, Counters DEF PaneDies, EngineTypeOK, OtherTypes, engineVars, prVars
  <2> QED  BY <2>1, <2>2, <2>3, <2>4
<1> QED  BY <1>2, <1>3, RequestsSame

LEMMA DaemonStopsSound == ASSUME Inv, DaemonStops PROVE Inv'
<1>1. EngineTypeOK /\ RowSound  BY DEF Inv
<1>2. NoReq \in Request  BY DEF NoReq, Request, Places, SomeOpinion
<1>3. req' = [r \in Req |-> NoReq] /\ lock' = {} /\ UNCHANGED run  BY DEF DaemonStops
<1>4. OtherTypes'
  BY <1>1, Counters DEF DaemonStops, EngineTypeOK, OtherTypes, prVars, paneVars
<1>5. EngineTypeOK'  BY <1>1, <1>2, <1>3, <1>4 DEF EngineTypeOK, OtherTypes
<1>6. \A r \in Req : req'[r].at = "idle"  BY <1>3 DEF NoReq
<1>7. PlaceSound' /\ LockSound' /\ SubmitSound'
  BY <1>6 DEF PlaceSound, LockSound, SubmitSound, At, TriggerPlaces, SubmitPlaces
<1> QED  BY <1>1, <1>3, <1>5, <1>7 DEF Inv, RowSound, Exists

LEMMA InitSound == Init => Inv
<1> SUFFICES ASSUME Init PROVE Inv  OBVIOUS
<1>1. NoReq \in Request /\ NoReq.at = "idle"  BY DEF NoReq, Request, Places, SomeOpinion
<1>2. NoRun \in Run  BY DEF NoRun, Run
<1>3. EngineTypeOK
  <2>1. head \in [Pr -> Sha]  BY ReviewAssumption DEF Init, ReviewAssumption
  <2>2. run \in [RunId -> Run] /\ req \in [Req -> Request]  BY <1>1, <1>2 DEF Init
  <2>3. starts \in 0..MaxStarts /\ turns \in 0..MaxTurns /\ faults \in 0..MaxFaults
    BY ReviewAssumption DEF Init, ReviewAssumption
  <2> QED  BY <2>1, <2>2, <2>3 DEF Init, EngineTypeOK
<1>4. \A r \in Req : req[r].at = "idle"  BY <1>1 DEF Init
<1>5. \A i \in RunId : ~Exists(i) /\ ~Running(i)  BY DEF Init, Exists, Running, NoRun
<1> QED
  BY <1>3, <1>4, <1>5 DEF Inv, RowSound, PlaceSound, LockSound, SubmitSound, At, TriggerPlaces,
     SubmitPlaces

LEMMA NextSound == Inv /\ [Next]_vars => Inv'
<1> SUFFICES ASSUME Inv, [Next]_vars PROVE Inv'  OBVIOUS
<1>1. ASSUME NEW r \in Req, Starts(r) PROVE Inv'
  BY <1>1, TriggerStartsSound, CancelSound, SubmitStartsSound DEF Starts
<1>2. ASSUME NEW r \in Req, Trigger(r) PROVE Inv'
  BY <1>2, TriggerPlansSound, SupersedeSound, InsertSound, PaneSound, GivenUp, FailRunSound
     DEF Trigger
<1>3. ASSUME NEW r \in Req, Cancel(r) PROVE Inv'  BY <1>3, CancelSound DEF Cancel
<1>4. ASSUME NEW r \in Req, Submit(r) PROVE Inv'
  BY <1>4, ReadRunSound, UpdateSound, ReadHeadsSound, SendSound, GivenUp, MarkDeliveredSound
     DEF Submit
<1>5. ASSUME NEW r \in Req, Fails(r) PROVE Inv'  BY <1>5, PaneSound, GivenUp DEF Fails
<1>6. CASE \/ \E p \in Pr : Push(p) \/ Settle(p)
           \/ SessionMoves \/ PaneDies
  BY <1>6, TurnsSound
<1>7. CASE DaemonStops  BY <1>7, DaemonStopsSound
<1>8. CASE UNCHANGED vars
  <2>1. OtherTypes'
    BY <1>8 DEF vars, prVars, paneVars, engineVars, faultVars, Inv, EngineTypeOK, OtherTypes
  <2> QED  BY <1>8, <2>1, RequestsSame DEF vars, engineVars
<1> QED  BY <1>1, <1>2, <1>3, <1>4, <1>5, <1>6, <1>7, <1>8 DEF Next

LEMMA InvHolds == Spec => []Inv
  BY InitSound, NextSound, PTL DEF Spec

-----------------------------------------------------------------------------
(* The deliveries go through the nudge pipe.                               *)

Pipe == INSTANCE SendOnceProofs WITH
  Kind <- RunId, Sig <- (SUBSET RunId) \ {{}}, NoSig <- {}, MaxNudge <- [b \in RunId |-> 3]

LEMMA PipeAssumption ==
  /\ {} \notin (SUBSET RunId) \ {{}}
  /\ [b \in RunId |-> 3] \in [RunId -> Nat]
  OBVIOUS

\* What a submission sends is keyed by one of its pull requests and batches.
LEMMA SendKeyed ==
  ASSUME Inv, NEW r \in Req, At(r, "send")
  PROVE  /\ Anchor(req[r].todo) \in Pr /\ Batch(req[r].todo) \in RunId
         /\ req[r].todo \in (SUBSET RunId) \ {{}}
<1> DEFINE some == req[r].todo
<1>1. EngineTypeOK /\ RowSound /\ RequestSound(r)  BY InvParts DEF Inv
<1>2. some \in SUBSET RunId /\ some # {}
  BY <1>1 DEF EngineTypeOK, Request, RequestSound, At
<1>3. \A i \in some : Exists(i)  BY <1>1 DEF RequestSound, At, Exists
<1>4. First(some) \in some  BY <1>2, FirstRun
<1>5. {run[i].pr : i \in some} \in SUBSET Pr /\ {run[i].pr : i \in some} # {}
  BY <1>1, <1>2, <1>3 DEF RowSound
<1>6. First({run[i].pr : i \in some}) \in Pr  BY <1>5, FirstPr
<1>7. run[First(some)].batch \in RunId  BY <1>1, <1>2, <1>3, <1>4 DEF RowSound
<1> QED  BY <1>2, <1>6, <1>7 DEF Anchor, Batch

LEMMA StepNudges == ASSUME Inv, [Next]_vars PROVE [Nudge!NudgeNext]_(Nudge!nudgeVars)
<1> USE DEF Nudge!nudgeVars
<1>1. ASSUME NEW r \in Req,
             SendAccounted(r) \/ SendSuppressed(r) \/ SendPaste(r) \/ SendFails(r)
      PROVE  Nudge!NudgeNext
  <2>1. At(r, "send")  BY <1>1 DEF SendAccounted, SendSuppressed, SendPaste, SendFails
  <2> DEFINE p == Anchor(req[r].todo)
             b == Batch(req[r].todo)
             some == req[r].todo
  <2>2. p \in Pr /\ b \in RunId /\ some \in (SUBSET RunId) \ {{}}  BY <2>1, SendKeyed
  <2>3. \/ Nudge!SkipAccounted(p, b, some) \/ Nudge!Suppressed(p, b, some)
        \/ Nudge!Paste(p, b, some) \/ Nudge!NotRead(p, b, some) \/ Nudge!PasteFails(p, b, some)
    BY <1>1 DEF SendAccounted, SendSuppressed, SendPaste, SendFails
  <2> HIDE DEF p, b, some
  <2> QED  BY <2>2, <2>3 DEF Nudge!NudgeNext
<1>2. ASSUME NEW r \in Req, SendPersists(r) \/ SendNotPersisted(r) PROVE Nudge!NudgeNext
  BY <1>2 DEF SendPersists, SendNotPersisted, Nudge!NudgeNext
<1>3. ASSUME NEW r \in Req, Starts(r) \/ Trigger(r) \/ Cancel(r) PROVE UNCHANGED nudgeVars
  BY <1>3 DEF Starts, Trigger, Cancel, TriggerStarts, CancelStarts, SubmitStarts, TriggerPlans,
     Supersede, Insert, Probe, Spawn, Notify, Record, FailRun, Interrupt, MarkCancelled
<1>4. ASSUME NEW r \in Req,
             \/ ReadRun(r) \/ Update(r) \/ ReadHeads(r) \/ Apply(r) \/ MarkDelivered(r)
             \/ InsertFails(r) \/ PaneFails(r) \/ WriteFails(r) \/ CancelFails(r) \/ SubmitFails(r)
      PROVE  UNCHANGED nudgeVars
  BY <1>4 DEF ReadRun, Update, ReadHeads, Apply, MarkDelivered, InsertFails, PaneFails,
     WriteFails, CancelFails, SubmitFails
<1>5. ASSUME NEW p \in Pr, Push(p) \/ Settle(p) PROVE UNCHANGED nudgeVars
  BY <1>5 DEF Push, Settle
<1>6. CASE SessionMoves  BY <1>6 DEF SessionMoves, Nudge!NudgeNext
<1>7. CASE PaneDies  BY <1>7 DEF PaneDies, nudgeVars
<1>8. CASE DaemonStops  BY <1>8 DEF DaemonStops, Nudge!NudgeNext
<1>9. CASE UNCHANGED vars  BY <1>9 DEF vars, nudgeVars
<1> QED
  BY <1>1, <1>2, <1>3, <1>4, <1>5, <1>6, <1>7, <1>8, <1>9
     DEF Next, Submit, Fails, nudgeVars

LEMMA ImplementsNudge == Spec => Nudge!NudgeSpec
<1>1. Init => Nudge!NudgeInit  BY DEF Init
<1>2. Inv /\ [Next]_vars => [Nudge!NudgeNext]_(Nudge!nudgeVars)  BY StepNudges
<1> QED  BY <1>1, <1>2, InvHolds, PTL DEF Spec, Nudge!NudgeSpec

\* The pipe of the theorems is the pipe of the module.
LEMMA PipeIsNudge ==
  /\ Nudge!NudgeInit => Pipe!NudgeInit
  /\ [Nudge!NudgeNext]_(Nudge!nudgeVars) => [Pipe!NudgeNext]_(Pipe!nudgeVars)
<1> USE DEF Nudge!nudgeVars, Pipe!nudgeVars
<1>1. Nudge!NudgeInit => Pipe!NudgeInit
  BY DEF Nudge!NudgeInit, Pipe!NudgeInit, Nudge!NoRecord, Pipe!NoRecord
<1>2. \A p : Nudge!Loaded(p) = Pipe!Loaded(p)
  BY DEF Nudge!Loaded, Pipe!Loaded, Nudge!Merged, Pipe!Merged
<1>3. \A p, k, sig : Nudge!Accounted(p, k, sig) <=> Pipe!Accounted(p, k, sig)
  BY <1>2 DEF Nudge!Accounted, Pipe!Accounted
<1>4. \A p : Nudge!Load(p) <=> Pipe!Load(p)
  BY <1>2 DEF Nudge!Load, Pipe!Load
<1>5. \A p, k, sig :
        /\ Nudge!SkipAccounted(p, k, sig) => Pipe!SkipAccounted(p, k, sig)
        /\ Nudge!Suppressed(p, k, sig) => Pipe!Suppressed(p, k, sig)
        /\ Nudge!NotRead(p, k, sig) => Pipe!NotRead(p, k, sig)
        /\ Nudge!PasteFails(p, k, sig) => Pipe!PasteFails(p, k, sig)
  BY <1>3, <1>4 DEF Nudge!SkipAccounted, Pipe!SkipAccounted, Nudge!Suppressed, Pipe!Suppressed,
     Nudge!NotRead, Pipe!NotRead, Nudge!PasteFails, Pipe!PasteFails
<1>6. ASSUME NEW p, NEW k, NEW sig, Nudge!Paste(p, k, sig) PROVE Pipe!Paste(p, k, sig)
  <2>1. Nudge!Loaded(p) = Pipe!Loaded(p)  BY <1>2
  <2>2. \A n : Nudge!Counted(k, n) = Pipe!Counted(k, n)  BY DEF Nudge!Counted, Pipe!Counted
  <2>3. record' = [record EXCEPT ![p] = [Nudge!Loaded(p) EXCEPT ![k] =
                    [sig |-> sig, attempts |-> Nudge!Counted(k, Nudge!Loaded(p)[k].attempts)]]]
    BY <1>6, Zenon DEF Nudge!Paste
  <2>4. record' = [record EXCEPT ![p] = [Pipe!Loaded(p) EXCEPT ![k] =
                    [sig |-> sig, attempts |-> Pipe!Counted(k, Pipe!Loaded(p)[k].attempts)]]]
    BY <2>1, <2>2, <2>3, Zenon
  <2>5. ~Pipe!Accounted(p, k, sig)  BY <1>3, <1>6, Zenon DEF Nudge!Paste
  <2> QED  BY <1>6, <2>4, <2>5, Zenon DEF Nudge!Paste, Pipe!Paste
<1>7. /\ Nudge!Persist => Pipe!Persist
      /\ Nudge!PersistFails => Pipe!PersistFails
      /\ Nudge!ForgetNudges => Pipe!ForgetNudges
      /\ \A to : Nudge!SessionMoves(to) => Pipe!SessionMoves(to)
  BY DEF Nudge!Persist, Pipe!Persist, Nudge!PersistFails, Pipe!PersistFails,
     Nudge!ForgetNudges, Pipe!ForgetNudges, Nudge!NoRecord, Pipe!NoRecord,
     Nudge!SessionMoves, Pipe!SessionMoves
<1>8. Nudge!NudgeNext => Pipe!NudgeNext
  BY <1>5, <1>6, <1>7 DEF Nudge!NudgeNext, Pipe!NudgeNext
<1> QED  BY <1>1, <1>8

LEMMA ImplementsPipe == Spec => Pipe!NudgeSpec
  BY PipeIsNudge, ImplementsNudge, PTL DEF Nudge!NudgeSpec, Pipe!NudgeSpec

\* The types of the whole state, the pipe's included.
THEOREM SpecTypes == Spec => []TypeOK
<1>1. Pipe!NudgeSpec => []Pipe!NudgeTypeOK
  BY PipeAssumption, Pipe!NudgeTypesHold DEF Pipe!NudgeAssumption
<1>2. Inv /\ Pipe!NudgeTypeOK => TypeOK
  BY DEF Inv, TypeOK, Pipe!NudgeTypeOK, Nudge!NudgeTypeOK, Pipe!Record, Nudge!Record
<1> QED  BY <1>1, <1>2, ImplementsPipe, InvHolds, PTL

\* The worker is not told the same batch twice in a row: a theorem of the
\* pipe, which the engine only uses (sendOnce under one mutex).
THEOREM SpecNoRepeat == Spec => FeedbackNotRepeated
<1>1. Pipe!NudgeSpec => Pipe!NudgeNotRepeated
  BY PipeAssumption, Pipe!NoRepeat DEF Pipe!NudgeAssumption
<1>2. Pipe!NudgeNotRepeated => FeedbackNotRepeated
  BY PTL DEF FeedbackNotRepeated, Pipe!NudgeNotRepeated, Nudge!NudgeNotRepeated,
     Pipe!Pastes, Nudge!Pastes, Pipe!nudgeVars, Nudge!nudgeVars
<1> QED  BY <1>1, <1>2, ImplementsPipe, PTL

-----------------------------------------------------------------------------
(* The rows are a ledger.                                                  *)

\* The second layer: what is marked delivered was accounted for.
Inv2 == Inv /\ TypeOK /\ FedSound

\* Nothing that the pipe has on record is forgotten by the history.
LEMMA LoadedFed ==
  ASSUME TypeOK, FedSound, NEW p \in Pr, NEW b \in RunId
  PROVE  Nudge!Loaded(p)[b].sig \subseteq fed
<1>1. CASE p \in loaded  BY <1>1 DEF FedSound, Nudge!Loaded
<1>2. CASE p \notin loaded
  <2>1. Nudge!Loaded(p)[b].sig \in {record[p][b].sig, saved[p][b].sig}
    BY <1>2 DEF Nudge!Loaded, Nudge!Merged
  <2> QED  BY <2>1 DEF FedSound
<1> QED  BY <1>1, <1>2

RecordFed == \A p \in Pr, b \in RunId : record[p][b].sig \cup saved[p][b].sig \subseteq fed

LEMMA LoadFed ==
  ASSUME TypeOK, FedSound, NEW p \in Pr, Nudge!Load(p), UNCHANGED saved, fed \subseteq fed'
  PROVE  RecordFed'
<1>1. \A b \in RunId : Nudge!Loaded(p)[b].sig \subseteq fed  BY LoadedFed
<1>2. record' = [record EXCEPT ![p] = Nudge!Loaded(p)]  BY DEF Nudge!Load
<1>3. record \in [Pr -> [RunId -> Nudge!Record]]  BY DEF TypeOK, Nudge!NudgeTypeOK
<1>4. \A q \in Pr, b \in RunId : record'[q][b].sig \subseteq fed
  BY <1>1, <1>2, <1>3 DEF FedSound
<1> QED  BY <1>4 DEF RecordFed, FedSound

\* What a request is about to mark was accounted for.
Owed(r) ==
  /\ At(r, "persist") => req[r].todo \subseteq fed
  /\ At(r, "deliver") => req[r].todo \subseteq fed \cup spent

LEMMA FedParts == FedSound <=> RecordFed /\ \A r \in Req : Owed(r)
  BY DEF FedSound, RecordFed, Owed

LEMMA OwedOthers ==
  ASSUME Inv2, NEW r \in Req, \A q \in Req \ {r} : req'[q] = req[q],
         fed \subseteq fed', spent \subseteq spent', Owed(r)', RecordFed'
  PROVE  FedSound'
<1>1. \A q \in Req : Owed(q)  BY FedParts DEF Inv2
<1>2. \A q \in Req : Owed(q)'  BY <1>1 DEF Owed, At
<1> QED  BY <1>2, FedParts DEF FedSound, RecordFed, Owed

\* A step that neither sends nor saves, and marks nothing.
LEMMA OwedNothing ==
  ASSUME Inv2, NEW r \in Req, NEW rec, req' = [req EXCEPT ![r] = rec],
         rec.at \notin {"persist", "deliver"}, UNCHANGED <<nudgeVars, fed, spent>>
  PROVE  FedSound'
<1>1. req \in [Req -> Request]  BY DEF Inv2, TypeOK, EngineTypeOK
<1>2. \A q \in Req \ {r} : req'[q] = req[q]  BY <1>1
<1>3. Owed(r)'  BY <1>1 DEF Owed, At
<1>4. RecordFed'  BY DEF Inv2, FedSound, RecordFed, nudgeVars
<1> QED  BY <1>2, <1>3, <1>4, OwedOthers

LEMMA ReturnsOwed ==
  ASSUME Inv2, NEW r \in Req, Returns(r), UNCHANGED <<nudgeVars, fed, spent>>
  PROVE  FedSound'
<1>1. NoReq.at \notin {"persist", "deliver"}  BY DEF NoReq
<1> QED  BY <1>1, OwedNothing DEF Returns

LEMMA GoesOwed ==
  ASSUME Inv2, NEW r \in Req, NEW place, place \notin {"persist", "deliver"}, Goes(r, place),
         UNCHANGED <<nudgeVars, fed, spent>>
  PROVE  FedSound'
<1> DEFINE rec == [req[r] EXCEPT !.at = place]
<1>1. req' = [req EXCEPT ![r] = rec]  BY DEF Goes
<1>2. rec.at = place  BY DEF Inv2, TypeOK, EngineTypeOK, Request
<1> HIDE DEF rec
<1> QED  BY <1>1, <1>2, OwedNothing

LEMMA QuietFed ==
  ASSUME Inv2, NEW r \in Req,
         \/ Starts(r) \/ Trigger(r) \/ Cancel(r)
         \/ ReadRun(r) \/ Update(r) \/ ReadHeads(r) \/ Apply(r)
         \/ InsertFails(r) \/ PaneFails(r) \/ WriteFails(r) \/ CancelFails(r) \/ SubmitFails(r)
  PROVE  FedSound'
<1>1. req \in [Req -> Request] /\ req[r] \in Request  BY DEF Inv2, TypeOK, EngineTypeOK
<1>2. CASE Returns(r) /\ UNCHANGED <<nudgeVars, fed, spent>>  BY <1>2, ReturnsOwed
<1>3. CASE (\E place \in Places \ {"persist", "deliver"} : Goes(r, place))
           /\ UNCHANGED <<nudgeVars, fed, spent>>
  BY <1>3, GoesOwed
<1>4. CASE TriggerStarts(r)
  <2> DEFINE rec == [NoReq EXCEPT !.at = "plan",
                       !.view = [p \in Pr |-> IF p \in open THEN head[p] ELSE 0]]
  <2>1. req' = [req EXCEPT ![r] = rec] /\ UNCHANGED <<nudgeVars, fed, spent>>
    BY <1>4 DEF TriggerStarts
  <2>2. rec.at = "plan"  BY DEF NoReq
  <2> HIDE DEF rec
  <2> QED  BY <2>1, <2>2, OwedNothing
<1>5. CASE SubmitStarts(r)
  <2>1. PICK some, o : req' = [req EXCEPT ![r] = [NoReq EXCEPT !.at = "read", !.todo = some, !.says = o]]
    BY <1>5 DEF SubmitStarts
  <2> DEFINE rec == [NoReq EXCEPT !.at = "read", !.todo = some, !.says = o]
  <2>2. rec.at = "read"  BY DEF NoReq
  <2>3. req' = [req EXCEPT ![r] = rec] /\ UNCHANGED <<nudgeVars, fed, spent>>
    BY <1>5, <2>1 DEF SubmitStarts
  <2> HIDE DEF rec
  <2> QED  BY <2>2, <2>3, OwedNothing
<1>6. CASE TriggerPlans(r) /\ ~Returns(r)
  <2> DEFINE due == {p \in Pr : req[r].view[p] # 0 /\ NeedsReview(p, req[r].view[p])}
             rec == [req[r] EXCEPT !.at = "supersede", !.prs = due]
  <2>1. req' = [req EXCEPT ![r] = rec] /\ UNCHANGED <<nudgeVars, fed, spent>>
    BY <1>6 DEF TriggerPlans
  <2>2. rec.at = "supersede"  BY <1>1 DEF Request
  <2> HIDE DEF rec
  <2> QED  BY <2>1, <2>2, OwedNothing
<1>7. CASE Insert(r) /\ ~Returns(r)
  <2>1. PICK rest, made : NextPr(r, rest, made)  BY <1>7 DEF Insert
  <2> DEFINE rec == [req[r] EXCEPT !.at = IF rest = {} THEN "alive" ELSE "supersede",
                                   !.prs = rest, !.made = made]
  <2>2. req' = [req EXCEPT ![r] = rec]  BY <1>7, <2>1 DEF NextPr
  <2>3. rec.at \in {"alive", "supersede"}  BY <1>1 DEF Request
  <2>4. UNCHANGED <<nudgeVars, fed, spent>>  BY <1>7 DEF Insert
  <2> HIDE DEF rec
  <2> QED  BY <2>2, <2>3, <2>4, OwedNothing
<1>8. CASE FailRun(r) /\ ~Returns(r)
  <2> DEFINE i == First(req[r].made)
             rec == [req[r] EXCEPT !.made = @ \ {i}]
  <2>1. req' = [req EXCEPT ![r] = rec] /\ UNCHANGED <<nudgeVars, fed, spent>>
    BY <1>8 DEF FailRun
  <2>2. rec.at = "fail"  BY <1>1, <1>8 DEF Request, FailRun, At
  <2> HIDE DEF rec
  <2> QED  BY <2>1, <2>2, OwedNothing
<1>9. CASE ReadRun(r) /\ ~Returns(r) /\ ~Goes(r, "heads") /\ ~Goes(r, "update")
  <2> DEFINE i == First(req[r].todo)
  <2>1. \/ req' = [[req EXCEPT ![r].todo = @ \ {i}] EXCEPT ![r].made = @ \cup {i}]
        \/ req' = [req EXCEPT ![r].todo = @ \ {i}]
    BY <1>9 DEF ReadRun
  <2> HIDE DEF i
  <2>2. req'[r].at = "read" /\ \A q \in Req \ {r} : req'[q] = req[q]
    BY <1>1, <1>9, <2>1 DEF ReadRun, At, Request
  <2>3. UNCHANGED <<nudgeVars, fed, spent>>  BY <1>9 DEF ReadRun
  <2>4. RecordFed'  BY <2>3 DEF Inv2, FedSound, RecordFed, nudgeVars
  <2>5. Owed(r)'  BY <2>2 DEF Owed, At
  <2> QED  BY <2>2, <2>3, <2>4, <2>5, OwedOthers
<1>10. CASE Update(r) /\ ~Returns(r)
  <2> DEFINE i == First(req[r].todo)
             rec == [req[r] EXCEPT !.at = "read", !.todo = @ \ {i}, !.made = @ \cup {i}]
  <2>1. req' = [req EXCEPT ![r] = rec] /\ UNCHANGED <<nudgeVars, fed, spent>>
    BY <1>10 DEF Update
  <2>2. rec.at = "read"  BY <1>1 DEF Request
  <2> HIDE DEF rec
  <2> QED  BY <2>1, <2>2, OwedNothing
<1>11. CASE ReadHeads(r) /\ ~Returns(r)
  <2> DEFINE due == {i \in req[r].made :
                       req[r].says[i] = "changes_requested" /\ head[run[i].pr] = run[i].sha}
             rec == [req[r] EXCEPT !.at = "apply", !.todo = due, !.made = {}]
  <2>1. req' = [req EXCEPT ![r] = rec] /\ UNCHANGED <<nudgeVars, fed, spent>>
    BY <1>11 DEF ReadHeads
  <2>2. rec.at = "apply"  BY <1>1 DEF Request
  <2> HIDE DEF rec
  <2> QED  BY <2>1, <2>2, OwedNothing
<1>12. CASE Supersede(r) \/ Probe(r) \/ Spawn(r) \/ Notify(r) \/ PaneFails(r)
  <2>1. UNCHANGED <<nudgeVars, fed, spent>>
    BY <1>12 DEF Supersede, Probe, Spawn, Notify, PaneFails
  <2>2. \E place \in {"insert", "notify", "spawn", "record", "fail"} : Goes(r, place)
    BY <1>12 DEF Supersede, Probe, Spawn, Notify, PaneFails, Asks
  <2> QED  BY <2>1, <2>2, GoesOwed
<1>13. CASE CancelStarts(r) \/ Interrupt(r)
  <2>1. UNCHANGED <<nudgeVars, fed, spent>> /\ \E place \in {"interrupt", "mark"} : Goes(r, place)
    BY <1>13 DEF CancelStarts, Interrupt
  <2> QED  BY <2>1, GoesOwed
<1>14. CASE Apply(r)
  <2>1. UNCHANGED <<nudgeVars, fed, spent>> /\ (Goes(r, "send") \/ Returns(r))
    BY <1>14 DEF Apply
  <2> QED  BY <2>1, GoesOwed, ReturnsOwed
<1>15. CASE \/ InsertFails(r) \/ WriteFails(r) \/ CancelFails(r) \/ SubmitFails(r)
            \/ Record(r) \/ MarkCancelled(r)
  <2>1. UNCHANGED <<nudgeVars, fed, spent>> /\ Returns(r)
    BY <1>15 DEF InsertFails, WriteFails, CancelFails, SubmitFails, Record, MarkCancelled
  <2> QED  BY <2>1, ReturnsOwed
<1>16. ReadRun(r) /\ (Goes(r, "heads") \/ Goes(r, "update")) => FedSound'
  BY GoesOwed DEF ReadRun
<1>17. TriggerPlans(r) \/ Insert(r) \/ FailRun(r) \/ ReadRun(r) \/ Update(r) \/ ReadHeads(r)
       => UNCHANGED <<nudgeVars, fed, spent>>
  BY DEF TriggerPlans, Insert, FailRun, ReadRun, Update, ReadHeads
<1> QED
  BY <1>2, <1>4, <1>5, <1>6, <1>7, <1>8, <1>9, <1>10, <1>11, <1>12, <1>13, <1>14, <1>15, <1>16,
     <1>17 DEF Starts, Trigger, Cancel

LEMMA SendFed ==
  ASSUME Inv2, NEW r \in Req, Submit(r) \/ Fails(r),
         \/ SendAccounted(r) \/ SendSuppressed(r) \/ SendPaste(r) \/ SendFails(r)
         \/ SendPersists(r) \/ SendNotPersisted(r) \/ MarkDelivered(r)
  PROVE  FedSound'
<1> DEFINE some == req[r].todo
           p == Anchor(some)
           b == Batch(some)
<1>1. req \in [Req -> Request] /\ req[r] \in Request /\ TypeOK /\ FedSound
  BY DEF Inv2, TypeOK, EngineTypeOK
<1>2. /\ record \in [Pr -> [RunId -> Nudge!Record]] /\ saved \in [Pr -> [RunId -> Nudge!Record]]
      /\ RecordFed /\ Owed(r)
  BY <1>1, FedParts DEF TypeOK, Nudge!NudgeTypeOK
<1>3. At(r, "send") => p \in Pr /\ b \in RunId /\ some \in (SUBSET RunId) \ {{}}
  BY SendKeyed DEF Inv2
<1>4. Returns(r) => Owed(r)' /\ \A q \in Req \ {r} : req'[q] = req[q]
  BY <1>1 DEF Returns, NoReq, Owed, At
<1>5. \A place : Goes(r, place) => /\ req'[r].at = place /\ req'[r].todo = some
                                   /\ \A q \in Req \ {r} : req'[q] = req[q]
  BY <1>1 DEF Goes, Request
<1>6. CASE SendAccounted(r)
  <2>1. At(r, "send") /\ Nudge!SkipAccounted(p, b, some) /\ Goes(r, "deliver") /\ UNCHANGED fed
        /\ spent' = IF Nudge!Loaded(p)[b].sig = some THEN spent ELSE spent \cup some
    BY <1>6 DEF SendAccounted
  <2>2. Nudge!Loaded(p)[b].sig \subseteq fed  BY <1>1, <1>3, <2>1, LoadedFed
  <2>3. some \subseteq fed' \cup spent'  BY <2>1, <2>2
  <2>4. RecordFed'
    BY <1>1, <1>3, <2>1, LoadFed DEF Nudge!SkipAccounted
  <2> HIDE DEF p, b, some
  <2>5. Owed(r)'  BY <1>5, <2>1, <2>3 DEF Owed, At
  <2>6. fed \subseteq fed' /\ spent \subseteq spent'  BY <2>1
  <2> QED  BY <1>5, <2>1, <2>4, <2>5, <2>6, OwedOthers
<1>7. CASE SendSuppressed(r)
  <2>1. At(r, "send") /\ Nudge!Suppressed(p, b, some) /\ Returns(r) /\ UNCHANGED <<fed, spent>>
    BY <1>7 DEF SendSuppressed
  <2>2. RecordFed'
    BY <1>1, <1>3, <2>1, LoadFed DEF Nudge!Suppressed
  <2> QED  BY <1>4, <2>1, <2>2, OwedOthers
<1>8. CASE SendPaste(r)
  <2>1. /\ At(r, "send") /\ Nudge!Paste(p, b, some) /\ Goes(r, "persist")
        /\ fed' = fed \cup some /\ UNCHANGED spent
    BY <1>8 DEF SendPaste
  <2>2. \A k \in RunId : Nudge!Loaded(p)[k].sig \subseteq fed  BY <1>1, <1>3, <2>1, LoadedFed
  <2>3. record' = [record EXCEPT ![p] = [Nudge!Loaded(p) EXCEPT ![b] =
                     [sig |-> some, attempts |-> Nudge!Counted(b, @.attempts)]]]
        /\ UNCHANGED saved
    BY <2>1 DEF Nudge!Paste
  <2>4. Nudge!Loaded(p) = [k \in RunId |-> Nudge!Loaded(p)[k]]
    <3>1. p \in Pr  BY <1>3, <2>1
    <3> HIDE DEF p
    <3>2. CASE p \in loaded  BY <1>2, <3>1, <3>2 DEF Nudge!Loaded
    <3>3. CASE p \notin loaded  BY <3>3 DEF Nudge!Loaded
    <3> QED  BY <3>2, <3>3
  <2>5. \A k \in RunId : record'[p][k].sig = IF k = b THEN some ELSE Nudge!Loaded(p)[k].sig
    BY <1>2, <1>3, <2>1, <2>3, <2>4
  <2>6. \A q \in Pr : q # p => record'[q] = record[q]  BY <1>2, <2>3
  <2> HIDE DEF p, b, some
  <2>7. RecordFed'  BY <1>2, <2>1, <2>2, <2>3, <2>5, <2>6 DEF RecordFed
  <2>8. Owed(r)'  BY <1>5, <2>1 DEF Owed, At
  <2> QED  BY <1>5, <2>1, <2>7, <2>8, OwedOthers
<1>9. CASE SendFails(r)
  <2>1. /\ At(r, "send")
        /\ Nudge!NotRead(p, b, some) \/ Nudge!PasteFails(p, b, some)
        /\ Returns(r)
        /\ fed \subseteq fed' /\ UNCHANGED spent
    BY <1>9 DEF SendFails
  <2>2. UNCHANGED saved /\ (Nudge!Load(p) \/ UNCHANGED record)
    BY <2>1 DEF Nudge!NotRead, Nudge!PasteFails
  <2>3. CASE Nudge!Load(p)
    <3>1. At(r, "send")  BY <1>9 DEF SendFails
    <3>2. fed \subseteq fed'  BY <1>9 DEF SendFails
    <3>3. RecordFed'  BY <1>1, <1>3, <2>2, <2>3, <3>1, <3>2, LoadFed
    <3> QED  BY <1>4, <1>9, <3>2, <3>3, OwedOthers DEF SendFails
  <2>4. CASE UNCHANGED record
    <3>1. fed \subseteq fed'  BY <1>9 DEF SendFails
    <3>2. RecordFed'  BY <1>2, <2>2, <2>4, <3>1 DEF RecordFed
    <3> QED  BY <1>4, <1>9, <3>1, <3>2, OwedOthers DEF SendFails
  <2> QED  BY <2>2, <2>3, <2>4
<1>10. CASE SendPersists(r)
  <2>1. At(r, "persist") /\ Nudge!Persist /\ Goes(r, "deliver") /\ UNCHANGED <<fed, spent>>
    BY <1>10 DEF SendPersists
  <2>2. some \subseteq fed  BY <1>2, <2>1 DEF Owed
  <2>3. PICK q \in Pr : saved' = [saved EXCEPT ![q] = record[q]] /\ UNCHANGED record
    BY <2>1 DEF Nudge!Persist
  <2>4. RecordFed'  BY <1>2, <2>1, <2>3 DEF RecordFed
  <2> HIDE DEF some
  <2>5. Owed(r)'  BY <1>5, <2>1, <2>2 DEF Owed, At
  <2> QED  BY <1>5, <2>1, <2>4, <2>5, OwedOthers
<1>11. CASE SendNotPersisted(r)
  <2>1. Nudge!PersistFails /\ Returns(r) /\ UNCHANGED <<fed, spent>>
    BY <1>11 DEF SendNotPersisted
  <2>2. RecordFed'  BY <1>2, <2>1 DEF RecordFed, Nudge!PersistFails
  <2> QED  BY <1>4, <2>1, <2>2, OwedOthers
<1>12. CASE MarkDelivered(r)
  <2>1. At(r, "deliver") /\ UNCHANGED <<nudgeVars, fed, spent>>  BY <1>12 DEF MarkDelivered
  <2>2. RecordFed'  BY <1>2, <2>1 DEF RecordFed, nudgeVars
  <2>3. CASE Returns(r)  BY <1>4, <2>1, <2>2, <2>3, OwedOthers
  <2>4. CASE ~Returns(r)
    <3> DEFINE i == First(some)
               rec == [req[r] EXCEPT !.todo = @ \ {i}]
    <3>1. req' = [req EXCEPT ![r] = rec]  BY <1>12, <2>4 DEF MarkDelivered
    <3>2. rec.todo \subseteq some /\ rec.at = req[r].at  BY <1>1 DEF Request
    <3> HIDE DEF rec
    <3>3. req'[r] = rec /\ \A q \in Req \ {r} : req'[q] = req[q]  BY <1>1, <3>1
    <3>4. Owed(r)'  BY <1>2, <2>1, <3>2, <3>3 DEF Owed, At
    <3> QED  BY <2>1, <2>2, <3>3, <3>4, OwedOthers
  <2> QED  BY <2>3, <2>4
<1> QED  BY <1>6, <1>7, <1>8, <1>9, <1>10, <1>11, <1>12

LEMMA FedStep == ASSUME Inv2, [Next]_vars PROVE FedSound'
<1>1. req \in [Req -> Request]  BY DEF Inv2, TypeOK, EngineTypeOK
<1>2. ASSUME NEW r \in Req, Starts(r) \/ Trigger(r) \/ Cancel(r) \/ Submit(r) \/ Fails(r)
      PROVE FedSound'
  BY <1>2, QuietFed, SendFed DEF Submit, Fails
<1>3. CASE \/ \E p \in Pr : Push(p) \/ Settle(p)
           \/ SessionMoves \/ PaneDies \/ UNCHANGED vars
  <2>1. UNCHANGED <<req, record, saved, fed, spent>>
    BY <1>3 DEF Push, Settle, SessionMoves, PaneDies, engineVars, nudgeVars, vars, Nudge!SessionMoves
  <2> QED  BY <2>1 DEF Inv2, FedSound, At
<1>4. CASE DaemonStops
  <2>1. /\ req' = [r \in Req |-> NoReq] /\ UNCHANGED <<saved, fed, spent>>
        /\ record' = [p \in Pr |-> [b \in RunId |-> Nudge!NoRecord]]
    BY <1>4 DEF DaemonStops, Nudge!ForgetNudges
  <2>2. \A r \in Req : Owed(r)'  BY <2>1 DEF Owed, At, NoReq
  <2>3. RecordFed'  BY <2>1 DEF Inv2, FedSound, RecordFed, Nudge!NoRecord
  <2> QED  BY <2>2, <2>3 DEF FedSound, RecordFed, Owed
<1> QED  BY <1>2, <1>3, <1>4 DEF Next

LEMMA FedHolds == Spec => []FedSound
<1>1. Init => FedSound
  BY DEF Init, Nudge!NudgeInit, Nudge!NoRecord, FedSound, At, NoReq
<1>2. (Inv /\ TypeOK) /\ FedSound /\ [Next]_vars => FedSound'
  BY FedStep DEF Inv2
<1> QED  BY <1>1, <1>2, InvHolds, SpecTypes, PTL DEF Spec

LEMMA LedgerOpens ==
  ASSUME Inv, NEW r \in Req, Insert(r)
  PROVE  Ledger!LedgerNext \/ UNCHANGED <<run, fed, spent>>
<1> DEFINE p == First(req[r].prs)
           s == req[r].view[p]
           made == req[r].made
<1>1. EngineTypeOK /\ RequestSound(r) /\ At(r, "insert") /\ UNCHANGED <<fed, spent>>
  BY InvParts DEF Insert
<1>2. req[r].prs \in SUBSET Pr /\ made \in SUBSET RunId /\ req[r].view \in [Pr -> Sha \cup {0}]
  BY <1>1 DEF EngineTypeOK, Request
<1>3. p \in Pr /\ s \in Sha
  <2>1. req[r].prs # {} /\ \A o \in req[r].prs : req[r].view[o] # 0
    BY <1>1 DEF RequestSound, At
  <2>2. p \in req[r].prs  BY <1>2, <2>1, FirstPr
  <2> HIDE DEF p
  <2> QED  BY <1>2, <2>1, <2>2
<1>4. CASE Duplicate(p, s)  BY <1>1, <1>4 DEF Insert
<1>5. CASE ~Duplicate(p, s)
  <2> DEFINE b(i) == IF made = {} THEN i ELSE First(made)
  <2>1. PICK i \in RunId :
          /\ ~Exists(i)
          /\ run' = [run EXCEPT ![i] = [pr |-> p, sha |-> s, status |-> "running",
                                        batch |-> b(i), verdict |-> "none"]]
    BY <1>5 DEF Insert
  <2>2. b(i) \in RunId  BY <1>2, FirstRun
  <2>3. \A j \in RunId : Running(j) /\ run[j].pr = p => run[j].sha = s
    BY <1>1 DEF RequestSound
  <2>4. \A j \in RunId : run[j].status = "running" => run[j].pr # p
    <3> SUFFICES ASSUME NEW j \in RunId, Running(j), run[j].pr = p PROVE FALSE
      BY DEF Running
    <3>1. run[j].sha = s /\ Exists(j)  BY <2>3 DEF Running, Exists
    <3> HIDE DEF p, s
    <3>2. j \in Of(p, s)  BY <3>1 DEF Of
    <3> QED  BY <1>5, <3>2 DEF Duplicate
  <2>5. run[i].status = "none"  BY <2>1 DEF Exists
  <2> HIDE DEF p, s, b
  <2>6. [pr |-> p, sha |-> s, status |-> "running", batch |-> b(i), verdict |-> "none"]
        = [pr |-> p, sha |-> s, batch |-> b(i), status |-> "running", verdict |-> "none"]
    OBVIOUS
  <2>7. Ledger!Opened(i, p, s)
    BY <1>1, <2>1, <2>2, <2>4, <2>5, <2>6 DEF Ledger!Opened
  <2> QED  BY <1>3, <2>7 DEF Ledger!LedgerNext
<1> QED  BY <1>4, <1>5

LEMMA LedgerGivesUp ==
  ASSUME Inv, NEW r \in Req, Supersede(r) \/ FailRun(r) \/ MarkCancelled(r)
  PROVE  Ledger!LedgerNext \/ UNCHANGED <<run, fed, spent>>
<1>1. EngineTypeOK /\ UNCHANGED <<fed, spent>>
  BY DEF Inv, Supersede, FailRun, MarkCancelled
<1>2. CASE UNCHANGED run  BY <1>1, <1>2
<1>3. CASE ~UNCHANGED run
  <2>1. PICK some \in SUBSET RunId, how \in {"failed", "cancelled"} :
          /\ \A i \in some : run[i].status = "running"
          /\ run' = [i \in RunId |-> IF i \in some THEN [run[i] EXCEPT !.status = how] ELSE run[i]]
    <3>1. CASE Supersede(r)
      <4> DEFINE stale == {i \in RunId : /\ Running(i) /\ run[i].pr = First(req[r].prs)
                                         /\ run[i].sha # req[r].view[First(req[r].prs)]}
      <4>1. stale \in SUBSET RunId /\ \A i \in stale : run[i].status = "running"  BY DEF Running
      <4>2. run' = [i \in RunId |-> IF i \in stale THEN [run[i] EXCEPT !.status = "failed"] ELSE run[i]]
        BY <3>1 DEF Supersede
      <4> HIDE DEF stale
      <4> QED  BY <4>1, <4>2
    <3>2. CASE FailRun(r)
      <4> DEFINE i == First(req[r].made)
      <4>1. Running(i) /\ run' = [run EXCEPT ![i].status = "failed"] /\ req[r].made # {}
        BY <1>3, <3>2 DEF FailRun
      <4>2. i \in RunId  BY <1>1, <4>1, FirstRun DEF EngineTypeOK, Request
      <4> HIDE DEF i
      <4>3. run' = [j \in RunId |-> IF j \in {i} THEN [run[j] EXCEPT !.status = "failed"] ELSE run[j]]
        BY <1>1, <4>1, <4>2 DEF EngineTypeOK
      <4>4. {i} \in SUBSET RunId /\ \A j \in {i} : run[j].status = "running"
        BY <4>1, <4>2 DEF Running
      <4> QED  BY <4>3, <4>4
    <3>3. CASE MarkCancelled(r)
      <4> DEFINE some == {i \in RunId : Running(i)}
      <4>1. some \in SUBSET RunId /\ \A i \in some : run[i].status = "running"  BY DEF Running
      <4>2. run' = [i \in RunId |-> IF i \in some THEN [run[i] EXCEPT !.status = "cancelled"] ELSE run[i]]
        BY <3>3 DEF MarkCancelled
      <4> HIDE DEF some
      <4> QED  BY <4>1, <4>2
    <3> QED  BY <3>1, <3>2, <3>3
  <2>2. Ledger!Abandoned(some, how)  BY <1>1, <2>1 DEF Ledger!Abandoned
  <2> QED  BY <2>2 DEF Ledger!LedgerNext
<1> QED  BY <1>2, <1>3

LEMMA LedgerCompletes ==
  ASSUME Inv, NEW r \in Req, Update(r)
  PROVE  Ledger!LedgerNext \/ UNCHANGED <<run, fed, spent>>
<1> DEFINE i == First(req[r].todo)
<1>1. EngineTypeOK /\ RequestSound(r) /\ At(r, "update") /\ UNCHANGED <<fed, spent>>
  BY InvParts DEF Update
<1>2. i \in RunId  BY <1>1, FirstRun DEF RequestSound, EngineTypeOK, Request, At
<1>3. req[r].says[i] \in {"approved", "changes_requested"}
  <2> HIDE DEF i
  <2> QED  BY <1>1, <1>2 DEF EngineTypeOK, Request
<1>4. CASE Running(i)
  <2>1. run' = [run EXCEPT ![i].status = "complete", ![i].verdict = req[r].says[i]]
    BY <1>4 DEF Update
  <2> HIDE DEF i
  <2>2. Ledger!Completed(i, req[r].says[i])
    BY <1>1, <1>4, <2>1 DEF Ledger!Completed, Running
  <2> QED  BY <1>2, <1>3, <2>2 DEF Ledger!LedgerNext, Ledger!Verdicts
<1>5. CASE ~Running(i)  BY <1>1, <1>5 DEF Update
<1> QED  BY <1>4, <1>5

LEMMA LedgerAnswers ==
  ASSUME Inv, NEW r \in Req, SendAccounted(r) \/ SendPaste(r) \/ SendFails(r)
  PROVE  Ledger!LedgerNext \/ UNCHANGED <<run, fed \cup spent>>
<1> DEFINE some == req[r].todo
<1>1. EngineTypeOK /\ RequestSound(r) /\ At(r, "send") /\ UNCHANGED run
  BY InvParts DEF Inv, SendAccounted, SendPaste, SendFails
<1>2. some \in SUBSET RunId /\ \A i \in some : run[i].verdict = "changes_requested"
  BY <1>1 DEF EngineTypeOK, Request, RequestSound, At
<1>3. \/ fed' \cup spent' = fed \cup spent
      \/ fed' \cup spent' = (fed \cup spent) \cup some
  BY DEF SendAccounted, SendPaste, SendFails
<1> HIDE DEF some
<1>4. CASE fed' \cup spent' = (fed \cup spent) \cup some
  <2>1. Ledger!Answered(some)  BY <1>1, <1>2, <1>4 DEF Ledger!Answered
  <2> QED  BY <1>2, <2>1 DEF Ledger!LedgerNext
<1> QED  BY <1>1, <1>3, <1>4

LEMMA LedgerDelivers ==
  ASSUME Inv, FedSound, NEW r \in Req, MarkDelivered(r)
  PROVE  Ledger!LedgerNext \/ UNCHANGED <<run, fed, spent>>
<1> DEFINE i == First(req[r].todo)
<1>1. EngineTypeOK /\ At(r, "deliver") /\ UNCHANGED <<fed, spent>> /\ Owed(r)
  BY FedParts DEF Inv, MarkDelivered
<1>2. CASE req[r].todo # {} /\ run[i].status = "complete"
  <2>1. run' = [run EXCEPT ![i].status = "delivered"]  BY <1>2 DEF MarkDelivered
  <2>2. i \in req[r].todo /\ i \in RunId  BY <1>1, <1>2, FirstRun DEF EngineTypeOK, Request
  <2>3. i \in fed \cup spent  BY <1>1, <2>2 DEF Owed
  <2> HIDE DEF i
  <2>4. Ledger!Delivered(i)  BY <1>1, <1>2, <2>1, <2>3 DEF Ledger!Delivered
  <2> QED  BY <2>2, <2>4 DEF Ledger!LedgerNext
<1>3. CASE ~(req[r].todo # {} /\ run[i].status = "complete")
  BY <1>1, <1>3 DEF MarkDelivered
<1> QED  BY <1>2, <1>3

LEMMA StepLedger ==
  ASSUME Inv, FedSound, [Next]_vars
  PROVE  [Ledger!LedgerNext]_(Ledger!ledgerVars)
<1> USE DEF Ledger!ledgerVars
<1>1. ASSUME NEW r \in Req, \/ Insert(r) \/ Supersede(r) \/ FailRun(r) \/ MarkCancelled(r)
                            \/ Update(r) \/ MarkDelivered(r) \/ SendAccounted(r) \/ SendPaste(r)
                            \/ SendFails(r)
      PROVE  [Ledger!LedgerNext]_(Ledger!ledgerVars)
  BY <1>1, LedgerOpens, LedgerGivesUp, LedgerCompletes, LedgerAnswers, LedgerDelivers
<1>2. ASSUME NEW r \in Req, \/ Starts(r) \/ TriggerPlans(r) \/ Probe(r) \/ Spawn(r) \/ Notify(r)
                            \/ Record(r) \/ Interrupt(r)
      PROVE  UNCHANGED <<run, fed, spent>>
  BY <1>2 DEF Starts, TriggerStarts, CancelStarts, SubmitStarts, TriggerPlans, Probe, Spawn,
     Notify, Record, Interrupt
<1>3. ASSUME NEW r \in Req, \/ ReadRun(r) \/ ReadHeads(r) \/ Apply(r) \/ SendSuppressed(r)
                            \/ SendPersists(r) \/ InsertFails(r) \/ PaneFails(r) \/ WriteFails(r)
                            \/ CancelFails(r) \/ SendNotPersisted(r) \/ SubmitFails(r)
      PROVE  UNCHANGED <<run, fed, spent>>
  BY <1>3 DEF ReadRun, ReadHeads, Apply, SendSuppressed, SendPersists, InsertFails, PaneFails,
     WriteFails, CancelFails, SendNotPersisted, SubmitFails
<1>4. CASE \/ \E p \in Pr : Push(p) \/ Settle(p)
           \/ SessionMoves \/ PaneDies \/ DaemonStops \/ UNCHANGED vars
  BY <1>4 DEF Push, Settle, SessionMoves, PaneDies, DaemonStops, vars, engineVars
<1> QED  BY <1>1, <1>2, <1>3, <1>4 DEF Next, Trigger, Cancel, Submit, Fails

\* The rows of the engine are a ledger, whatever requests interleave, whatever
\* calls fail and however often the daemon ends: one pass under way for a pull
\* request, a pass ends once, and only what the pipe accounted for is marked
\* delivered.
THEOREM SpecKeepsLedger == Spec => KeepsLedger
<1>1. Init => Ledger!LedgerInit  BY DEF Init, NoRun, Ledger!LedgerInit
<1>2. Inv /\ FedSound /\ [Next]_vars => [Ledger!LedgerNext]_(Ledger!ledgerVars)
  BY StepLedger
<1> QED  BY <1>1, <1>2, InvHolds, FedHolds, PTL DEF Spec, KeepsLedger, Ledger!LedgerSpec

-----------------------------------------------------------------------------
(* The promise of the ledger, and so of the engine.                        *)

LEMMA LedgerStepOnePass ==
  ASSUME EngineTypeOK, Ledger!OnePassPerPR, [Ledger!LedgerNext]_(Ledger!ledgerVars)
  PROVE  Ledger!OnePassPerPR'
<1> USE DEF Ledger!OnePassPerPR
<1>1. run \in [RunId -> Run]  BY DEF EngineTypeOK
<1>2. ASSUME NEW i \in RunId, NEW p \in Pr, NEW s \in Sha, Ledger!Opened(i, p, s)
      PROVE  Ledger!OnePassPerPR'
  <2>1. PICK b \in RunId :
          run' = [run EXCEPT ![i] = [pr |-> p, sha |-> s, batch |-> b,
                                     status |-> "running", verdict |-> "none"]]
    BY <1>2 DEF Ledger!Opened
  <2>2. run'[i].pr = p /\ \A j \in RunId : j # i => run'[j] = run[j]  BY <1>1, <2>1
  <2>3. \A j \in RunId : run[j].status = "running" => run[j].pr # p
    BY <1>2 DEF Ledger!Opened
  <2> QED  BY <2>2, <2>3
<1>3. ASSUME NEW i \in RunId, NEW v, Ledger!Completed(i, v) PROVE Ledger!OnePassPerPR'
  BY <1>1, <1>3 DEF Ledger!Completed, Run
<1>4. ASSUME NEW some \in SUBSET RunId, NEW how \in {"failed", "cancelled"},
             Ledger!Abandoned(some, how)
      PROVE  Ledger!OnePassPerPR'
  BY <1>1, <1>4 DEF Ledger!Abandoned, Run
<1>5. ASSUME NEW some, Ledger!Answered(some) PROVE Ledger!OnePassPerPR'
  BY <1>5 DEF Ledger!Answered
<1>6. ASSUME NEW i \in RunId, Ledger!Delivered(i) PROVE Ledger!OnePassPerPR'
  BY <1>1, <1>6 DEF Ledger!Delivered, Run
<1>7. CASE UNCHANGED Ledger!ledgerVars  BY <1>7 DEF Ledger!ledgerVars
<1> QED  BY <1>2, <1>3, <1>4, <1>5, <1>6, <1>7 DEF Ledger!LedgerNext

\* Two triggers never have two reviewers at one pull request: a trigger holds
\* the worker's lock from the plan to the last insertion, and supersedes what
\* is under way for an older head before it inserts.
THEOREM SpecOneReview == Spec => []OneReviewPerPR
<1>1. Init => OneReviewPerPR
  BY DEF Init, NoRun, OneReviewPerPR, Ledger!OnePassPerPR
<1>2. EngineTypeOK /\ OneReviewPerPR /\ [Ledger!LedgerNext]_(Ledger!ledgerVars) => OneReviewPerPR'
  BY LedgerStepOnePass DEF OneReviewPerPR
<1>3. Inv => EngineTypeOK  BY DEF Inv
<1> QED
  BY <1>1, <1>2, <1>3, InvHolds, SpecKeepsLedger, PTL DEF Spec, KeepsLedger, Ledger!LedgerSpec

-----------------------------------------------------------------------------
(* Nobody waits for a pass that nobody works on.                           *)

Kept(r, i) == i \in handed \/ (req[r].at \in TriggerPlaces /\ i \in req[r].made)

\* A step of r is sound when the passes it works on stay its own, end, or are
\* handed over.
LEMMA HandOf ==
  ASSUME Inv, RunningIsHanded, HandSound, faults = 0, NEW r \in Req,
         \A q \in Req \ {r} : req'[q] = req[q],
         handed \subseteq handed',
         \A i \in RunId : Running(i)' => Running(i) \/ Kept(r, i)',
         \A i \in RunId : Running(i)' /\ Kept(r, i) => Kept(r, i)',
         At(r, "plan")' => req'[r].made = {},
         At(r, "record")' => req'[r].made \subseteq handed'
  PROVE  RunningIsHanded' /\ HandSound'
<1>1. HandSound'  BY DEF HandSound, At
<1>2. ASSUME NEW i \in RunId, Running(i)'
      PROVE  i \in handed' \/ \E q \in Req : req'[q].at \in TriggerPlaces /\ i \in req'[q].made
  <2>1. CASE Kept(r, i)'  BY <2>1 DEF Kept
  <2>2. CASE ~Kept(r, i)'
    <3>1. Running(i) /\ ~Kept(r, i)  BY <1>2, <2>2
    <3>2. PICK q \in Req : req[q].at \in TriggerPlaces /\ i \in req[q].made
      BY <3>1 DEF RunningIsHanded, Kept
    <3>3. q # r  BY <3>1, <3>2 DEF Kept
    <3> QED  BY <3>2, <3>3
  <2> QED  BY <2>1, <2>2
<1> QED  BY <1>1, <1>2 DEF RunningIsHanded

\* A request that is no trigger works on no pass of its own.
LEMMA HandOther ==
  ASSUME Inv, RunningIsHanded, HandSound, faults = 0, NEW r \in Req,
         req[r].at \notin TriggerPlaces, req'[r].at \notin TriggerPlaces,
         \A q \in Req \ {r} : req'[q] = req[q],
         handed \subseteq handed', NoneBegun
  PROVE  RunningIsHanded' /\ HandSound'
<1>1. ~At(r, "plan")' /\ ~At(r, "record")'  BY DEF At, TriggerPlaces
<1>2. \A i \in RunId : Kept(r, i) => Kept(r, i)'  BY DEF Kept
<1> QED  BY <1>1, <1>2, HandOf DEF NoneBegun

LEMMA TriggerHand ==
  ASSUME Inv, RunningIsHanded, HandSound, faults = 0, NEW r \in Req,
         TriggerStarts(r) \/ Trigger(r)
  PROVE  RunningIsHanded' /\ HandSound'
<1>1. EngineTypeOK /\ RequestSound(r) /\ req[r] \in Request  BY InvParts DEF EngineTypeOK
<1>2. CASE TriggerStarts(r)
  <2>1. req'[r].at = "plan" /\ req'[r].made = {} /\ \A q \in Req \ {r} : req'[q] = req[q]
    BY <1>1, <1>2 DEF TriggerStarts, EngineTypeOK, NoReq
  <2>2. ~(req[r].at \in TriggerPlaces)  BY <1>2 DEF TriggerStarts, At, TriggerPlaces
  <2>3. UNCHANGED <<run, handed>>  BY <1>2 DEF TriggerStarts, paneVars
  <2> QED  BY <2>1, <2>2, <2>3, HandOf DEF Kept, At, Running
<1>3. CASE TriggerPlans(r)
  <2>1. UNCHANGED <<run, handed>> /\ req[r].made = {}
    BY <1>3 DEF TriggerPlans, paneVars, HandSound
  <2>2. /\ req'[r].at # "plan" /\ req'[r].at # "record" 
        /\ \A q \in Req \ {r} : req'[q] = req[q]
    BY <1>1, <1>3 DEF TriggerPlans, Returns, NoReq, EngineTypeOK, Request
  <2> QED  BY <2>1, <2>2, HandOf DEF Kept, At, Running
<1>4. CASE Supersede(r)
  <2>1. req'[r] = [req[r] EXCEPT !.at = "insert"] /\ \A q \in Req \ {r} : req'[q] = req[q]
    BY <1>1, <1>4 DEF Supersede, Goes, EngineTypeOK
  <2>2. req'[r].at = "insert" /\ req'[r].made = req[r].made  BY <1>1, <2>1 DEF Request
  <2>3. handed' = handed /\ NoneBegun
    BY <1>1, <1>4 DEF Supersede, paneVars, NoneBegun, Running, EngineTypeOK, Run
  <2> QED  BY <2>1, <2>2, <2>3, HandOf DEF Kept, At, TriggerPlaces, NoneBegun
<1>5. CASE Insert(r)
  <2>1. handed' = handed  BY <1>5 DEF Insert, paneVars
  <2>2. ASSUME NEW rest, NEW made, NextPr(r, rest, made)
        PROVE  /\ \A q \in Req \ {r} : req'[q] = req[q]
               /\ \/ made = {} /\ req'[r] = NoReq
                  \/ req'[r].at \in {"alive", "supersede"} /\ req'[r].made = made
    <3>1. CASE rest = {} /\ made = {}
      BY <1>1, <2>2, <3>1 DEF NextPr, Returns, EngineTypeOK
    <3>2. CASE ~(rest = {} /\ made = {})
      <4> DEFINE place == IF rest = {} THEN "alive" ELSE "supersede"
                 rec == [req[r] EXCEPT !.at = place, !.prs = rest, !.made = made]
      <4>1. req' = [req EXCEPT ![r] = rec]  BY <2>2, <3>2 DEF NextPr
      <4>2. rec.at = place /\ rec.made = made
        <5> HIDE DEF place
        <5> QED  BY <1>1 DEF Request
      <4>3. place \in {"alive", "supersede"}  OBVIOUS
      <4> HIDE DEF rec
      <4> QED  BY <1>1, <4>1, <4>2, <4>3 DEF EngineTypeOK
    <3> QED  BY <3>1, <3>2
  <2>3. CASE UNCHANGED run
    <3>1. NextPr(r, req[r].prs \ {First(req[r].prs)}, req[r].made)
          \/ \E i \in RunId : ~Exists(i) /\ Running(i)'
      <4>1. CASE Duplicate(First(req[r].prs), req[r].view[First(req[r].prs)])
        BY <1>5, <4>1 DEF Insert
      <4>2. CASE ~Duplicate(First(req[r].prs), req[r].view[First(req[r].prs)])
        <5> DEFINE p == First(req[r].prs)
                   b(i) == IF req[r].made = {} THEN i ELSE First(req[r].made)
        <5>1. PICK i \in RunId :
                /\ ~Exists(i)
                /\ run' = [run EXCEPT ![i] = [pr |-> p, sha |-> req[r].view[p],
                             status |-> "running", batch |-> b(i), verdict |-> "none"]]
          BY <1>5, <4>2 DEF Insert
        <5> HIDE DEF p, b
        <5>2. run'[i].status = "running"  BY <1>1, <5>1 DEF EngineTypeOK
        <5> QED  BY <5>1, <5>2 DEF Running
      <4> QED  BY <4>1, <4>2
    <3>2. NextPr(r, req[r].prs \ {First(req[r].prs)}, req[r].made)
      BY <2>3, <3>1 DEF Exists, Running
    <3>3. /\ \A q \in Req \ {r} : req'[q] = req[q]
          /\ \/ req[r].made = {} /\ req'[r] = NoReq
             \/ req'[r].at \in {"alive", "supersede"} /\ req'[r].made = req[r].made
      BY <2>2, <3>2
    <3> QED  BY <2>1, <2>3, <3>3, HandOf DEF Kept, At, Running, TriggerPlaces, NoReq
  <2>4. CASE ~UNCHANGED run
    <3>1. PICK i \in RunId :
            /\ \A j \in RunId : j # i => run'[j] = run[j]
            /\ NextPr(r, req[r].prs \ {First(req[r].prs)}, req[r].made \cup {i})
      BY <1>1, <1>5, <2>4 DEF Insert, EngineTypeOK
    <3>2. /\ \A q \in Req \ {r} : req'[q] = req[q]
          /\ req'[r].at \in {"alive", "supersede"} /\ req'[r].made = req[r].made \cup {i}
      BY <2>2, <3>1
    <3> QED  BY <2>1, <3>1, <3>2, HandOf DEF Kept, At, Running, TriggerPlaces
  <2> QED  BY <2>3, <2>4
<1>6. CASE Probe(r) \/ Spawn(r) \/ Notify(r)
  <2>1. PICK place \in {"alive", "notify", "spawn", "record", "fail"} : Goes(r, place)
    BY <1>6 DEF Probe, Spawn, Notify, Asks
  <2>2. req'[r] = [req[r] EXCEPT !.at = place] /\ \A q \in Req \ {r} : req'[q] = req[q]
    BY <1>1, <2>1 DEF Goes, EngineTypeOK
  <2>3. req'[r].at = place /\ req'[r].made = req[r].made  BY <1>1, <2>2 DEF Request
  <2>4. run' = run /\ handed \subseteq handed'
    BY <1>6 DEF Probe, Spawn, Notify, Asks, paneVars
  <2>5. place = "record" => req[r].made \subseteq handed'
    <3>1. SUFFICES ASSUME place = "record" PROVE Asks(r)  BY DEF Asks
    <3>2. ASSUME NEW other \in {"notify", "spawn", "fail"}, Goes(r, other) PROVE FALSE
      BY <1>1, <2>3, <3>1, <3>2 DEF Goes, EngineTypeOK, Request
    <3> QED  BY <1>6, <3>2 DEF Probe, Spawn, Notify
  <2> QED  BY <2>2, <2>3, <2>4, <2>5, HandOf DEF Kept, At, Running, TriggerPlaces
<1>7. CASE Record(r)
  <2>1. UNCHANGED <<run, handed>> /\ req[r].made \subseteq handed
    BY <1>7 DEF Record, paneVars, HandSound
  <2>2. req'[r] = NoReq /\ \A q \in Req \ {r} : req'[q] = req[q]
    BY <1>1, <1>7 DEF Record, Returns, EngineTypeOK
  <2> QED  BY <2>1, <2>2, HandOf DEF Kept, At, Running, NoReq
<1>8. CASE FailRun(r)
  <2>1. handed' = handed /\ At(r, "fail")  BY <1>8 DEF FailRun, paneVars
  <2>2. CASE req[r].made = {}
    <3>1. req'[r] = NoReq /\ (\A q \in Req \ {r} : req'[q] = req[q]) /\ run' = run
      BY <1>1, <1>8, <2>2 DEF FailRun, Returns, EngineTypeOK
    <3> QED  BY <2>1, <2>2, <3>1, HandOf DEF Kept, At, Running, NoReq
  <2>3. CASE req[r].made # {}
    <3> DEFINE i == First(req[r].made)
    <3>1. i \in RunId  BY <1>1, <2>3, FirstRun DEF Request
    <3>2. /\ run' = IF Running(i) THEN [run EXCEPT ![i].status = "failed"] ELSE run
          /\ req' = [req EXCEPT ![r].made = @ \ {i}]
      BY <1>8, <2>3 DEF FailRun
    <3> HIDE DEF i
    <3>3. /\ req'[r] = [req[r] EXCEPT !.made = @ \ {i}]
          /\ \A q \in Req \ {r} : req'[q] = req[q]
      BY <1>1, <3>2 DEF EngineTypeOK
    <3>4. req'[r].at = "fail" /\ req'[r].made = req[r].made \ {i}
      BY <1>1, <2>1, <3>3 DEF Request, At
    <3>5. run'[i].status # "running" /\ NoneBegun
      <4>1. CASE Running(i)
        <5>1. run'[i] = [run[i] EXCEPT !.status = "failed"] /\ run[i] \in Run
              /\ \A j \in RunId : j # i => run'[j] = run[j]
          BY <1>1, <3>1, <3>2, <4>1 DEF EngineTypeOK
        <5>2. run'[i].status = "failed"  BY <5>1 DEF Run
        <5> QED  BY <5>1, <5>2 DEF NoneBegun, Running
      <4>2. CASE ~Running(i)  BY <3>2, <4>2 DEF NoneBegun, Running
      <4> QED  BY <4>1, <4>2
    <3>6. ASSUME NEW j \in RunId, Running(j)' PROVE j # i
      BY <3>5, <3>6 DEF Running
    <3> QED  BY <2>1, <3>3, <3>4, <3>5, <3>6, HandOf DEF Kept, At, NoneBegun, TriggerPlaces
  <2> QED  BY <2>2, <2>3
<1> QED  BY <1>2, <1>3, <1>4, <1>5, <1>6, <1>7, <1>8 DEF Trigger

\* Where the requests that are no triggers stand.
LEMMA OtherPlaces ==
  ASSUME Inv, NEW r \in Req, CancelStarts(r) \/ SubmitStarts(r) \/ Cancel(r) \/ Submit(r)
  PROVE  /\ req[r].at \notin TriggerPlaces /\ req'[r].at \notin TriggerPlaces
         /\ \A q \in Req \ {r} : req'[q] = req[q]
<1>1. req \in [Req -> Request]  BY DEF Inv, EngineTypeOK
<1> USE DEF At, TriggerPlaces, Goes, Returns, NoReq, Request
<1>2. CASE CancelStarts(r) \/ Cancel(r)
  BY <1>1, <1>2 DEF CancelStarts, Cancel, Interrupt, MarkCancelled
<1>3. CASE SubmitStarts(r)  BY <1>1, <1>3 DEF SubmitStarts
<1>4. CASE ReadRun(r)
  <2> DEFINE i == First(req[r].todo)
  <2>1. At(r, "read")  BY <1>4 DEF ReadRun
  <2>2. \/ \E place \in {"heads", "update"} : Goes(r, place)
        \/ Returns(r)
        \/ req' = [req EXCEPT ![r].todo = @ \ {i}]
        \/ req' = [req EXCEPT ![r].todo = @ \ {i}, ![r].made = @ \cup {i}]
    <3>1. [[req EXCEPT ![r].todo = @ \ {i}] EXCEPT ![r].made = @ \cup {i}]
          = [req EXCEPT ![r].todo = @ \ {i}, ![r].made = @ \cup {i}]
      OBVIOUS
    <3> HIDE DEF i
    <3> QED  BY <1>4, <3>1 DEF ReadRun, i
  <2> HIDE DEF i
  <2> QED  BY <1>1, <2>1, <2>2
<1>5. CASE Update(r)  BY <1>1, <1>5 DEF Update
<1>6. CASE ReadHeads(r)
  <2> DEFINE due == {i \in req[r].made :
                       req[r].says[i] = "changes_requested" /\ head[run[i].pr] = run[i].sha}
             rec == [req[r] EXCEPT !.at = "apply", !.todo = due, !.made = {}]
  <2>1. At(r, "heads") /\ (Returns(r) \/ req' = [req EXCEPT ![r] = rec])
    BY <1>6 DEF ReadHeads
  <2>2. rec.at = "apply"
    <3> HIDE DEF due
    <3> QED  BY <1>1
  <2> HIDE DEF rec
  <2> QED  BY <1>1, <2>1, <2>2
<1>7. CASE Apply(r) \/ SendAccounted(r) \/ SendSuppressed(r)
  BY <1>1, <1>7 DEF Apply, SendAccounted, SendSuppressed
<1>8. CASE SendPaste(r) \/ SendPersists(r) \/ MarkDelivered(r)
  BY <1>1, <1>8 DEF SendPaste, SendPersists, MarkDelivered
<1> QED  BY <1>2, <1>3, <1>4, <1>5, <1>6, <1>7, <1>8 DEF Submit

LEMMA OtherRows ==
  ASSUME Inv, NEW r \in Req, CancelStarts(r) \/ SubmitStarts(r) \/ Cancel(r) \/ Submit(r)
  PROVE  NoneBegun /\ handed' = handed
<1>1. EngineTypeOK  BY DEF Inv
<1>2. CASE MarkCancelled(r)
  BY <1>1, <1>2 DEF MarkCancelled, paneVars, NoneBegun, Running, EngineTypeOK, Run
<1>3. CASE Update(r)
  BY <1>1, <1>3 DEF Update, paneVars, NoneBegun, Running, EngineTypeOK, Run
<1>4. CASE MarkDelivered(r)
  BY <1>1, <1>4 DEF MarkDelivered, paneVars, NoneBegun, Running, EngineTypeOK, Run
<1>5. CASE CancelStarts(r) \/ SubmitStarts(r) \/ Interrupt(r) \/ ReadRun(r) \/ ReadHeads(r)
  BY <1>5 DEF CancelStarts, SubmitStarts, Interrupt, ReadRun, ReadHeads, paneVars, NoneBegun, Running
<1>6. CASE \/ Apply(r) \/ SendAccounted(r) \/ SendSuppressed(r) \/ SendPaste(r) \/ SendPersists(r)
  BY <1>6 DEF Apply, SendAccounted, SendSuppressed, SendPaste, SendPersists, paneVars, NoneBegun,
     Running
<1> QED  BY <1>2, <1>3, <1>4, <1>5, <1>6 DEF Cancel, Submit

LEMMA HandStep ==
  ASSUME Inv, RunningIsHanded, HandSound, [Next]_vars
  PROVE  RunningIsHanded' /\ HandSound'
<1>1. faults \in Nat  BY ReviewAssumption DEF ReviewAssumption, Inv, EngineTypeOK
<1>2. CASE faults' # 0  BY <1>2 DEF RunningIsHanded, HandSound
<1>3. CASE faults' = 0
  <2>1. ~Fault  BY <1>1, <1>3 DEF Fault
  <2>2. ASSUME NEW r \in Req, Fails(r) PROVE FALSE
    BY <2>1, <2>2 DEF Fails, InsertFails, PaneFails, WriteFails, CancelFails, SendFails,
       SendNotPersisted, SubmitFails
  <2>3. ~DaemonStops  BY <2>1 DEF DaemonStops
  <2>4. ASSUME NEW r \in Req, Starts(r) \/ Trigger(r) \/ Cancel(r) \/ Submit(r)
        PROVE  faults = 0
    BY <1>3, <2>4 DEF Starts, Trigger, Cancel, Submit, TriggerStarts, CancelStarts, SubmitStarts,
       Begins, faultVars, TriggerPlans, Supersede, Insert, Probe, Spawn, Notify, Record, FailRun,
       Interrupt, MarkCancelled, ReadRun, Update, ReadHeads, Apply, SendAccounted, SendSuppressed,
       SendPaste, SendPersists, MarkDelivered
  <2>5. ASSUME NEW r \in Req, TriggerStarts(r) \/ Trigger(r)
        PROVE  RunningIsHanded' /\ HandSound'
    BY <2>4, <2>5, TriggerHand DEF Starts
  <2>6. ASSUME NEW r \in Req, CancelStarts(r) \/ SubmitStarts(r) \/ Cancel(r) \/ Submit(r)
        PROVE  RunningIsHanded' /\ HandSound'
    <3>1. faults = 0  BY <2>4, <2>6 DEF Starts
    <3>2. NoneBegun /\ handed \subseteq handed'  BY <2>6, OtherRows
    <3> QED  BY <2>6, <3>1, <3>2, OtherPlaces, HandOther
  <2>7. CASE \/ \E p \in Pr : Push(p) \/ Settle(p)
             \/ SessionMoves \/ PaneDies \/ UNCHANGED vars
    <3>1. UNCHANGED <<run, req, handed, faults>>
      BY <2>7 DEF Push, Settle, SessionMoves, PaneDies, Turn, engineVars, paneVars, faultVars, vars
    <3> QED  BY <3>1 DEF RunningIsHanded, HandSound, Running, At
  <2> QED  BY <2>2, <2>3, <2>5, <2>6, <2>7 DEF Next, Starts
<1> QED  BY <1>2, <1>3

\* Without failing calls and restarts no pass is under way that nobody works
\* on, however triggers, cancels, submissions and the deaths of the pane
\* interleave: a trigger gives up only passes it has failed or handed over.
THEOREM SpecNobodyForgotten == Spec => []RunningIsHanded
<1>1. Init => RunningIsHanded /\ HandSound
  BY DEF Init, NoRun, NoReq, RunningIsHanded, HandSound, Running, At
<1>2. Inv /\ (RunningIsHanded /\ HandSound) /\ [Next]_vars => (RunningIsHanded /\ HandSound)'
  BY HandStep
<1> QED  BY <1>1, <1>2, InvHolds, PTL DEF Spec
=============================================================================
