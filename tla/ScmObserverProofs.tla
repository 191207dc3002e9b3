-------------------------- MODULE ScmObserverProofs --------------------------
(***************************************************************************)
(* Proofs about ScmObserver, for every set of pull requests, every course  *)
(* of checks and reviews, and every fault: its types, that its use of the  *)
(* nudge pipe is a behaviour of SendOnce, and that a merge ends a session  *)
(* only with its work.                                                     *)
(***************************************************************************)
EXTENDS ScmObserver, SendOnceProofs, SequenceTheorems

ScmInv == FactsTyped /\ PollTyped /\ SettledIsObserved

-----------------------------------------------------------------------------
(* The helpers.                                                            *)

LEMMA SigConstants ==
  /\ DecisionOnly \in Sig /\ Conflicting \in Sig /\ CiFailure \subseteq Sig
  /\ "ci" \in Kind /\ "review" \in Kind /\ "conflict" \in Kind
  BY ScmAssumption DEF ScmAssumption

LEMMA CiOfType ==
  ASSUME FactsTyped, NEW p \in Pr
  PROVE  CiOf(p) \in Sig
<1>1. remote[p].ci \in 1..Len(CiRun)  BY DEF FactsTyped, RemoteFacts
<1>2. CiRun \in Seq(Sig)  BY ScmAssumption DEF ScmAssumption
<1> QED  BY <1>1, <1>2, ElementOfSeq DEF CiOf

LEMMA ReviewOfType ==
  ASSUME FactsTyped, NEW p \in Pr
  PROVE  ReviewOf(p) \in Sig \cup {NoReview}
<1>1. remote[p].review \in 1..Len(ReviewRun)  BY DEF FactsTyped, RemoteFacts
<1>2. ReviewRun \in Seq(Sig \cup {NoReview})  BY ScmAssumption DEF ScmAssumption
<1> QED  BY <1>1, <1>2, ElementOfSeq DEF ReviewOf

LEMMA DecisionType ==
  ASSUME NEW r
  PROVE  Decision(r) \in Sig \cup {NoReview}
  BY SigConstants DEF Decision

\* A row is not mistaken for no row.
LEMMA FactsAreRows == ASSUME NEW f \in Facts PROVE f # NoRow
<1>1. "review" \in DOMAIN f  BY DEF Facts
<1>2. "review" \notin DOMAIN NoRow  BY DEF NoRow
<1> QED  BY <1>1, <1>2

LEMMA FromProviderType ==
  ASSUME FactsTyped, NEW p \in Pr
  PROVE  FromProvider(p) \in Observation
<1>1. CiOf(p) \in Sig  BY CiOfType
<1>2. Decision(ReviewOf(p)) \in Sig \cup {NoReview}  BY DecisionType
<1>3. remote[p] \in RemoteFacts  BY DEF FactsTyped
<1> QED  BY <1>1, <1>2, <1>3 DEF FromProvider, RemoteFacts, Observation

LEMMA FromRowType ==
  ASSUME FactsTyped, NEW p \in Tracked
  PROVE  FromRow(p) \in Observation
<1>1. p \in Pr /\ row[p] \in Facts  BY DEF Tracked, FactsTyped
<1> QED  BY <1>1 DEF FromRow, Facts, Observation

LEMMA BaselineType ==
  ASSUME FactsTyped, NEW p \in Pr
  PROVE  Baseline(p) \in Facts /\ Baseline(p).state = "open"
<1>1. remote[p].base \in Pr \cup {0}  BY DEF FactsTyped, RemoteFacts
<1> QED  BY <1>1 DEF Baseline, Facts, States

LEMMA StoredType ==
  ASSUME FactsTyped, NEW p \in DOMAIN obs
  PROVE  Stored(p) \in Facts /\ Stored(p).state = obs[p].state
<1>1. obs[p] \in Observation  BY DEF FactsTyped
<1>2. Decision(obs[p].review) \in Sig \cup {NoReview}  BY DecisionType
<1> QED  BY <1>1, <1>2 DEF Stored, Facts, Observation

LEMMA OneOrNone ==
  ASSUME NEW S, NEW c \in BOOLEAN, NEW e, c => e \in S
  PROVE  (IF c THEN <<e>> ELSE <<>>) \in Seq(S)
<1>1. CASE c  BY <1>1
<1>2. CASE ~c  BY <1>2, EmptySeq
<1> QED  BY <1>1, <1>2

\* Every nudge an observation asks for has a kind and a signature.
LEMMA NudgesType ==
  ASSUME FactsTyped, NEW p \in DOMAIN obs
  PROVE  Nudges(p) \in Seq(Kind \X Sig)
<1> DEFINE o == obs[p]
           a == IF o.ci \in CiFailure THEN << <<"ci", o.ci>> >> ELSE <<>>
           b == IF o.review # NoReview THEN << <<"review", o.review>> >> ELSE <<>>
           c == IF o.conflict /\ ~BlockedByOpenParent(p)
                THEN << <<"conflict", Conflicting>> >> ELSE <<>>
<1>1. /\ o.ci \in CiFailure => <<"ci", o.ci>> \in Kind \X Sig
      /\ o.review # NoReview => <<"review", o.review>> \in Kind \X Sig
      /\ <<"conflict", Conflicting>> \in Kind \X Sig
      /\ o.conflict \in BOOLEAN
  BY SigConstants DEF FactsTyped, Observation
<1>2. a \in Seq(Kind \X Sig)
  <2> HIDE DEF o
  <2> QED  BY <1>1, OneOrNone
<1>3. b \in Seq(Kind \X Sig)
  <2> HIDE DEF o
  <2> QED  BY <1>1, OneOrNone
<1>4. c \in Seq(Kind \X Sig)
  <2>1. (o.conflict /\ ~BlockedByOpenParent(p)) \in BOOLEAN  BY <1>1
  <2> QED  BY <1>1, <2>1, OneOrNone
<1>5. Nudges(p) = (a \o b) \o c  BY DEF Nudges
<1> HIDE DEF a, b, c, o
<1>6. a \o b \in Seq(Kind \X Sig)  BY <1>2, <1>3, ConcatProperties
<1> QED  BY <1>4, <1>5, <1>6, ConcatProperties

-----------------------------------------------------------------------------
(* Kinds of steps.                                                         *)

\* Outside the poll: the provider, the clock, the session.
LEMMA OutsideStep ==
  ASSUME ScmInv, UNCHANGED <<rowVars, pollVars>>,
         remote' \in [Pr -> RemoteFacts], moves' \in Nat, owed' \subseteq Pr \X Kind
  PROVE  ScmInv'
<1>1. /\ UNCHANGED <<row, ack, step, subjects, obs, left, queue>>
  BY DEF rowVars, pollVars
<1>2. FactsTyped'  BY <1>1 DEF ScmInv, FactsTyped
<1>3. PollTyped'  BY <1>1 DEF ScmInv, PollTyped, Tracked
<1>4. SettledIsObserved'  BY <1>1 DEF ScmInv, SettledIsObserved, OpenTracked, Tracked
<1> QED  BY <1>2, <1>3, <1>4 DEF ScmInv

\* A change at the provider keeps its facts facts.
LEMMA ChangeStep ==
  ASSUME ScmInv, NEW p \in Pr, NEW facts \in RemoteFacts,
         Change(p, facts), owed' \subseteq Pr \X Kind
  PROVE  ScmInv'
<1>1. /\ moves' = moves + 1
      /\ remote' = [remote EXCEPT ![p] = facts]
      /\ UNCHANGED <<rowVars, pollVars>>
  BY DEF Change
<1>2. moves' \in Nat
  <2>1. moves \in Nat  BY DEF ScmInv, FactsTyped
  <2> QED  BY <1>1, <2>1
<1>3. remote' \in [Pr -> RemoteFacts]  BY <1>1 DEF ScmInv, FactsTyped
<1> QED  BY <1>1, <1>2, <1>3, OutsideStep

LEMMA UpdateStep ==
  ASSUME ScmInv, NEW p \in Pr, NEW facts \in RemoteFacts,
         Update(p, facts), owed' \subseteq Pr \X Kind
  PROVE  ScmInv'
<1>1. moves \in Nat  BY DEF ScmInv, FactsTyped
<1>2. moves + 1 \in Nat  BY <1>1
<1>3. [facts EXCEPT !.updated = moves + 1] \in RemoteFacts
  <2> HIDE DEF States
  <2> QED  BY <1>2 DEF RemoteFacts
<1> QED  BY <1>3, ChangeStep DEF Update

\* A step of the dispatch that leaves the facts alone.
LEMMA DispatchStep ==
  ASSUME ScmInv, UNCHANGED <<remote, moves, row, obs, subjects>>,
         step \in Dispatching, step' \in Dispatching,
         step' = "ending" => OpenTracked = {},
         DOMAIN ack' = Pr, left' \subseteq left,
         queue' \in Seq(Kind \X Sig), owed' \subseteq owed
  PROVE  ScmInv'
<1>1. FactsTyped'  BY DEF ScmInv, FactsTyped
<1>2. step' # "idle" /\ step' \notin {"idle", "listing", "selecting", "fetching"}
  BY DEF Dispatching
<1>3. PollTyped'  BY <1>2 DEF ScmInv, PollTyped, Tracked
<1>4. SettledIsObserved'  BY DEF ScmInv, SettledIsObserved, OpenTracked, Tracked
<1> QED  BY <1>1, <1>3, <1>4 DEF ScmInv

\* The poll ends or dies.
LEMMA PollOverStep ==
  ASSUME ScmInv, UNCHANGED <<remote, moves, rowVars, owed>>, PollOver
  PROVE  ScmInv'
<1>1. /\ step' = "idle" /\ subjects' = {} /\ obs' = <<>> /\ left' = {} /\ queue' = <<>>
      /\ UNCHANGED <<row, ack>>
  BY DEF PollOver, rowVars
<1>2. DOMAIN obs' = {}  BY <1>1
<1>3. FactsTyped'  BY <1>1, <1>2 DEF ScmInv, FactsTyped
<1>4. PollTyped'  BY <1>1, <1>2 DEF ScmInv, PollTyped, Dispatching
<1>5. SettledIsObserved'  BY <1>1 DEF SettledIsObserved
<1> QED  BY <1>3, <1>4, <1>5 DEF ScmInv
-----------------------------------------------------------------------------
(* The steps.                                                              *)

LEMMA ProviderSteps ==
  ASSUME ScmInv, NEW p \in Pr,
         \/ Open(p) \/ CiTurns(p) \/ ReviewTurns(p) \/ ConflictTurns(p) \/ Retarget(p)
         \/ \E how \in {"merged", "closed"} : Settle(p, how)
  PROVE  ScmInv'
<1>1. remote[p] \in RemoteFacts  BY DEF ScmInv, FactsTyped
<1>2. owed \subseteq Pr \X Kind  BY DEF ScmInv, PollTyped
<1>3. ASSUME NEW k \in Kind, NEW trouble, Owe(p, k, trouble) PROVE owed' \subseteq Pr \X Kind
  BY <1>2, <1>3 DEF Owe
<1>4. "ci" \in Kind /\ "review" \in Kind /\ "conflict" \in Kind  BY SigConstants
<1>5. CASE Open(p)
  <2>1. [remote[p] EXCEPT !.state = "open"] \in RemoteFacts  BY <1>1 DEF RemoteFacts, States
  <2> QED  BY <1>2, <1>5, <2>1, UpdateStep DEF Open
<1>6. CASE CiTurns(p)
  <2>1. remote[p].ci + 1 \in 1..Len(CiRun)
    <3>1. remote[p].ci \in 1..Len(CiRun) /\ remote[p].ci < Len(CiRun)
      BY <1>1, <1>6 DEF CiTurns, RemoteFacts
    <3>2. Len(CiRun) \in Nat  BY ScmAssumption, LenProperties DEF ScmAssumption
    <3> QED  BY <3>1, <3>2
  <2>2. [remote[p] EXCEPT !.ci = @ + 1] \in RemoteFacts  BY <1>1, <2>1 DEF RemoteFacts
  <2>3. owed' \subseteq Pr \X Kind  BY <1>3, <1>4, <1>6 DEF CiTurns
  <2> QED  BY <1>6, <2>2, <2>3, ChangeStep DEF CiTurns
<1>7. CASE ReviewTurns(p)
  <2>1. PICK n \in (remote[p].review + 1)..Len(ReviewRun) :
          /\ Update(p, [remote[p] EXCEPT !.review = n])
          /\ Owe(p, "review", ReviewRun[n] # NoReview)
    BY <1>7 DEF ReviewTurns
  <2>2. n \in 1..Len(ReviewRun)
    <3>1. remote[p].review \in 1..Len(ReviewRun)  BY <1>1 DEF RemoteFacts
    <3>2. Len(ReviewRun) \in Nat  BY ScmAssumption, LenProperties DEF ScmAssumption
    <3> QED  BY <2>1, <3>1, <3>2
  <2>3. [remote[p] EXCEPT !.review = n] \in RemoteFacts  BY <1>1, <2>2 DEF RemoteFacts
  <2>4. owed' \subseteq Pr \X Kind  BY <1>3, <1>4, <2>1
  <2> QED  BY <2>1, <2>3, <2>4, UpdateStep
<1>8. CASE ConflictTurns(p)
  <2>1. [remote[p] EXCEPT !.conflict = ~@] \in RemoteFacts  BY <1>1 DEF RemoteFacts
  <2>2. owed' \subseteq Pr \X Kind  BY <1>3, <1>4, <1>8 DEF ConflictTurns
  <2> QED  BY <1>8, <2>1, <2>2, UpdateStep DEF ConflictTurns
<1>9. CASE Retarget(p)
  <2>1. [remote[p] EXCEPT !.base = 0] \in RemoteFacts  BY <1>1 DEF RemoteFacts
  <2>2. owed' \subseteq Pr \X Kind  BY <1>3, <1>4, <1>9 DEF Retarget
  <2> QED  BY <1>9, <2>1, <2>2, UpdateStep DEF Retarget
<1>10. ASSUME NEW how \in {"merged", "closed"}, Settle(p, how) PROVE ScmInv'
  <2>1. [remote[p] EXCEPT !.state = how] \in RemoteFacts  BY <1>1 DEF RemoteFacts, States
  <2>2. owed' \subseteq Pr \X Kind  BY <1>2, <1>10 DEF Settle
  <2> QED  BY <1>10, <2>1, <2>2, UpdateStep DEF Settle
<1> QED  BY <1>5, <1>6, <1>7, <1>8, <1>9, <1>10

\* The clock, the user and a poll without a session.
LEMMA IdleSteps ==
  ASSUME ScmInv,
         \/ \E p \in Pr : ReviewDue(p)
         \/ \E to \in Moods : MoodTurns(to)
         \/ PollNothing
         \/ UNCHANGED scmVars
  PROVE  ScmInv'
<1>1. UNCHANGED <<remote, rowVars, pollVars, owed>>
  BY DEF ReviewDue, MoodTurns, PollNothing, scmVars, remoteVars
<1>2. moves' \in {moves, moves + 1}
  BY DEF ReviewDue, MoodTurns, PollNothing, scmVars, remoteVars
<1>3. moves \in Nat /\ remote \in [Pr -> RemoteFacts]  BY DEF ScmInv, FactsTyped
<1>4. moves' \in Nat  BY <1>2, <1>3
<1>5. remote' \in [Pr -> RemoteFacts]  BY <1>1, <1>3
<1>6. owed' \subseteq Pr \X Kind  BY <1>1 DEF ScmInv, PollTyped
<1> QED  BY <1>1, <1>4, <1>5, <1>6, OutsideStep

LEMMA PollStartStep == ASSUME ScmInv, PollStart PROVE ScmInv'
<1>1. /\ step = "idle" /\ subjects' = OpenTracked
      /\ step' \in {"selecting", "listing"}
      /\ UNCHANGED <<remote, moves, row, ack, obs, left, queue, owed>>
  BY DEF PollStart, remoteVars, rowVars
<1>2. DOMAIN obs = {} /\ left = {}  BY <1>1 DEF ScmInv, PollTyped
<1>3. FactsTyped'  BY <1>1 DEF ScmInv, FactsTyped
<1>4. PollTyped'
  <2>1. step' # "idle" /\ step' \notin Dispatching  BY <1>1 DEF Dispatching
  <2> QED  BY <1>1, <1>2, <2>1 DEF ScmInv, PollTyped, OpenTracked, Tracked
<1>5. SettledIsObserved'  BY <1>1 DEF SettledIsObserved, OpenTracked
<1> QED  BY <1>3, <1>4, <1>5 DEF ScmInv

\* New rows are open ones.
LEMMA DiscoverNewStep == ASSUME ScmInv, DiscoverNew PROVE ScmInv'
<1>1. PICK D \in SUBSET Pr :
        /\ StoreBaselines(D) /\ subjects' = subjects \cup D
  BY DEF DiscoverNew
<1>2. /\ step = "listing" /\ step' = "selecting"
      /\ UNCHANGED <<remote, moves, obs, left, queue, owed>>
  BY DEF DiscoverNew, remoteVars
<1>3. /\ row' = [p \in Pr |-> IF p \in D THEN Baseline(p) ELSE row[p]]
      /\ DOMAIN ack' = Pr
  BY <1>1 DEF StoreBaselines
<1>4. \A p \in D : Baseline(p) \in Facts /\ Baseline(p).state = "open" /\ Baseline(p) # NoRow
  BY BaselineType, FactsAreRows DEF ScmInv
<1>5. FactsTyped'
  <2>1. row' \in [Pr -> Facts \cup {NoRow}]  BY <1>3, <1>4 DEF ScmInv, FactsTyped
  <2> QED  BY <1>2, <1>3, <2>1 DEF ScmInv, FactsTyped
<1>6. Tracked' = Tracked \cup D
  BY <1>3, <1>4 DEF Tracked
<1>7. PollTyped'
  <2>1. step' # "idle" /\ step' \notin Dispatching  BY <1>2 DEF Dispatching
  <2>2. subjects' \subseteq Tracked'  BY <1>1, <1>6 DEF ScmInv, PollTyped
  <2>3. DOMAIN obs = {}  BY <1>2 DEF ScmInv, PollTyped
  <2> QED  BY <1>1, <1>2, <2>1, <2>2, <2>3 DEF ScmInv, PollTyped
<1>8. SettledIsObserved'
  <2>1. step \notin Dispatching  BY <1>2 DEF Dispatching
  <2>2. \A p \in subjects : p \in Pr /\ row[p].state = "open"
    BY <2>1 DEF ScmInv, PollTyped, SettledIsObserved, Tracked
  <2>3. \A p \in subjects' : row'[p].state = "open"
    BY <1>1, <1>3, <1>4, <2>2
  <2> QED  BY <1>2, <2>3 DEF SettledIsObserved
<1> QED  BY <1>5, <1>7, <1>8 DEF ScmInv

\* The steps between the list and the dispatch leave the rows alone.
LEMMA PrepareStep ==
  ASSUME ScmInv, step \notin Dispatching, step' # "idle", step' # "ending",
         UNCHANGED <<remote, moves, row, ack, subjects, queue, owed>>,
         step' \in {"fetching", "reviewing"} \cup Dispatching,
         step' = "fetching" => DOMAIN obs' = {},
         step' \in Dispatching => left' \subseteq DOMAIN obs',
         DOMAIN obs' \subseteq subjects, left' \subseteq subjects,
         \A p \in DOMAIN obs' : obs'[p] \in Observation
  PROVE  ScmInv'
<1>1. FactsTyped'  BY DEF ScmInv, FactsTyped
<1>2. step' \in {"idle", "listing", "selecting", "fetching"} => step' = "fetching"
  BY DEF Dispatching
<1>3. PollTyped'  BY <1>2 DEF ScmInv, PollTyped, Tracked
<1>4. SettledIsObserved'  BY DEF ScmInv, SettledIsObserved
<1> QED  BY <1>1, <1>3, <1>4 DEF ScmInv

LEMMA SelectStep == ASSUME ScmInv, Select PROVE ScmInv'
<1>1. /\ step = "selecting" /\ step' = "fetching" /\ left' \subseteq subjects
      /\ UNCHANGED <<remote, moves, row, ack, subjects, obs, queue, owed>>
  BY DEF Select, remoteVars, rowVars
<1>2. step \notin Dispatching /\ step' \notin Dispatching  BY <1>1 DEF Dispatching
<1>3. DOMAIN obs' = {}  BY <1>1 DEF ScmInv, PollTyped
<1> QED  BY <1>1, <1>2, <1>3, PrepareStep

LEMMA FetchStep == ASSUME ScmInv, Fetch PROVE ScmInv'
<1>1. /\ step = "fetching" /\ step' = "reviewing" /\ left' = {}
      /\ UNCHANGED <<remote, moves, row, ack, subjects, queue, owed>>
      /\ obs' = [p \in left |-> FromProvider(p)] \/ obs' = <<>>
  BY DEF Fetch, remoteVars, rowVars
<1>2. step \notin Dispatching /\ step' \notin Dispatching  BY <1>1 DEF Dispatching
<1>3. left \subseteq subjects /\ left \subseteq Pr  BY DEF ScmInv, PollTyped, Tracked
<1>4. \A p \in left : FromProvider(p) \in Observation
  BY <1>3, FromProviderType DEF ScmInv
<1>5. DOMAIN obs' \subseteq left /\ \A p \in DOMAIN obs' : obs'[p] \in Observation
  BY <1>1, <1>4
<1> QED  BY <1>1, <1>2, <1>3, <1>5, PrepareStep
LEMMA RefreshReviewsStep == ASSUME ScmInv, RefreshReviews PROVE ScmInv'
<1> DEFINE due == {p \in subjects : NeedsReviewRefresh(p)}
           facts(p) == IF p \in DOMAIN obs THEN obs[p] ELSE FromRow(p)
           refreshedObs(down) ==
             [p \in DOMAIN obs \cup (due \ down) |->
                IF p \in due \ down
                THEN [facts(p) EXCEPT !.review = ReviewOf(p), !.read = "threads"]
                ELSE IF p \in down
                THEN [obs[p] EXCEPT !.review = row[p].review, !.read = "stale"]
                ELSE obs[p]]
<1>1. /\ step = "reviewing" /\ step' = "dispatching" /\ left' = DOMAIN obs'
      /\ UNCHANGED <<remote, moves, row, ack, subjects, queue, owed>>
  BY DEF RefreshReviews, remoteVars, rowVars
<1>2. PICK down \in {{}} \cup {{p} : p \in due} : obs' = refreshedObs(down)
  BY DEF RefreshReviews
<1>3. due \subseteq subjects /\ down \subseteq due /\ DOMAIN obs \subseteq subjects
      /\ subjects \subseteq Tracked
  BY DEF ScmInv, PollTyped
<1> HIDE DEF due
<1>4. DOMAIN obs' = DOMAIN obs \cup (due \ down)  BY <1>2
<1>5. ASSUME NEW p \in DOMAIN obs' PROVE obs'[p] \in Observation
  <2>1. p \in Tracked /\ p \in Pr /\ row[p] \in Facts
    BY <1>3, <1>4 DEF ScmInv, Tracked, FactsTyped
  <2>2. p \in DOMAIN obs => obs[p] \in Observation  BY DEF ScmInv, FactsTyped
  <2>3. facts(p) \in Observation  BY <2>1, <2>2, FromRowType DEF ScmInv
  <2>4. ReviewOf(p) \in Sig \cup {NoReview}  BY <2>1, ReviewOfType DEF ScmInv
  <2>5. row[p].review \in Sig \cup {NoReview}  BY <2>1 DEF Facts
  <2> HIDE DEF facts
  <2>6. CASE p \in due \ down
    <3>1. obs'[p] = [facts(p) EXCEPT !.review = ReviewOf(p), !.read = "threads"]
      BY <1>2, <1>4, <2>6
    <3> QED  BY <2>3, <2>4, <3>1 DEF Observation
  <2>7. CASE p \notin due \ down /\ p \in down
    <3>1. obs'[p] = [obs[p] EXCEPT !.review = row[p].review, !.read = "stale"]
      BY <1>2, <1>4, <2>7
    <3> QED  BY <1>4, <2>2, <2>5, <2>7, <3>1 DEF Observation
  <2>8. CASE p \notin due \ down /\ p \notin down
    <3>1. obs'[p] = obs[p]  BY <1>2, <1>4, <2>8
    <3> QED  BY <1>4, <2>2, <2>8, <3>1
  <2> QED  BY <2>6, <2>7, <2>8
<1>6. step \notin Dispatching /\ step' \in Dispatching  BY <1>1 DEF Dispatching
<1> QED  BY <1>1, <1>3, <1>4, <1>5, <1>6, PrepareStep

\* The facts of an observation replace its row's.
LEMMA StoreFactsStep == ASSUME ScmInv, NEW p \in Pr, StoreFacts(p) PROVE ScmInv'
<1>1. /\ p \in left /\ step = "dispatching" /\ step' = "reacting"
      /\ row' = [row EXCEPT ![p] = Stored(p)]
      /\ UNCHANGED <<remote, moves, ack, subjects, obs, left, queue, owed>>
  BY DEF StoreFacts, AtTurn, StorePending, remoteVars
<1>2. step \in Dispatching /\ step' \in Dispatching  BY <1>1 DEF Dispatching
<1>3. p \in DOMAIN obs  BY <1>1, <1>2 DEF ScmInv, PollTyped
<1>4. Stored(p) \in Facts /\ Stored(p).state = obs[p].state  BY <1>3, StoredType DEF ScmInv
<1>5. Stored(p) # NoRow  BY <1>4, FactsAreRows
<1>6. row \in [Pr -> Facts \cup {NoRow}]  BY DEF ScmInv, FactsTyped
<1>7. FactsTyped'
  <2>1. row' \in [Pr -> Facts \cup {NoRow}]  BY <1>1, <1>4, <1>6
  <2> QED  BY <1>1, <2>1 DEF ScmInv, FactsTyped
<1>8. PollTyped'
  <2>1. Tracked \subseteq Tracked'  BY <1>1, <1>5, <1>6 DEF Tracked
  <2> QED  BY <1>1, <1>2, <2>1 DEF ScmInv, PollTyped
<1>9. SettledIsObserved'
  <2>1. \A q \in subjects : q # p => row'[q] = row[q]
    BY <1>1, <1>6 DEF ScmInv, PollTyped, Tracked
  <2>2. row'[p].state = obs[p].state  BY <1>1, <1>4, <1>6
  <2> QED  BY <1>1, <1>2, <1>3, <2>1, <2>2 DEF ScmInv, SettledIsObserved
<1> QED  BY <1>7, <1>8, <1>9 DEF ScmInv

LEMMA DispatchSteps ==
  ASSUME ScmInv, NEW p \in Pr,
         SkipUnchanged(p) \/ DispatchFails(p) \/ React(p) \/ EndSession(p)
           \/ NudgesDone(p) \/ Acknowledge(p)
  PROVE  ScmInv'
<1>1. queue \in Seq(Kind \X Sig) /\ <<>> \in Seq(Kind \X Sig) /\ DOMAIN ack = Pr
  BY EmptySeq DEF ScmInv, PollTyped, FactsTyped
<1>2. CASE SkipUnchanged(p)
  BY <1>1, <1>2, DispatchStep
     DEF SkipUnchanged, Dispatching, remoteVars, rowVars
<1>3. CASE DispatchFails(p)
  BY <1>1, <1>3, DispatchStep
     DEF DispatchFails, GiveUp, Dispatching, remoteVars, rowVars
<1>4. CASE React(p)
  <2>1. /\ step = "reacting" /\ step' \in Dispatching
        /\ step' = "ending" => SessionComplete
        /\ UNCHANGED <<remote, moves, row, ack, subjects, obs, left, owed>>
        /\ queue' \in {queue, Nudges(p), <<>>}
    BY <1>4 DEF React, Dispatching, remoteVars, rowVars
  <2>2. p \in left /\ step \in Dispatching  BY <1>4, <2>1 DEF React, AtTurn, Dispatching
  <2>3. p \in DOMAIN obs  BY <2>2 DEF ScmInv, PollTyped
  <2>4. Nudges(p) \in Seq(Kind \X Sig)  BY <2>3, NudgesType DEF ScmInv
  <2>5. queue' \in Seq(Kind \X Sig)  BY <1>1, <2>1, <2>4
  <2> QED  BY <1>1, <2>1, <2>2, <2>5, DispatchStep DEF SessionComplete
<1>5. CASE EndSession(p)
  BY <1>1, <1>5, DispatchStep DEF EndSession, Dispatching, remoteVars, rowVars
<1>6. CASE NudgesDone(p)
  BY <1>1, <1>6, DispatchStep DEF NudgesDone, Dispatching, remoteVars, rowVars
<1>7. CASE Acknowledge(p)
  BY <1>1, <1>7, DispatchStep DEF Acknowledge, Dispatching, remoteVars
<1> QED  BY <1>2, <1>3, <1>4, <1>5, <1>6, <1>7

LEMMA NudgeSteps ==
  ASSUME ScmInv, NEW p \in Pr, Nudge(p) \/ NudgeSaved(p) \/ NudgeFails(p)
  PROVE  ScmInv'
<1>1. queue \in Seq(Kind \X Sig) /\ <<>> \in Seq(Kind \X Sig) /\ DOMAIN ack = Pr
  BY EmptySeq DEF ScmInv, PollTyped, FactsTyped
<1>2. CASE Nudge(p)
  <2>1. /\ step = "nudging" /\ step' = "nudging" /\ queue # <<>>
        /\ UNCHANGED <<remote, moves, row, ack, subjects, obs, left>>
        /\ queue' \in {queue, Tail(queue)}
        /\ owed' \subseteq owed
    BY <1>2 DEF Nudge, Told, remoteVars, rowVars
  <2>2. queue' \in Seq(Kind \X Sig)  BY <1>1, <2>1, HeadTailProperties
  <2> QED  BY <1>1, <2>1, <2>2, DispatchStep DEF Dispatching
<1>3. CASE NudgeSaved(p)
  <2>1. /\ step = "nudging" /\ step' = "nudging" /\ queue # <<>>
        /\ UNCHANGED <<remote, moves, row, ack, subjects, obs, left, owed>>
        /\ queue' = Tail(queue)
    BY <1>3 DEF NudgeSaved, remoteVars, rowVars
  <2>2. queue' \in Seq(Kind \X Sig)  BY <1>1, <2>1, HeadTailProperties
  <2> QED  BY <1>1, <2>1, <2>2, DispatchStep DEF Dispatching
<1>4. CASE NudgeFails(p)
  <2>1. /\ step = "nudging" /\ step' = "dispatching"
        /\ UNCHANGED <<remote, moves, row, ack, subjects, obs>>
        /\ left' \subseteq left /\ queue' = <<>> /\ owed' \subseteq owed
    BY <1>4 DEF NudgeFails, Told, GiveUp, remoteVars, rowVars
  <2> QED  BY <1>1, <2>1, DispatchStep DEF Dispatching
<1> QED  BY <1>2, <1>3, <1>4
-----------------------------------------------------------------------------
(* The invariant.                                                          *)

LEMMA ScmInitInv == ASSUME ScmInit PROVE ScmInv
<1>1. \A p \in Pr : [state |-> "none", ci |-> 1, review |-> 1, conflict |-> FALSE,
                     base |-> Base[p], updated |-> 0] \in RemoteFacts
  <2>1. 1 \in 1..Len(CiRun) /\ 1 \in 1..Len(ReviewRun)
    <3>1. CiRun \in Seq(Sig) /\ ReviewRun \in Seq(Sig \cup {NoReview})
      BY ScmAssumption DEF ScmAssumption
    <3>2. Len(CiRun) > 0 /\ Len(ReviewRun) > 0  BY ScmAssumption DEF ScmAssumption
    <3>3. Len(CiRun) \in Nat /\ Len(ReviewRun) \in Nat  BY <3>1, LenProperties
    <3> QED  BY <3>2, <3>3
  <2>2. \A p \in Pr : Base[p] \in Pr \cup {0}  BY ScmAssumption DEF ScmAssumption
  <2> QED  BY <2>1, <2>2 DEF RemoteFacts, States
<1>2. DOMAIN obs = {}  BY DEF ScmInit
<1>3. FactsTyped  BY <1>1, <1>2 DEF ScmInit, FactsTyped
<1>4. queue \in Seq(Kind \X Sig)  BY EmptySeq DEF ScmInit
<1>5. PollTyped  BY <1>2, <1>4 DEF ScmInit, PollTyped, Dispatching
<1>6. SettledIsObserved  BY DEF ScmInit, SettledIsObserved
<1> QED  BY <1>3, <1>5, <1>6 DEF ScmInv

LEMMA ScmStepInv == ASSUME ScmInv, [ScmNext]_scmVars PROVE ScmInv'
<1>1. CASE \E p \in Pr : \/ Open(p) \/ CiTurns(p) \/ ReviewTurns(p) \/ ConflictTurns(p)
                         \/ Retarget(p) \/ \E how \in {"merged", "closed"} : Settle(p, how)
  BY <1>1, ProviderSteps
<1>2. CASE \/ \E p \in Pr : ReviewDue(p)
           \/ \E to \in Moods : MoodTurns(to)
           \/ PollNothing
           \/ UNCHANGED scmVars
  BY <1>2, IdleSteps
<1>3. CASE DaemonRestarts
  BY <1>3, PollOverStep DEF DaemonRestarts, remoteVars
<1>4. CASE PollStart  BY <1>4, PollStartStep
<1>5. CASE DiscoverNew  BY <1>5, DiscoverNewStep
<1>6. CASE Select  BY <1>6, SelectStep
<1>7. CASE Fetch  BY <1>7, FetchStep
<1>8. CASE RefreshReviews  BY <1>8, RefreshReviewsStep
<1>9. CASE \E p \in Pr : StoreFacts(p)  BY <1>9, StoreFactsStep
<1>10. CASE \E p \in Pr : \/ SkipUnchanged(p) \/ DispatchFails(p) \/ React(p)
                          \/ EndSession(p) \/ NudgesDone(p) \/ Acknowledge(p)
  BY <1>10, DispatchSteps
<1>11. CASE \E p \in Pr : Nudge(p) \/ NudgeSaved(p) \/ NudgeFails(p)
  BY <1>11, NudgeSteps
<1>12. CASE PollEnd
  BY <1>12, PollOverStep DEF PollEnd, remoteVars
<1> QED
  BY <1>1, <1>2, <1>3, <1>4, <1>5, <1>6, <1>7, <1>8, <1>9, <1>10, <1>11, <1>12
     DEF ScmNext, PollNext

LEMMA ScmInvHolds == ScmSpec => []ScmInv
  BY ScmInitInv, ScmStepInv, PTL DEF ScmSpec

-----------------------------------------------------------------------------
(* The observer uses the nudge pipe as SendOnce allows it to be used.      *)

\* The reaction sends nudges of the kinds and signatures the pipe knows.
LEMMA QueuedNudge ==
  ASSUME ScmInv, queue # <<>>
  PROVE  Head(queue)[1] \in Kind /\ Head(queue)[2] \in Sig
<1>1. Head(queue) \in Kind \X Sig  BY HeadTailProperties DEF ScmInv, PollTyped
<1> QED  BY <1>1

LEMMA ScmStepNudges == ASSUME ScmInv, [ScmNext]_scmVars PROVE [NudgeNext]_nudgeVars
<1>1. ASSUME NEW p \in Pr, Nudge(p) PROVE NudgeNext
  BY <1>1, QueuedNudge DEF Nudge, NudgeNext
<1>2. ASSUME NEW p \in Pr, NudgeFails(p) PROVE NudgeNext
  BY <1>2, QueuedNudge DEF NudgeFails, NudgeNext
<1>3. ASSUME NEW p \in Pr, NudgeSaved(p) PROVE NudgeNext
  BY <1>3 DEF NudgeSaved, NudgeNext
<1>4. ASSUME NEW p \in Pr, EndSession(p) PROVE NudgeNext
  BY <1>4 DEF EndSession, NudgeNext
<1>5. ASSUME NEW to \in Moods, MoodTurns(to) PROVE NudgeNext
  <2>1. to \in {"workable", "paused", "ended"}  BY ScmAssumption DEF ScmAssumption
  <2> QED  BY <1>5, <2>1 DEF MoodTurns, NudgeNext
<1>6. CASE DaemonRestarts  BY <1>6 DEF DaemonRestarts, NudgeNext
<1>7. CASE \/ \E p \in Pr : \/ Open(p) \/ CiTurns(p) \/ ReviewTurns(p) \/ ConflictTurns(p)
                            \/ Retarget(p) \/ \E how \in {"merged", "closed"} : Settle(p, how)
  BY <1>7 DEF Open, CiTurns, ReviewTurns, ConflictTurns, Retarget, Settle, Update, Change
<1>8. CASE \/ PollStart \/ PollNothing \/ DiscoverNew \/ Select \/ Fetch \/ RefreshReviews
           \/ PollEnd \/ UNCHANGED scmVars
  BY <1>8 DEF PollStart, PollNothing, DiscoverNew, Select, Fetch, RefreshReviews, PollEnd,
              scmVars
<1>9. CASE \E p \in Pr : \/ SkipUnchanged(p) \/ StoreFacts(p) \/ DispatchFails(p) \/ React(p)
                         \/ NudgesDone(p) \/ Acknowledge(p) \/ ReviewDue(p)
  BY <1>9 DEF SkipUnchanged, StoreFacts, DispatchFails, React, NudgesDone, Acknowledge,
              ReviewDue
<1> QED
  BY <1>1, <1>2, <1>3, <1>4, <1>5, <1>6, <1>7, <1>8, <1>9 DEF ScmNext, PollNext

\* Every behaviour of the observer is one of the nudge pipe: the reactions of
\* ApplyPRObservation use sendOnce as it may be used.
THEOREM ScmImplementsNudge == ScmSpec => NudgeSpec
<1>1. ScmInit => NudgeInit  BY DEF ScmInit
<1>2. ScmInv /\ [ScmNext]_scmVars => [NudgeNext]_nudgeVars  BY ScmStepNudges
<1> QED  BY <1>1, <1>2, ScmInvHolds, PTL DEF ScmSpec, NudgeSpec

\* The observer's agent is not told the same thing twice, unless the record of
\* the paste was lost.
THEOREM ScmNoRepeat == ScmSpec => NudgeNotRepeated
  BY ScmImplementsNudge, NoRepeat

\* The observer's reactions lose no attempts.
THEOREM ScmAttemptsGrow == ScmSpec => AttemptsKept
  BY ScmImplementsNudge, AttemptsGrow

-----------------------------------------------------------------------------
(* Types, and the end of a session.                                        *)

\* The types of the observer hold, for any pull requests, checks and reviews.
THEOREM ScmTypesHold == ScmSpec => []ScmTypeOK
<1>1. ASSUME ScmInv, NudgeTypeOK PROVE ScmTypeOK
  <2>1. DOMAIN remote = Pr /\ DOMAIN row = Pr /\ DOMAIN ack = Pr
    BY <1>1 DEF ScmInv, FactsTyped
  <2>2. \A i \in 1..Len(queue) : queue[i] \in Kind \X Sig
    BY <1>1, ElementOfSeq DEF ScmInv, PollTyped
  <2>3. /\ step \in {"idle", "listing", "selecting", "fetching", "reviewing"} \cup Dispatching
        /\ DOMAIN obs \subseteq subjects /\ left \subseteq subjects
        /\ owed \subseteq Pr \X Kind
    BY <1>1 DEF ScmInv, PollTyped
  <2> QED  BY <1>1, <2>1, <2>2, <2>3 DEF ScmTypeOK, Dispatching
<1> QED  BY <1>1, ScmInvHolds, ScmImplementsNudge, NudgeTypesHold, PTL

\* At the end of a session every subject of the poll has been observed settled.
LEMMA EndingIsObserved ==
  ASSUME ScmInv, step = "ending", NEW p \in subjects
  PROVE  p \in DOMAIN obs /\ obs[p].state # "open"
<1>1. p \in Tracked /\ OpenTracked = {}  BY DEF ScmInv, PollTyped, SettledIsObserved
<1>2. row[p].state # "open"  BY <1>1 DEF OpenTracked
<1> QED  BY <1>2 DEF ScmInv, SettledIsObserved

\* For any number of pull requests, stacked or not: a merge ends the session
\* only when every pull request the poll knows of was seen merged or closed
\* (sessionComplete over the rows that discoverNewPRs and the dispatch store).
THEOREM EndWaitsForWork == ScmSpec => EndsWithItsWork
<1>1. ScmInv /\ [ScmNext]_scmVars =>
        (step = "ending" /\ session' # session =>
           \A p \in subjects : p \in DOMAIN obs /\ obs[p].state # "open")
  BY EndingIsObserved
<1> QED  BY <1>1, ScmInvHolds, PTL DEF ScmSpec, EndsWithItsWork
=============================================================================
