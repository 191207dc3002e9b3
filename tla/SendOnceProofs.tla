--------------------------- MODULE SendOnceProofs ---------------------------
(***************************************************************************)
(* Proofs about SendOnce, for every set of pull requests, kinds and        *)
(* signatures and every maximum.                                           *)
(***************************************************************************)
EXTENDS SendOnce, TLAPS

Inv == NudgeTypeOK /\ RecordSound

\* Types of the helpers.
LEMMA LoadedType ==
  ASSUME NudgeTypeOK, NEW p \in Pr
  PROVE  Loaded(p) \in [Kind -> Record]
  BY DEF NudgeTypeOK, Loaded, Merged, Record

LEMMA CountedType ==
  ASSUME NudgeAssumption, NEW k \in Kind, NEW n \in Nat
  PROVE  Counted(k, n) \in Nat /\ Counted(k, n) >= n
  BY DEF NudgeAssumption, Counted

\* Loading a pull request loses no attempts of its row.
LEMMA LoadedKeepsAttempts ==
  ASSUME NudgeTypeOK, RecordSound, NEW p \in Pr, NEW k \in Kind
  PROVE  Loaded(p)[k].attempts >= saved[p][k].attempts
<1>1. saved[p][k].attempts \in Nat  BY DEF NudgeTypeOK, Record
<1>2. CASE p \in loaded  BY <1>2 DEF RecordSound, Loaded
<1>3. CASE p \notin loaded
  <2>1. record[p][k] = NoRecord  BY <1>3 DEF RecordSound
  <2>2. Loaded(p)[k] = Merged(NoRecord, saved[p][k])  BY <1>3, <2>1 DEF Loaded
  <2>3. Merged(NoRecord, saved[p][k]).attempts >= saved[p][k].attempts
    BY <1>1 DEF Merged, NoRecord
  <2> QED  BY <2>2, <2>3
<1> QED  BY <1>2, <1>3

LEMMA InitInv == ASSUME NudgeAssumption, NudgeInit PROVE Inv
  BY DEF NudgeAssumption, NudgeInit, Inv, NudgeTypeOK, RecordSound, Record, NoRecord, Loaded, Merged

\* A load leaves the record that is looked up as it was.
LEMMA LoadKeepsInv ==
  ASSUME NudgeAssumption, Inv, NEW p \in Pr, Load(p),
         UNCHANGED <<session, saved, writing, told, doubt>>
  PROVE  Inv'
<1>1. NudgeTypeOK /\ RecordSound  BY DEF Inv
<1>2. record' = [record EXCEPT ![p] = Loaded(p)] /\ loaded' = loaded \cup {p}  BY DEF Load
<1>3. Loaded(p) \in [Kind -> Record]  BY <1>1, LoadedType
<1>4. NudgeTypeOK'  BY <1>1, <1>2, <1>3 DEF NudgeTypeOK
<1>5. \A q \in Pr : Loaded(q)' = Loaded(q)
  BY <1>1, <1>2, ZenonT(60) DEF Loaded, Merged, NudgeTypeOK
<1>6. \A k \in Kind : Loaded(p)[k].attempts >= saved[p][k].attempts
  BY <1>1, LoadedKeepsAttempts
<1>7. RecordSound'
  BY <1>1, <1>2, <1>3, <1>5, <1>6 DEF RecordSound, NudgeTypeOK
<1> QED  BY <1>4, <1>7 DEF Inv

\* Every step keeps the invariant.
LEMMA StepInv == ASSUME NudgeAssumption, Inv, [NudgeNext]_nudgeVars PROVE Inv'
<1> USE DEF Inv
<1>1. ASSUME NEW p \in Pr, NEW k \in Kind, NEW sig \in Sig, SkipAccounted(p, k, sig) PROVE Inv'
  BY <1>1, LoadKeepsInv DEF SkipAccounted
<1>2. ASSUME NEW p \in Pr, NEW k \in Kind, NEW sig \in Sig, Suppressed(p, k, sig) PROVE Inv'
  BY <1>2, LoadKeepsInv DEF Suppressed
<1>3. ASSUME NEW p \in Pr, NEW k \in Kind, NEW sig \in Sig, NotRead(p, k, sig) PROVE Inv'
  <2>1. CASE Load(p)  BY <1>3, <2>1, LoadKeepsInv DEF NotRead
  <2>2. CASE UNCHANGED <<record, loaded>>
    BY <1>3, <2>2 DEF NotRead, NudgeTypeOK, RecordSound, Loaded
  <2> QED  BY <1>3, <2>1, <2>2 DEF NotRead
<1>4. ASSUME NEW p \in Pr, NEW k \in Kind, NEW sig \in Sig, PasteFails(p, k, sig) PROVE Inv'
  <2>1. CASE UNCHANGED <<told, doubt>>  BY <1>4, <2>1, LoadKeepsInv DEF PasteFails
  <2>2. CASE /\ told' = [told EXCEPT ![p][k] = sig]
             /\ doubt' = doubt \cup {<<p, k>>}
    <3>1. record' = [record EXCEPT ![p] = Loaded(p)] /\ loaded' = loaded \cup {p}
      BY <1>4 DEF PasteFails, Load
    <3>2. UNCHANGED <<session, saved, writing>>  BY <1>4 DEF PasteFails
    <3>3. Loaded(p) \in [Kind -> Record]  BY LoadedType
    <3>4. NudgeTypeOK'  BY <2>2, <3>1, <3>2, <3>3 DEF NudgeTypeOK
    <3>5. \A q \in Pr : Loaded(q)' = Loaded(q)
      BY <3>1, <3>2, ZenonT(60) DEF Loaded, Merged, NudgeTypeOK
    <3>6. \A j \in Kind : Loaded(p)[j].attempts >= saved[p][j].attempts
      BY LoadedKeepsAttempts
    <3>7. \A q \in Pr, j \in Kind : <<q, j>> \notin doubt' =>
            <<q, j>> \notin doubt /\ told'[q][j] = told[q][j]
      BY <2>2 DEF NudgeTypeOK
    <3>8. RecordSound'
      BY <3>1, <3>2, <3>3, <3>5, <3>6, <3>7 DEF RecordSound, NudgeTypeOK
    <3> QED  BY <3>4, <3>8
  <2> QED  BY <1>4, <2>1, <2>2 DEF PasteFails
<1>5. ASSUME NEW p \in Pr, NEW k \in Kind, NEW sig \in Sig, Paste(p, k, sig) PROVE Inv'
  <2> DEFINE r == [sig |-> sig, attempts |-> Counted(k, Loaded(p)[k].attempts)]
             f == [Loaded(p) EXCEPT ![k] = r]
  <2>1. Loaded(p) \in [Kind -> Record]  BY LoadedType
  <2>2. Loaded(p)[k].attempts \in Nat  BY <2>1 DEF Record
  <2>3. r \in Record /\ r.attempts >= Loaded(p)[k].attempts
    BY <2>2, CountedType DEF Record
  <2>4. record' = [record EXCEPT ![p] = f]
    BY <1>5, <2>1 DEF Paste
  <2>5. f \in [Kind -> Record]  BY <2>1, <2>3
  <2>6. /\ loaded' = loaded \cup {p}
        /\ writing' = {<<p, k>>}
        /\ told' = [told EXCEPT ![p][k] = sig]
        /\ doubt' = doubt \ {<<p, k>>}
        /\ UNCHANGED <<session, saved>>
    BY <1>5 DEF Paste
  <2>7. NudgeTypeOK'
    <3> HIDE DEF f
    <3>1. record' \in [Pr -> [Kind -> Record]]  BY <2>4, <2>5 DEF NudgeTypeOK
    <3>2. told' \in [Pr -> [Kind -> Sig \cup {NoSig}]]  BY <2>6 DEF NudgeTypeOK
    <3>3. writing' \in SUBSET (Pr \X Kind) /\ doubt' \in SUBSET (Pr \X Kind)
      BY <2>6 DEF NudgeTypeOK
    <3> QED  BY <2>6, <3>1, <3>2, <3>3 DEF NudgeTypeOK
  <2>8. \A q \in Pr : q # p => Loaded(q)' = Loaded(q)
    BY <2>4, <2>5, <2>6 DEF Loaded, Merged, NudgeTypeOK
  <2>9. Loaded(p)' = f
    BY <2>4, <2>5, <2>6 DEF Loaded, Merged, NudgeTypeOK
  <2>10. \A q \in Pr, j \in Kind : <<q, j>> \notin doubt' => Loaded(q)'[j].sig = told'[q][j]
    <3> SUFFICES ASSUME NEW q \in Pr, NEW j \in Kind, <<q, j>> \notin doubt'
                 PROVE  Loaded(q)'[j].sig = told'[q][j]
      OBVIOUS
    <3>1. CASE q = p /\ j = k
      BY <3>1, <2>1, <2>5, <2>6, <2>9 DEF NudgeTypeOK
    <3>2. CASE q = p /\ j # k
      <4>1. <<q, j>> \notin doubt  BY <3>2, <2>6
      <4>2. Loaded(p)[j].sig = told[p][j]  BY <3>2, <4>1 DEF RecordSound
      <4> QED  BY <3>2, <4>2, <2>1, <2>6, <2>9 DEF NudgeTypeOK
    <3>3. CASE q # p
      <4>1. <<q, j>> \notin doubt  BY <3>3, <2>6
      <4>2. Loaded(q)[j].sig = told[q][j]  BY <4>1 DEF RecordSound
      <4> QED  BY <3>3, <4>2, <2>6, <2>8 DEF NudgeTypeOK
    <3> QED  BY <3>1, <3>2, <3>3
  <2>11. \A j \in Kind : Loaded(p)[j].attempts >= saved[p][j].attempts
    BY LoadedKeepsAttempts
  <2>12. \A j \in Kind : f[j].attempts >= saved[p][j].attempts
    BY <2>1, <2>3, <2>11 DEF NudgeTypeOK, Record
  <2>13. \A q \in Pr, j \in Kind :
           /\ q \in loaded' => record'[q][j].attempts >= saved'[q][j].attempts
           /\ q \notin loaded' => record'[q][j] = NoRecord
    BY <2>4, <2>6, <2>12 DEF RecordSound, NudgeTypeOK
  <2>14. \A pk \in writing' : pk[1] \in loaded' /\ writing' = {pk}  BY <2>6
  <2> QED  BY <2>7, <2>10, <2>13, <2>14 DEF RecordSound
<1>6. ASSUME Persist PROVE Inv'
  <2>1. PICK p \in Pr, k \in Kind :
          /\ writing = {<<p, k>>}
          /\ saved' = [saved EXCEPT ![p] = record[p]]
          /\ writing' = {}
          /\ UNCHANGED <<session, record, loaded, told, doubt>>
    BY <1>6 DEF Persist
  <2>2. p \in loaded  BY <2>1 DEF RecordSound
  <2>3. NudgeTypeOK'  BY <2>1 DEF NudgeTypeOK
  <2>4. \A q \in Pr : Loaded(q)' = Loaded(q)
    BY <2>1, <2>2 DEF Loaded, Merged, NudgeTypeOK
  <2>5. ASSUME NEW q \in Pr, NEW j \in Kind, q \in loaded
        PROVE  record[q][j].attempts >= saved'[q][j].attempts
    <3>1. record[q][j].attempts \in Nat  BY DEF NudgeTypeOK, Record
    <3>2. saved'[q] = IF q = p THEN record[p] ELSE saved[q]  BY <2>1 DEF NudgeTypeOK
    <3>3. record[q][j].attempts >= saved[q][j].attempts  BY <2>5 DEF RecordSound
    <3>4. CASE q = p  BY <3>1, <3>2, <3>4
    <3>5. CASE q # p  BY <3>2, <3>3, <3>5
    <3> QED  BY <3>4, <3>5
  <2> QED  BY <2>1, <2>3, <2>4, <2>5 DEF RecordSound
<1>7. ASSUME PersistFails PROVE Inv'
  BY <1>7 DEF PersistFails, NudgeTypeOK, RecordSound, Loaded
<1>8. ASSUME ForgetNudges PROVE Inv'
  <2>1. /\ record' = [p \in Pr |-> [k \in Kind |-> NoRecord]]
        /\ loaded' = {} /\ writing' = {}
        /\ doubt' = doubt \cup
             {pk \in Pr \X Kind : saved[pk[1]][pk[2]].sig # told[pk[1]][pk[2]]}
        /\ UNCHANGED <<session, saved, told>>
    BY <1>8 DEF ForgetNudges
  <2>2. NudgeTypeOK'  BY <2>1 DEF NudgeTypeOK, Record, NoRecord
  <2>3. ASSUME NEW p \in Pr, NEW k \in Kind PROVE Loaded(p)'[k].sig = saved[p][k].sig
    BY <2>1, NudgeAssumption DEF Loaded, Merged, NudgeTypeOK, Record, NoRecord
  <2>4. ASSUME NEW p \in Pr, NEW k \in Kind, <<p, k>> \notin doubt'
        PROVE  saved[p][k].sig = told[p][k]
    BY <2>1, <2>4
  <2> QED  BY <2>1, <2>2, <2>3, <2>4 DEF RecordSound
<1>9. ASSUME NEW to \in {"workable", "paused", "ended"}, SessionMoves(to) PROVE Inv'
  BY <1>9 DEF SessionMoves, NudgeTypeOK, RecordSound, Loaded
<1>10. CASE UNCHANGED nudgeVars
  BY <1>10 DEF nudgeVars, NudgeTypeOK, RecordSound, Loaded
<1> QED
  BY <1>1, <1>2, <1>3, <1>4, <1>5, <1>6, <1>7, <1>8, <1>9, <1>10 DEF NudgeNext

LEMMA InvHolds == NudgeSpec => []Inv
<1>1. NudgeInit => Inv  BY InitInv, NudgeAssumption
<1>2. Inv /\ [NudgeNext]_nudgeVars => Inv'  BY StepInv, NudgeAssumption
<1> QED  BY <1>1, <1>2, PTL DEF NudgeSpec

\* The types of the nudge pipe hold in every reachable state.
THEOREM NudgeTypesHold == NudgeSpec => []NudgeTypeOK
<1>1. Inv => NudgeTypeOK  BY DEF Inv
<1> QED  BY <1>1, InvHolds, PTL

\* Only a paste begins to save, and it tells its own signature, which the
\* record did not have.
LEMMA PasteIsNews ==
  ASSUME Inv, [NudgeNext]_nudgeVars, NEW p \in Pr, NEW k \in Kind,
         Pastes(p, k), <<p, k>> \notin doubt
  PROVE  told'[p][k] # told[p][k]
<1>1. writing = {} /\ writing' = {<<p, k>>}  BY DEF Pastes
<1>2. Loaded(p)[k].sig = told[p][k]  BY DEF Inv, RecordSound
<1>3. PICK q \in Pr, j \in Kind, sig \in Sig : Paste(q, j, sig)
  BY <1>1 DEF NudgeNext, nudgeVars, SkipAccounted, Suppressed, NotRead, PasteFails,
              Persist, PersistFails, ForgetNudges, SessionMoves
<1>4. q = p /\ j = k  BY <1>1, <1>3 DEF Paste
<1>5. Loaded(p)[k].sig # sig  BY <1>3, <1>4 DEF Paste, Accounted
<1>6. told'[p][k] = sig  BY <1>3, <1>4 DEF Paste, Inv, NudgeTypeOK
<1> QED  BY <1>2, <1>5, <1>6

\* For every set of pull requests and every maximum: no nudge is repeated,
\* unless the record of the one before was lost (reactions.go, sendOnce).
THEOREM NoRepeat == NudgeSpec => NudgeNotRepeated
<1>1. Inv /\ [NudgeNext]_nudgeVars =>
        \A p \in Pr, k \in Kind :
          Pastes(p, k) /\ <<p, k>> \notin doubt => told'[p][k] # told[p][k]
  BY PasteIsNews
<1> QED  BY <1>1, InvHolds, PTL DEF NudgeSpec, NudgeNotRepeated

\* Only the write of a record changes the row, and its pull request is loaded.
LEMMA StepKeepsAttempts ==
  ASSUME Inv, [NudgeNext]_nudgeVars, NEW p \in Pr, NEW k \in Kind
  PROVE  saved'[p][k].attempts >= saved[p][k].attempts
<1>1. saved[p][k].attempts \in Nat  BY DEF Inv, NudgeTypeOK, Record
<1>2. CASE UNCHANGED saved  BY <1>1, <1>2
<1>3. CASE Persist
  <2>1. PICK q \in Pr, j \in Kind :
          writing = {<<q, j>>} /\ saved' = [saved EXCEPT ![q] = record[q]]
    BY <1>3 DEF Persist
  <2>2. q \in loaded  BY <2>1 DEF Inv, RecordSound
  <2>3. CASE p = q
    <3>1. saved'[p] = record[p]  BY <2>1, <2>3 DEF Inv, NudgeTypeOK
    <3>2. record[p][k].attempts >= saved[p][k].attempts
      BY <2>2, <2>3 DEF Inv, RecordSound
    <3> QED  BY <3>1, <3>2
  <2>4. CASE p # q
    <3>1. saved'[p] = saved[p]  BY <2>1, <2>4 DEF Inv, NudgeTypeOK
    <3> QED  BY <1>1, <3>1
  <2> QED  BY <2>3, <2>4
<1> QED
  BY <1>2, <1>3 DEF NudgeNext, nudgeVars, SkipAccounted, Suppressed, NotRead, PasteFails,
                    Paste, PersistFails, ForgetNudges, SessionMoves

\* For every set of pull requests and every maximum: the attempts in a row
\* never go down, across restarts (persistPRSignaturesLocked).
THEOREM AttemptsGrow == NudgeSpec => AttemptsKept
<1>1. Inv /\ [NudgeNext]_nudgeVars =>
        \A p \in Pr, k \in Kind : saved'[p][k].attempts >= saved[p][k].attempts
  BY StepKeepsAttempts
<1> QED  BY <1>1, InvHolds, PTL DEF NudgeSpec, AttemptsKept
=============================================================================
