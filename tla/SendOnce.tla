------------------------------- MODULE SendOnce -------------------------------
(***************************************************************************)
(* The nudge pipe of the lifecycle manager: sendOnce, which types a        *)
(* message into a session's pane at most once per signature, through the   *)
(* session guard, and keeps its record in memory and in the pull request's *)
(* row (internal/lifecycle/reactions.go, internal/sessionguard/guard.go).  *)
(*                                                                         *)
(* A call holds one mutex from the lookup to the write of the record, so   *)
(* the only thing between the paste and the record's write is the end of   *)
(* the daemon.  One session; its pull requests; any caller.                *)
(***************************************************************************)
EXTENDS Integers

CONSTANTS
  Pr,        \* pull requests of the session
  Kind,      \* kinds of nudge: with the pull request, the reaction key
  Sig,       \* signatures of what a nudge is about
  NoSig,     \* no signature: not a member of Sig
  MaxNudge   \* per kind: maxAttempts, 0 for no maximum

ASSUME NudgeAssumption ==
  /\ NoSig \notin Sig
  /\ MaxNudge \in [Kind -> Nat]

VARIABLES
  session,   \* "workable", "paused" (it awaits the user) or "ended"
  record,    \* memory: per pull request and kind, last signature and attempts
  loaded,    \* memory: the pull requests whose saved record has been merged
  saved,     \* durable: pr.last_nudge_signature
  writing,   \* the call that has pasted and has yet to save: its pull request and kind
  told,      \* history: per pull request and kind, the last signature in the pane
  doubt      \* history: where the record of the last paste may be missing

nudgeVars == <<session, record, loaded, saved, writing, told, doubt>>

Record == [sig : Sig \cup {NoSig}, attempts : Nat]
NoRecord == [sig |-> NoSig, attempts |-> 0]

-----------------------------------------------------------------------------

\* loadPRSignaturesLocked: what memory has wins, attempts only go up.
Merged(mem, disk) ==
  [sig |-> IF mem.sig = NoSig THEN disk.sig ELSE mem.sig,
   attempts |-> IF disk.attempts > mem.attempts THEN disk.attempts ELSE mem.attempts]

\* Mutant: the saved record is not read back.
LoadedNot(p) == record[p]

\* The record of p once it is loaded; each pull request is loaded once.
Loaded(p) ==
  IF p \in loaded THEN record[p]
  ELSE [k \in Kind |-> Merged(record[p][k], saved[p][k])]

Load(p) == record' = [record EXCEPT ![p] = Loaded(p)] /\ loaded' = loaded \cup {p}

\* Already sent, or the attempts are spent.
Accounted(p, k, sig) ==
  LET r == Loaded(p)[k] IN
  r.sig = sig \/ (MaxNudge[k] > 0 /\ r.attempts >= MaxNudge[k])

\* Only a kind with a maximum ever reads its attempts: the others are not counted.
Counted(k, n) == IF MaxNudge[k] > 0 THEN n + 1 ELSE n

-----------------------------------------------------------------------------
(* The ways a call goes.  The caller sees "done" (accounted or suppressed  *)
(* without an error) or an error.                                          *)

SkipAccounted(p, k, sig) ==
  /\ writing = {}
  /\ Accounted(p, k, sig)
  /\ Load(p)
  /\ UNCHANGED <<session, saved, writing, told, doubt>>

\* The guard re-reads the session and refuses.
Suppressed(p, k, sig) ==
  /\ writing = {}
  /\ ~Accounted(p, k, sig)
  /\ session # "workable"
  /\ Load(p)
  /\ UNCHANGED <<session, saved, writing, told, doubt>>

\* The load fails, or the guard cannot read the session.
NotRead(p, k, sig) ==
  /\ writing = {}
  /\ \/ p \notin loaded /\ UNCHANGED <<record, loaded>>
     \/ ~Accounted(p, k, sig) /\ Load(p)
  /\ UNCHANGED <<session, saved, writing, told, doubt>>

\* The paste fails, perhaps after the text has reached the pane.
PasteFails(p, k, sig) ==
  /\ writing = {}
  /\ session = "workable"
  /\ ~Accounted(p, k, sig)
  /\ Load(p)
  /\ \/ UNCHANGED <<told, doubt>>
     \/ /\ told' = [told EXCEPT ![p][k] = sig]
        /\ doubt' = doubt \cup {<<p, k>>}
  /\ UNCHANGED <<session, saved, writing>>

\* Send, then record in memory.
Paste(p, k, sig) ==
  /\ writing = {}
  /\ session = "workable"
  /\ ~Accounted(p, k, sig)
  /\ record' = [record EXCEPT ![p] = [Loaded(p) EXCEPT ![k] =
                  [sig |-> sig, attempts |-> Counted(k, @.attempts)]]]
  /\ loaded' = loaded \cup {p}
  /\ writing' = {<<p, k>>}
  /\ told' = [told EXCEPT ![p][k] = sig]
  /\ doubt' = doubt \ {<<p, k>>}
  /\ UNCHANGED <<session, saved>>

\* persistPRSignaturesLocked writes every key of the pull request.
Persist ==
  \E p \in Pr, k \in Kind :
    /\ writing = {<<p, k>>}
    /\ saved' = [saved EXCEPT ![p] = record[p]]
    /\ writing' = {}
    /\ UNCHANGED <<session, record, loaded, told, doubt>>

PersistFails ==
  /\ writing # {}
  /\ writing' = {}
  /\ UNCHANGED <<session, record, loaded, saved, told, doubt>>

\* The daemon restarts: the memory is gone.
ForgetNudges ==
  /\ record' = [p \in Pr |-> [k \in Kind |-> NoRecord]]
  /\ loaded' = {}
  /\ writing' = {}
  /\ doubt' = doubt \cup {pk \in Pr \X Kind : saved[pk[1]][pk[2]].sig # told[pk[1]][pk[2]]}
  /\ UNCHANGED <<session, saved, told>>

\* The session pauses on its user and goes on, ends, is restored.
SessionMoves(to) ==
  /\ session' = to
  /\ UNCHANGED <<record, loaded, saved, writing, told, doubt>>

NudgeInit ==
  /\ session = "workable"
  /\ record = [p \in Pr |-> [k \in Kind |-> NoRecord]]
  /\ loaded = {}
  /\ saved = [p \in Pr |-> [k \in Kind |-> NoRecord]]
  /\ writing = {}
  /\ told = [p \in Pr |-> [k \in Kind |-> NoSig]]
  /\ doubt = {}

NudgeNext ==
  \/ \E p \in Pr, k \in Kind, sig \in Sig :
       \/ SkipAccounted(p, k, sig)
       \/ Suppressed(p, k, sig)
       \/ NotRead(p, k, sig)
       \/ PasteFails(p, k, sig)
       \/ Paste(p, k, sig)
  \/ Persist
  \/ PersistFails
  \/ ForgetNudges
  \/ \E to \in {"workable", "paused", "ended"} : SessionMoves(to)

NudgeSpec == NudgeInit /\ [][NudgeNext]_nudgeVars

-----------------------------------------------------------------------------
(* Properties.                                                             *)

NudgeTypeOK ==
  /\ session \in {"workable", "paused", "ended"}
  /\ record \in [Pr -> [Kind -> Record]]
  /\ loaded \in SUBSET Pr
  /\ saved \in [Pr -> [Kind -> Record]]
  /\ writing \in SUBSET (Pr \X Kind)
  /\ told \in [Pr -> [Kind -> Sig \cup {NoSig}]]
  /\ doubt \in SUBSET (Pr \X Kind)

\* A paste of p and k, seen from outside: the call begins to save.
Pastes(p, k) == writing = {} /\ writing' = {<<p, k>>}

\* The agent is not told the same thing twice in a row, whatever restarts lie
\* between: a repeat needs a paste whose record was lost, because the paste
\* reported an error or the daemon ended before the record was saved.
NudgeNotRepeated ==
  [][\A p \in Pr, k \in Kind :
       Pastes(p, k) /\ <<p, k>> \notin doubt => told'[p][k] # told[p][k]]_nudgeVars

\* No write of a record loses attempts: a daemon that restarts resumes the
\* count before it adds to it.
AttemptsKept ==
  [][\A p \in Pr, k \in Kind :
       saved'[p][k].attempts >= saved[p][k].attempts]_nudgeVars

\* The strengthening: without doubt, what the agent was told last is in memory
\* or, before the pull request is loaded, in its row; memory never has fewer
\* attempts than the row it was loaded from.
RecordSound ==
  /\ \A p \in Pr, k \in Kind :
       /\ <<p, k>> \notin doubt => Loaded(p)[k].sig = told[p][k]
       /\ p \in loaded => record[p][k].attempts >= saved[p][k].attempts
       /\ p \notin loaded => record[p][k] = NoRecord
  /\ \A pk \in writing : pk[1] \in loaded /\ writing = {pk}
=============================================================================
