------------------------------ MODULE TerminalMux ------------------------------
(***************************************************************************)
(* The terminal multiplexer for one pane: each connection's reader opens,  *)
(* resizes and closes its attachment, attachments give up on their own,    *)
(* and the manager keeps one grid for all viewers                          *)
(* (internal/terminal/manager.go).  Connections share nothing between      *)
(* panes but their output buffer, whose overflow is one way to be cut off. *)
(* What an attachment does between its start and its end is                *)
(* TerminalAttachment.                                                     *)
(*                                                                         *)
(* A grid is a number that orders it by area, 0 a size not reported.       *)
(* Two shapes of one area are left out.                                    *)
(***************************************************************************)
EXTENDS Naturals

CONSTANTS
  Client,     \* web socket connections
  NoClient,   \* of an attachment not yet opened
  MaxGrid,    \* the largest grid
  MaxAttach,  \* attachments opened in all
  MaxResizes  \* resize frames in all

ASSUME MuxAssumption ==
  /\ NoClient \notin Client
  /\ MaxGrid \in Nat /\ MaxAttach \in Nat /\ MaxResizes \in Nat

VARIABLES
  conn,     \* of a connection: "up" or "gone"
  terms,    \* its entry for the pane, 0 for none
  job,      \* what its reader is at, and with which attachment
  member,   \* its attachment in the shared terminal, 0 for none
  want,     \* the grid it asked for
  lead,     \* the viewers that opened as primary
  auth,     \* the authoritative grid, 0 without one
  told,     \* the grid a viewer was last sent
  set,      \* the grid its attachment was last given
  att,      \* the attachments, in the order they were opened
  down,     \* Manager.Close was called
  resizes   \* against MaxResizes

connVars == <<conn, terms, job>>
gridVars == <<member, want, lead, auth, told, set>>
worldVars == <<down, resizes>>
vars == <<connVars, gridVars, att, worldVars>>

Grid == 0..MaxGrid   \* sizes a client may report
Attachments == 1..MaxAttach

Unborn == [owner |-> NoClient, pc |-> "unborn", closed |-> FALSE, exited |-> FALSE]
Opened(c) == [owner |-> c, pc |-> "new", closed |-> FALSE, exited |-> FALSE]

Idle == [do |-> "read", att |-> 0]
Quiet(c) == conn[c] = "up" /\ job[c] = Idle
Does(c, what) == job[c].do = what

-----------------------------------------------------------------------------
(* The shared grid, under sharedMu.                                        *)

\* largestGrid: of the primaries, if one has reported a size.
Sizes(of, asks, who) == {asks[c] : c \in {d \in who : of[d] # 0}} \ {0}
Eligible(of, asks, first) ==
  IF Sizes(of, asks, first) # {} THEN Sizes(of, asks, first) ELSE Sizes(of, asks, Client)

Largest(sizes) == CHOOSE g \in sizes : \A h \in sizes : h <= g

\* Mutant: the attachments of the others keep their grid.
NewcomerOnly(of, g, newcomer) ==
  set' = [c \in Client |-> IF of[c] = 0 THEN 0 ELSE IF c \in newcomer THEN g ELSE set[c]]

\* Every viewer's attachment gets the grid.
ResizeAll(of, g, newcomer) == set' = [c \in Client |-> IF of[c] = 0 THEN 0 ELSE g]

\* reconcileLocked: if some viewer has reported a size, one grid for all of them,
\* and a frame for each if it is a new one.  The newcomer, the client that
\* joins, is told the grid in any case.
Reconcile(of, asks, first, newcomer) ==
  LET sizes == Eligible(of, asks, first)
      g == IF sizes = {} THEN auth ELSE Largest(sizes) IN
  /\ member' = of /\ want' = asks /\ lead' = first /\ auth' = g
  /\ IF sizes = {}
     THEN set' = [c \in Client |-> IF c \in newcomer THEN 0 ELSE set[c]]
     ELSE ResizeAll(of, g, newcomer)
  /\ told' = [c \in Client |->
                IF of[c] = 0 THEN 0 ELSE IF c \in newcomer \/ g # auth THEN g ELSE told[c]]

\* leaveTerminal; the last viewer takes the entry with it.
Leave(c) ==
  LET of == [member EXCEPT ![c] = 0] IN
  /\ member[c] # 0
  /\ IF \E d \in Client : of[d] # 0
     THEN Reconcile(of, [want EXCEPT ![c] = 0], lead \ {c}, {})
     ELSE /\ member' = of /\ want' = [want EXCEPT ![c] = 0] /\ lead' = lead \ {c} /\ auth' = 0
          /\ told' = [told EXCEPT ![c] = 0] /\ set' = [set EXCEPT ![c] = 0]

LeaveIfViewer(c) == IF member[c] = 0 THEN UNCHANGED gridVars ELSE Leave(c)

-----------------------------------------------------------------------------
(* The reader of a connection.                                             *)

\* openTerminal, unless the pane is open on this connection.
Open(c) ==
  /\ Quiet(c) /\ terms[c] = 0
  /\ IF down
     THEN UNCHANGED <<terms, job, att>>
     ELSE \E a \in Attachments :
            /\ \A b \in Attachments : att[b].pc = "unborn" => a <= b
            /\ att[a].pc = "unborn"
            /\ att' = [att EXCEPT ![a] = Opened(c)]
            /\ terms' = [terms EXCEPT ![c] = a]
            /\ job' = [job EXCEPT ![c] = [do |-> "join", att |-> a]]
  /\ UNCHANGED <<conn, gridVars, worldVars>>

\* joinTerminal and the start of the loop, which a closed attachment refuses.  The
\* joining client is told the grid in any case.
Join(c) ==
  LET a == job[c].att IN
  /\ Does(c, "join")
  /\ \E g \in Grid, first \in {lead \cup {c}, lead \ {c}} :
       Reconcile([member EXCEPT ![c] = a], [want EXCEPT ![c] = g], first, {c})
  /\ att' = [att EXCEPT ![a].pc = IF att[a].closed THEN "done" ELSE "run"]
  /\ job' = [job EXCEPT ![c] = Idle]
  /\ UNCHANGED <<conn, terms, worldVars>>

\* updateTerminalSize
Resize(c) ==
  /\ Quiet(c) /\ member[c] # 0
  /\ resizes < MaxResizes /\ resizes' = resizes + 1
  /\ \E g \in Grid \ {want[c]} : Reconcile(member, [want EXCEPT ![c] = g], lead, {})
  /\ UNCHANGED <<connVars, att, down>>

\* closeTerminal removes the entry, leaves the shared terminal and closes.
Close(c) ==
  /\ Quiet(c)
  /\ terms' = [terms EXCEPT ![c] = 0]
  /\ job' = [job EXCEPT ![c] = [do |-> "leave", att |-> terms[c]]]
  /\ UNCHANGED <<conn, gridVars, att, worldVars>>

\* The client is gone, too slow for its buffer, or misses a ping; the reader
\* returns, and cleanup leaves what it has an entry for.
Cut(c) ==
  /\ Quiet(c)
  /\ conn' = [conn EXCEPT ![c] = "gone"]
  /\ terms' = [terms EXCEPT ![c] = 0]
  /\ job' = IF terms[c] = 0 THEN job
            ELSE [job EXCEPT ![c] = [do |-> "leave", att |-> terms[c]]]
  /\ UNCHANGED <<gridVars, att, worldVars>>

LeaveShared(c) ==
  LET a == job[c].att IN
  /\ Does(c, "leave")
  /\ LeaveIfViewer(c)
  /\ att' = IF a = 0 THEN att ELSE [att EXCEPT ![a].closed = TRUE]
  /\ job' = [job EXCEPT ![c] = Idle]
  /\ UNCHANGED <<conn, terms, worldVars>>

Reader(c) == Join(c) \/ LeaveShared(c)

-----------------------------------------------------------------------------
(* The end of an attachment.                                               *)

At(a, where) == att[a].pc = where
Goes(a, r) == att' = [att EXCEPT ![a] = r]

\* The loop sees that it was closed, or that the manager is.
Stops(a) ==
  /\ At(a, "run") /\ (att[a].closed \/ down)
  /\ Goes(a, [att[a] EXCEPT !.pc = "done"])
  /\ UNCHANGED <<connVars, gridVars, worldVars>>

\* Mutant: the entry stays.
ForgetNot(a, c) == terms[c]

\* The entry goes if it is this attachment's.
Forget(a, c) == IF terms[c] = a THEN 0 ELSE terms[c]

\* The pane is dead, or the last try failed: markExited and the first part of
\* onExit.  A close may have come in between.
GivesUp(a) ==
  LET c == att[a].owner IN
  /\ At(a, "run")
  /\ Goes(a, [att[a] EXCEPT !.exited = TRUE, !.pc = "leave"])
  /\ terms' = [terms EXCEPT ![c] = Forget(a, c)]
  /\ UNCHANGED <<conn, job, gridVars, worldVars>>

\* The rest of onExit: leaveTerminal by connection, and the exited frame.
ExitLeaves(a) ==
  /\ At(a, "leave")
  /\ LeaveIfViewer(att[a].owner)
  /\ Goes(a, [att[a] EXCEPT !.pc = "tell"])
  /\ UNCHANGED <<connVars, worldVars>>

ExitTells(a) ==
  /\ At(a, "tell")
  /\ Goes(a, [att[a] EXCEPT !.pc = "done"])
  /\ UNCHANGED <<connVars, gridVars, worldVars>>

End(a) == Stops(a) \/ ExitLeaves(a) \/ ExitTells(a)

-----------------------------------------------------------------------------

\* Manager.Close
MuxCloses ==
  /\ ~down
  /\ down' = TRUE
  /\ att' = [a \in Attachments |-> IF At(a, "unborn") THEN att[a] ELSE [att[a] EXCEPT !.closed = TRUE]]
  /\ UNCHANGED <<connVars, gridVars, resizes>>

Init ==
  /\ conn = [c \in Client |-> "up"] /\ terms = [c \in Client |-> 0] /\ job = [c \in Client |-> Idle]
  /\ member = [c \in Client |-> 0] /\ want = [c \in Client |-> 0] /\ lead = {}
  /\ auth = 0 /\ told = [c \in Client |-> 0] /\ set = [c \in Client |-> 0]
  /\ att = [a \in Attachments |-> Unborn]
  /\ down = FALSE /\ resizes = 0

Next ==
  \/ \E c \in Client : Open(c) \/ Resize(c) \/ Close(c) \/ Cut(c) \/ Reader(c)
  \/ \E a \in Attachments : GivesUp(a) \/ End(a)
  \/ MuxCloses

Spec == Init /\ [][Next]_vars

-----------------------------------------------------------------------------
(* Properties.                                                             *)

\* The type invariant; the grid is one that some client asked for.
MuxTypeOK ==
  /\ conn \in [Client -> {"up", "gone"}]
  /\ terms \in [Client -> 0..MaxAttach]
  /\ job \in [Client -> [do : {"read", "join", "leave"}, att : 0..MaxAttach]]
  /\ member \in [Client -> 0..MaxAttach] /\ want \in [Client -> Grid] /\ lead \subseteq Client
  /\ auth \in Grid /\ told \in [Client -> Grid] /\ set \in [Client -> Grid]
  /\ att \in [Attachments ->
       [owner : Client \cup {NoClient}, pc : {"unborn", "new", "run", "leave", "tell", "done"},
        closed : BOOLEAN, exited : BOOLEAN]]
  /\ down \in BOOLEAN /\ resizes \in 0..MaxResizes

\* Every viewer was told the grid of the pane, has its stream set to it, and it
\* is the largest asked for by a primary, or by anybody if there is none.
ViewersAgree ==
  \A c \in Client : member[c] # 0 =>
    /\ auth # 0 => told[c] = auth
    /\ Eligible(member, want, lead) # {} =>
         auth = Largest(Eligible(member, want, lead)) /\ set[c] = auth

\* The grid is not held by a connection that is gone, nor by an attachment that
\* has ended, except while somebody is about to take it out; and a client that opens
\* the pane again when it sees its exit finds no entry of the attachment that exited.
NoGhosts ==
  /\ \A c \in Client : member[c] # 0 =>
       /\ att[member[c]].owner = c
       /\ At(member[c], "done") => down
       /\ conn[c] = "gone" => Does(c, "leave") \/ \E a \in Attachments : att[a].owner = c /\ At(a, "leave")
  /\ \A c \in Client : terms[c] # 0 => ~(At(terms[c], "done") /\ att[terms[c]].exited)

\* An attachment that was opened again is not taken out of the shared terminal.
NotEvicted == \A c \in Client : job[c] = Idle /\ terms[c] # 0 => member[c] = terms[c]

-----------------------------------------------------------------------------
(* The inductive strengthenings TerminalProofs uses.                       *)

\* An attachment has an owner once it is opened, and is not closed before it
\* starts, but by the manager.
AttachmentSound ==
  \A a \in Attachments :
    /\ At(a, "unborn") => att[a] = Unborn
    /\ ~At(a, "unborn") => att[a].owner \in Client
    /\ At(a, "new") /\ att[a].closed => down

\* A reader between two steps still has what it took with it.
ReaderSound ==
  \A c \in Client :
    LET a == job[c].att IN
    /\ Does(c, "read") => job[c] = Idle
    /\ Does(c, "join") => a # 0 /\ terms[c] = a /\ At(a, "new")
    /\ Does(c, "leave") /\ a # 0 => att[a].owner = c /\ ~At(a, "new") /\ ~At(a, "unborn")

\* An entry is of the connection's own attachment, which has not given up.
EntrySound ==
  \A c \in Client : terms[c] # 0 =>
    /\ conn[c] = "up"
    /\ att[terms[c]].owner = c /\ ~att[terms[c]].exited
    /\ At(terms[c], "new") => Does(c, "join") /\ job[c].att = terms[c]

\* Somebody may still take a viewer out: its reader, which has an entry or is
\* leaving, or an attachment of it that gave up.
Leaves(c) == Does(c, "leave") \/ \E a \in Attachments : att[a].owner = c /\ At(a, "leave")

ViewerSound ==
  \A c \in Client : member[c] # 0 =>
    /\ att[member[c]].owner = c
    /\ att[member[c]].pc \in {"run", "leave", "done"}
    /\ att[member[c]].closed \/ At(member[c], "done") => down
    /\ terms[c] # 0 \/ Leaves(c)

MuxInv == MuxTypeOK /\ AttachmentSound /\ ReaderSound /\ EntrySound /\ ViewerSound
=============================================================================
