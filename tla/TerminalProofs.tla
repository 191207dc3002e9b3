----------------------------- MODULE TerminalProofs -----------------------------
(***************************************************************************)
(* Proofs about the terminal: of the multiplexer, that all viewers of a    *)
(* pane have one grid, held by nobody that is gone, for any number of      *)
(* connections, attachments and resizes and any grids; of the attachment,  *)
(* its types, that input keeps its order, and that the loop leaves nothing *)
(* behind, for any number of chunks, resizes, faults and tries.            *)
(***************************************************************************)
EXTENDS TerminalMux, TerminalAttachment, SequenceTheorems, NaturalsInduction, WellFoundedInduction,
        TLAPS

-----------------------------------------------------------------------------
(* The multiplexer.                                                        *)

GridTypeOK ==
  /\ member \in [Client -> 0..MaxAttach] /\ want \in [Client -> Grid] /\ lead \subseteq Client
  /\ auth \in Grid /\ told \in [Client -> Grid] /\ set \in [Client -> Grid]

OtherTypeOK ==
  /\ conn \in [Client -> {"up", "gone"}]
  /\ terms \in [Client -> 0..MaxAttach]
  /\ job \in [Client -> [do : {"read", "join", "leave"}, att : 0..MaxAttach]]
  /\ att \in [Attachments ->
       [owner : Client \cup {NoClient}, pc : {"unborn", "new", "run", "leave", "tell", "done"},
        closed : BOOLEAN, exited : BOOLEAN]]
  /\ down \in BOOLEAN /\ resizes \in 0..MaxResizes

Inv == MuxInv /\ ViewersAgree

-----------------------------------------------------------------------------
(* The grid.                                                               *)

LEMMA LargestIn ==
  ASSUME NEW sizes \in SUBSET Grid, sizes # {}
  PROVE  Largest(sizes) \in sizes /\ \A h \in sizes : h <= Largest(sizes)
<1> DEFINE R == OpToRel(<, Nat)
           over == {b \in Nat : \A h \in sizes : h <= b}
<1>1. sizes \subseteq Nat /\ \A h \in sizes : h <= MaxGrid
  BY MuxAssumption DEF MuxAssumption, Grid
<1>2. MaxGrid \in over  BY <1>1, MuxAssumption DEF MuxAssumption
<1>3. IsWellFoundedOn(R, Nat)  BY NatLessThanWellFounded, Zenon
<1>4. PICK m \in over : \A b \in over : <<b, m>> \notin R
  <2>1. over \subseteq Nat /\ over # {}  BY <1>2
  <2> HIDE DEF R, over
  <2> QED  BY <1>3, <2>1, WFMin
<1>5. m \in Nat /\ (\A h \in sizes : h <= m) /\ \A b \in over : ~ (b < m)
  BY <1>4 DEF OpToRel
<1>6. m \in sizes
  <2> SUFFICES ASSUME m \notin sizes PROVE FALSE  OBVIOUS
  <2>1. \A h \in sizes : h < m  BY <1>1, <1>5
  <2>2. PICK h \in sizes : TRUE  OBVIOUS
  <2>3. m > 0  BY <1>1, <1>5, <2>1, <2>2
  <2>4. \A k \in sizes : k <= m - 1  BY <1>1, <1>5, <2>1
  <2>5. m - 1 \in over  BY <1>5, <2>3, <2>4
  <2> QED  BY <1>5, <2>3, <2>5
<1>7. \E g \in sizes : \A h \in sizes : h <= g  BY <1>5, <1>6
<1> QED  BY <1>7 DEF Largest

LEMMA EligibleGrids ==
  ASSUME NEW of, NEW asks \in [Client -> Grid], NEW first \in SUBSET Client
  PROVE  Eligible(of, asks, first) \in SUBSET Grid
BY DEF Eligible, Sizes

\* Whoever joins, leaves or resizes, the arbiter's step leaves one grid for all.
LEMMA ReconcileAgrees ==
  ASSUME GridTypeOK, ViewersAgree,
         NEW of \in [Client -> 0..MaxAttach], NEW asks \in [Client -> Grid],
         NEW first \in SUBSET Client, NEW newcomer \in SUBSET Client,
         \A d \in Client : of[d] # 0 /\ d \notin newcomer => member[d] # 0,
         Reconcile(of, asks, first, newcomer)
  PROVE  GridTypeOK' /\ ViewersAgree' /\ member' = of
<1> DEFINE sizes == Eligible(of, asks, first)
           g == IF sizes = {} THEN auth ELSE Largest(sizes)
<1>1. /\ member' = of /\ want' = asks /\ lead' = first /\ auth' = g
      /\ told' = [c \in Client |->
                    IF of[c] = 0 THEN 0 ELSE IF c \in newcomer \/ g # auth THEN g ELSE told[c]]
  BY DEF Reconcile
<1>2. /\ sizes = {} => set' = [c \in Client |-> IF c \in newcomer THEN 0 ELSE set[c]]
      /\ sizes # {} => set' = [c \in Client |-> IF of[c] = 0 THEN 0 ELSE g]
  BY DEF Reconcile, ResizeAll
<1>3. sizes \in SUBSET Grid  BY EligibleGrids
<1>4. g \in Grid /\ (sizes # {} => g = Largest(sizes))
  <2> HIDE DEF sizes
  <2> QED  BY <1>3, LargestIn DEF GridTypeOK
<1>5. 0 \in Grid  BY MuxAssumption DEF MuxAssumption, Grid
<1>6. Eligible(member, want, lead)' = sizes  BY <1>1 DEF Eligible, Sizes
<1> HIDE DEF sizes, g
<1>7. GridTypeOK'
  <2>1. set' \in [Client -> Grid]  BY <1>2, <1>4, <1>5 DEF GridTypeOK
  <2>2. told' \in [Client -> Grid]  BY <1>1, <1>4, <1>5 DEF GridTypeOK
  <2> QED  BY <1>1, <1>4, <2>1, <2>2 DEF GridTypeOK
<1>8. \A c \in Client : of[c] # 0 =>
        /\ auth' # 0 => told'[c] = auth'
        /\ sizes # {} => auth' = Largest(sizes) /\ set'[c] = auth'
  <2> SUFFICES ASSUME NEW c \in Client, of[c] # 0
               PROVE  /\ auth' # 0 => told'[c] = auth'
                      /\ sizes # {} => auth' = Largest(sizes) /\ set'[c] = auth'
    OBVIOUS
  <2>1. c \notin newcomer => (auth # 0 => told[c] = auth)  BY DEF ViewersAgree
  <2>2. told'[c] = IF c \in newcomer \/ g # auth THEN g ELSE told[c]  BY <1>1
  <2>3. auth' # 0 => told'[c] = auth'  BY <1>1, <2>1, <2>2
  <2>4. sizes # {} => set'[c] = g  BY <1>2
  <2> QED  BY <1>1, <1>4, <2>3, <2>4
<1>9. ViewersAgree'
  BY <1>1, <1>6, <1>8 DEF ViewersAgree
<1> QED  BY <1>1, <1>7, <1>9

\* A viewer that leaves, the last one among them.
LEMMA LeaveAgrees ==
  ASSUME GridTypeOK, ViewersAgree, NEW c \in Client, LeaveIfViewer(c)
  PROVE  GridTypeOK' /\ ViewersAgree' /\ member' = [member EXCEPT ![c] = 0]
<1>1. CASE member[c] = 0
  <2>1. UNCHANGED gridVars  BY <1>1 DEF LeaveIfViewer
  <2>2. member = [member EXCEPT ![c] = 0]  BY <1>1 DEF GridTypeOK
  <2>3. GridTypeOK'  BY <2>1 DEF GridTypeOK, gridVars
  <2>4. ViewersAgree'  BY <2>1, ZenonT(60) DEF ViewersAgree, Eligible, Sizes, gridVars
  <2> QED  BY <2>1, <2>2, <2>3, <2>4 DEF gridVars
<1>2. CASE member[c] # 0
  <2> DEFINE of == [member EXCEPT ![c] = 0]
             asks == [want EXCEPT ![c] = 0]
  <2>1. 0 \in Grid /\ 0 \in 0..MaxAttach  BY MuxAssumption DEF MuxAssumption, Grid
  <2>2. of \in [Client -> 0..MaxAttach] /\ asks \in [Client -> Grid] /\ lead \ {c} \in SUBSET Client
    BY <2>1 DEF GridTypeOK
  <2>3. \A d \in Client : of[d] # 0 => member[d] # 0  BY DEF GridTypeOK
  <2>4. Leave(c)  BY <1>2 DEF LeaveIfViewer
  <2>5. CASE \E d \in Client : of[d] # 0
    <3>1. Reconcile(of, asks, lead \ {c}, {})  BY <2>4, <2>5 DEF Leave
    <3> HIDE DEF of, asks
    <3>2. GridTypeOK' /\ ViewersAgree' /\ member' = of
      BY <2>2, <2>3, <3>1, ReconcileAgrees
    <3> QED  BY <3>2 DEF of
  <2>6. CASE ~ \E d \in Client : of[d] # 0
    <3>1. /\ member' = of /\ want' = asks /\ lead' = lead \ {c} /\ auth' = 0
          /\ told' = [told EXCEPT ![c] = 0] /\ set' = [set EXCEPT ![c] = 0]
      BY <2>4, <2>6 DEF Leave
    <3>2. told' \in [Client -> Grid] /\ set' \in [Client -> Grid]
      BY <2>1, <3>1 DEF GridTypeOK
    <3>3. GridTypeOK'  BY <2>1, <2>2, <3>1, <3>2 DEF GridTypeOK
    <3>4. ViewersAgree'  BY <2>6, <3>1 DEF ViewersAgree
    <3> QED  BY <3>1, <3>3, <3>4
  <2> QED  BY <2>5, <2>6
<1> QED  BY <1>1, <1>2

LEMMA GridUnchanged ==
  ASSUME GridTypeOK, ViewersAgree, UNCHANGED gridVars
  PROVE  GridTypeOK' /\ ViewersAgree' /\ member' = member
BY ZenonT(60) DEF GridTypeOK, ViewersAgree, Eligible, Sizes, gridVars

-----------------------------------------------------------------------------
(* The reader of a connection.                                             *)

BodyInv == OtherTypeOK /\ AttachmentSound /\ ReaderSound /\ EntrySound /\ ViewerSound

LEMMA Parts ==
  ASSUME Inv
  PROVE  GridTypeOK /\ ViewersAgree /\ BodyInv
BY DEF Inv, MuxInv, BodyInv, MuxTypeOK, GridTypeOK, OtherTypeOK

LEMMA PartsNext ==
  ASSUME GridTypeOK', ViewersAgree', BodyInv'
  PROVE  Inv'
BY DEF Inv, MuxInv, BodyInv, MuxTypeOK, GridTypeOK, OtherTypeOK

LEMMA OpenKeeps ==
  ASSUME Inv, NEW c \in Client, Open(c)
  PROVE  Inv'
<1>1. GridTypeOK' /\ ViewersAgree' /\ member' = member
  BY Parts, GridUnchanged DEF Open
<1>2. CASE down
  <2>1. UNCHANGED vars  BY <1>2 DEF Open, vars, connVars, worldVars
  <2>2. BodyInv'
    BY <1>1, <2>1, Parts
    DEF BodyInv, OtherTypeOK, AttachmentSound, ReaderSound, EntrySound, ViewerSound, Leaves, At, Does,
        vars, connVars, worldVars
  <2> QED  BY <1>1, <2>2, PartsNext
<1>3. CASE ~down
  <2>1. PICK a \in Attachments :
          /\ att[a].pc = "unborn"
          /\ att' = [att EXCEPT ![a] = Opened(c)]
          /\ terms' = [terms EXCEPT ![c] = a]
          /\ job' = [job EXCEPT ![c] = [do |-> "join", att |-> a]]
    BY <1>3 DEF Open
  <2>2. Quiet(c) /\ UNCHANGED <<conn, worldVars>>  BY DEF Open
  <2>3. BodyInv  BY Parts
  <2>4. OtherTypeOK'
    BY <2>1, <2>2, <2>3 DEF BodyInv, OtherTypeOK, worldVars, Attachments, Opened
  <2>5. att[a] = Unborn  BY <2>1, <2>3 DEF BodyInv, AttachmentSound, At
  <2>6. /\ att'[a] = [owner |-> c, pc |-> "new", closed |-> FALSE, exited |-> FALSE]
        /\ \A b \in Attachments : b # a => att'[b] = att[b]
    BY <2>1, <2>3 DEF BodyInv, OtherTypeOK, Opened
  <2>7. \A d \in Client :
          /\ member[d] # a /\ terms[d] # a
          /\ job[d].att = a => Does(d, "read")
    <3>1. a # 0 /\ att[a].owner \notin Client
      BY <2>5, MuxAssumption DEF MuxAssumption, Unborn, Attachments
    <3> SUFFICES ASSUME NEW d \in Client
                 PROVE  /\ member[d] # a /\ terms[d] # a
                        /\ job[d].att = a => Does(d, "read")
      OBVIOUS
    <3>2. member[d] # a /\ terms[d] # a  BY <2>3, <3>1 DEF BodyInv, ViewerSound, EntrySound
    <3>3. job[d].att = a => ~Does(d, "join") /\ ~Does(d, "leave")
      BY <2>1, <2>3, <3>1 DEF BodyInv, ReaderSound, At
    <3>4. job[d].do \in {"read", "join", "leave"}  BY <2>3 DEF BodyInv, OtherTypeOK
    <3> QED  BY <3>2, <3>3, <3>4 DEF Does
  <2>8. AttachmentSound'
    BY <2>2, <2>3, <2>6 DEF BodyInv, AttachmentSound, At, worldVars
  <2>9. ReaderSound'
    BY <2>1, <2>2, <2>3, <2>6, <2>7 DEF BodyInv, OtherTypeOK, ReaderSound, At, Does, Attachments, Idle
  <2>10. EntrySound'
    BY <2>1, <2>2, <2>3, <2>6, <2>7 DEF BodyInv, OtherTypeOK, EntrySound, At, Does, Attachments, Quiet
  <2>11. ViewerSound'
    <3> SUFFICES ASSUME NEW d \in Client, member'[d] # 0
                 PROVE  /\ att'[member'[d]].owner = d
                        /\ att'[member'[d]].pc \in {"run", "leave", "done"}
                        /\ att'[member'[d]].closed \/ att'[member'[d]].pc = "done" => down'
                        /\ terms'[d] # 0 \/ Leaves(d)'
      BY DEF ViewerSound, At
    <3>0. member' = member /\ member[d] # 0 /\ down' = down  BY <1>1, <2>2 DEF worldVars
    <3>1. member[d] \in Attachments  BY <3>0, Parts DEF GridTypeOK, Attachments
    <3>2. att'[member[d]] = att[member[d]]  BY <2>6, <2>7, <3>1
    <3>3. /\ att[member[d]].owner = d
          /\ att[member[d]].pc \in {"run", "leave", "done"}
          /\ att[member[d]].closed \/ att[member[d]].pc = "done" => down
          /\ terms[d] # 0 \/ Leaves(d)
      BY <2>3, <3>0 DEF BodyInv, ViewerSound, At
    <3>4. terms[d] # 0 => terms'[d] # 0  BY <2>1, <2>3 DEF BodyInv, OtherTypeOK, Attachments
    <3>5. Does(d, "leave") => Does(d, "leave")'
      <4>1. Does(d, "leave") => d # c  BY <2>2 DEF Quiet, Idle, Does
      <4> QED  BY <2>1, <2>3, <4>1 DEF BodyInv, OtherTypeOK, Does
    <3>6. \A b \in Attachments :
            att[b].owner = d /\ At(b, "leave") => att'[b].owner = d /\ At(b, "leave")'
      BY <2>1, <2>6 DEF At
    <3> QED  BY <3>0, <3>2, <3>3, <3>4, <3>5, <3>6 DEF Leaves
  <2> QED  BY <1>1, <2>4, <2>8, <2>9, <2>10, <2>11, PartsNext DEF BodyInv
<1> QED  BY <1>2, <1>3

\* A step that leaves readers and attachments alone.
LEMMA BodyFrame ==
  ASSUME BodyInv, UNCHANGED <<connVars, att, down>>, member' = member, resizes' \in 0..MaxResizes
  PROVE  BodyInv'
BY DEF BodyInv, OtherTypeOK, AttachmentSound, ReaderSound, EntrySound, ViewerSound, Leaves, At, Does,
  connVars

LEMMA ResizeKeeps ==
  ASSUME Inv, NEW c \in Client, Resize(c)
  PROVE  Inv'
<1>1. GridTypeOK /\ ViewersAgree /\ BodyInv  BY Parts
<1>2. PICK g \in Grid \ {want[c]} : Reconcile(member, [want EXCEPT ![c] = g], lead, {})
  BY DEF Resize
<1>3. /\ member \in [Client -> 0..MaxAttach] /\ [want EXCEPT ![c] = g] \in [Client -> Grid]
      /\ lead \in SUBSET Client
  BY <1>1, <1>2 DEF GridTypeOK
<1>4. GridTypeOK' /\ ViewersAgree' /\ member' = member
  <2> DEFINE asks == [want EXCEPT ![c] = g]
             nobody == {}
  <2>1. Reconcile(member, asks, lead, nobody)  BY <1>2
  <2>2. nobody \in SUBSET Client /\ asks \in [Client -> Grid]  BY <1>3
  <2>3. \A d \in Client : member[d] # 0 /\ d \notin nobody => member[d] # 0  OBVIOUS
  <2> HIDE DEF asks, nobody
  <2> QED  BY <1>1, <1>3, <2>1, <2>2, <2>3, ReconcileAgrees
<1>5. resizes' \in 0..MaxResizes
  BY <1>1, MuxAssumption DEF Resize, BodyInv, OtherTypeOK, MuxAssumption
<1>6. BodyInv'  BY <1>1, <1>4, <1>5, BodyFrame DEF Resize
<1> QED  BY <1>4, <1>6, PartsNext

\* The reader takes the entry out; what it then has to do is leave.
LEMMA TakenOut ==
  ASSUME Inv, NEW c \in Client, Quiet(c), member' = member,
         terms' = [terms EXCEPT ![c] = 0],
         \/ job' = [job EXCEPT ![c] = [do |-> "leave", att |-> terms[c]]]
         \/ job' = job /\ terms[c] = 0,
         conn' \in [Client -> {"up", "gone"}], \A d \in Client \ {c} : conn'[d] = conn[d],
         UNCHANGED <<att, down, resizes>>
  PROVE  BodyInv'
<1>1. BodyInv  BY Parts
<1>2. OtherTypeOK'
  <2>1. 0 \in 0..MaxAttach  BY MuxAssumption DEF MuxAssumption
  <2> QED  BY <1>1, <2>1 DEF BodyInv, OtherTypeOK
<1>3. AttachmentSound'  BY <1>1 DEF BodyInv, AttachmentSound, At
<1>4. terms[c] # 0 =>
        att[terms[c]].owner = c /\ ~At(terms[c], "new") /\ ~At(terms[c], "unborn")
  <2>1. terms[c] # 0 => terms[c] \in Attachments
    BY <1>1, MuxAssumption DEF BodyInv, OtherTypeOK, Attachments, MuxAssumption
  <2>2. terms[c] # 0 => att[terms[c]].owner = c /\ ~At(terms[c], "new")
    BY <1>1 DEF BodyInv, EntrySound, Quiet, Idle, Does
  <2>3. terms[c] # 0 => ~At(terms[c], "unborn")
    BY <1>1, <2>1, <2>2, MuxAssumption DEF BodyInv, AttachmentSound, Unborn, MuxAssumption
  <2> QED  BY <2>2, <2>3
<1>5. \A d \in Client : d # c => job'[d] = job[d] /\ terms'[d] = terms[d]
  BY <1>1 DEF BodyInv, OtherTypeOK
<1>6. terms'[c] = 0 /\ (job'[c] = [do |-> "leave", att |-> terms[c]] \/ (job'[c] = Idle /\ terms[c] = 0))
  BY <1>1 DEF BodyInv, OtherTypeOK, Quiet
<1>7. ReaderSound'
  BY <1>1, <1>4, <1>5, <1>6 DEF BodyInv, ReaderSound, Does, Idle, At
<1>8. EntrySound'
  BY <1>1, <1>5, <1>6 DEF BodyInv, EntrySound, Does, At
<1>9. ViewerSound'
  <2> SUFFICES ASSUME NEW d \in Client, member'[d] # 0
               PROVE  terms'[d] # 0 \/ Leaves(d)'
    BY <1>1 DEF BodyInv, ViewerSound, At
  <2>1. terms[d] # 0 \/ Leaves(d)  BY <1>1 DEF BodyInv, ViewerSound
  <2>2. CASE d # c  BY <1>5, <2>1, <2>2 DEF Leaves, Does, At
  <2>3. CASE d = c
    BY <1>6, <2>1, <2>3 DEF Leaves, Does, At, Quiet, Idle
  <2> QED  BY <2>2, <2>3
<1> QED  BY <1>2, <1>3, <1>7, <1>8, <1>9 DEF BodyInv

LEMMA CloseKeeps ==
  ASSUME Inv, NEW c \in Client, Close(c)
  PROVE  Inv'
<1>1. GridTypeOK' /\ ViewersAgree' /\ member' = member
  BY Parts, GridUnchanged DEF Close
<1>2. conn' \in [Client -> {"up", "gone"}] /\ conn' = conn
  BY Parts DEF Close, BodyInv, OtherTypeOK
<1>3. BodyInv'  BY <1>1, <1>2, TakenOut DEF Close, worldVars
<1> QED  BY <1>1, <1>3, PartsNext

LEMMA CutKeeps ==
  ASSUME Inv, NEW c \in Client, Cut(c)
  PROVE  Inv'
<1>1. GridTypeOK' /\ ViewersAgree' /\ member' = member
  BY Parts, GridUnchanged DEF Cut
<1>2. conn' \in [Client -> {"up", "gone"}] /\ \A d \in Client \ {c} : conn'[d] = conn[d]
  BY Parts DEF Cut, BodyInv, OtherTypeOK
<1>3. BodyInv'  BY <1>1, <1>2, TakenOut DEF Cut, worldVars
<1> QED  BY <1>1, <1>3, PartsNext

\* joinTerminal: the reader of a connection, and its attachment's start.
LEMMA JoinKeeps ==
  ASSUME Inv, NEW c \in Client, Join(c)
  PROVE  Inv'
<1> DEFINE a == job[c].att
<1>1. GridTypeOK /\ ViewersAgree /\ BodyInv  BY Parts
<1>2. /\ Does(c, "join")
      /\ att' = [att EXCEPT ![a].pc = IF att[a].closed THEN "done" ELSE "run"]
      /\ job' = [job EXCEPT ![c] = Idle]
      /\ UNCHANGED <<conn, terms, worldVars>>
  BY DEF Join
<1>3. a \in Attachments /\ a # 0 /\ terms[c] = a /\ att[a].pc = "new"
  BY <1>1, <1>2, MuxAssumption
  DEF BodyInv, OtherTypeOK, ReaderSound, At, Attachments, MuxAssumption
<1>4. att[a].owner = c /\ ~att[a].exited /\ (att[a].closed => down)
  BY <1>1, <1>3 DEF BodyInv, EntrySound, AttachmentSound, At
<1> HIDE DEF a
<1>5. /\ att' \in [Attachments ->
           [owner : Client \cup {NoClient}, pc : {"unborn", "new", "run", "leave", "tell", "done"},
            closed : BOOLEAN, exited : BOOLEAN]]
      /\ \A b \in Attachments : b # a => att'[b] = att[b]
      /\ att'[a].owner = c /\ ~att'[a].exited /\ (att'[a].closed => down)
      /\ att'[a].pc \in {"run", "done"} /\ (att'[a].pc = "done" => down)
  BY <1>1, <1>2, <1>3, <1>4 DEF BodyInv, OtherTypeOK
<1>6. PICK g \in Grid, first \in {lead \cup {c}, lead \ {c}} :
        Reconcile([member EXCEPT ![c] = a], [want EXCEPT ![c] = g], first, {c})
  BY DEF Join, a
<1>7. GridTypeOK' /\ ViewersAgree' /\ member' = [member EXCEPT ![c] = a]
  <2> DEFINE of == [member EXCEPT ![c] = a]
             asks == [want EXCEPT ![c] = g]
             newcomer == {c}
  <2>1. Reconcile(of, asks, first, newcomer)  BY <1>6
  <2>2. of \in [Client -> 0..MaxAttach] /\ asks \in [Client -> Grid]
    BY <1>1, <1>3, <1>6 DEF GridTypeOK, Attachments
  <2>3. first \in SUBSET Client /\ newcomer \in SUBSET Client  BY <1>1, <1>6 DEF GridTypeOK
  <2>4. \A d \in Client : of[d] # 0 /\ d \notin newcomer => member[d] # 0
    BY <1>1 DEF GridTypeOK
  <2> HIDE DEF of, asks, newcomer
  <2>5. GridTypeOK' /\ ViewersAgree' /\ member' = of
    BY <1>1, <2>1, <2>2, <2>3, <2>4, ReconcileAgrees
  <2> QED  BY <2>5 DEF of
<1>8. OtherTypeOK'
  <2>1. job' \in [Client -> [do : {"read", "join", "leave"}, att : 0..MaxAttach]]
    BY <1>1, <1>2, MuxAssumption DEF BodyInv, OtherTypeOK, Idle, MuxAssumption
  <2> QED  BY <1>1, <1>2, <1>5, <2>1 DEF BodyInv, OtherTypeOK, worldVars
<1>9. AttachmentSound'
  BY <1>1, <1>2, <1>5 DEF BodyInv, AttachmentSound, At, worldVars
<1>10. job'[c] = Idle /\ \A d \in Client : d # c => job'[d] = job[d]
  BY <1>1, <1>2 DEF BodyInv, OtherTypeOK
<1>11. \A d \in Client : d # c => terms[d] # a /\ (job[d].att = a => ~Does(d, "join") /\ ~Does(d, "leave"))
  BY <1>1, <1>3, <1>4 DEF BodyInv, EntrySound, ReaderSound, At
<1>12. ReaderSound'
  <2> SUFFICES ASSUME NEW d \in Client
               PROVE  /\ Does(d, "read")' => job'[d] = Idle
                      /\ Does(d, "join")' =>
                           job'[d].att # 0 /\ terms'[d] = job'[d].att /\ att'[job'[d].att].pc = "new"
                      /\ Does(d, "leave")' /\ job'[d].att # 0 =>
                           /\ att'[job'[d].att].owner = d
                           /\ att'[job'[d].att].pc # "new" /\ att'[job'[d].att].pc # "unborn"
    BY DEF ReaderSound, At
  <2>1. CASE d = c  BY <1>10, <2>1 DEF Does, Idle
  <2>2. CASE d # c
    <3>1. job'[d] = job[d] /\ terms'[d] = terms[d]  BY <1>2, <1>10, <2>2
    <3>2. job[d].att # 0 => job[d].att \in Attachments
      BY <1>1, MuxAssumption DEF BodyInv, OtherTypeOK, Attachments, MuxAssumption
    <3>3. job[d].att # 0 /\ job[d].att # a => att'[job[d].att] = att[job[d].att]
      BY <1>5, <3>2
    <3> QED  BY <1>1, <1>11, <2>2, <3>1, <3>3 DEF BodyInv, ReaderSound, Does, At
  <2> QED  BY <2>1, <2>2
<1>13. EntrySound'
  <2> SUFFICES ASSUME NEW d \in Client, terms'[d] # 0
               PROVE  /\ conn'[d] = "up"
                      /\ att'[terms'[d]].owner = d /\ ~att'[terms'[d]].exited
                      /\ att'[terms'[d]].pc = "new" => Does(d, "join")' /\ job'[d].att = terms'[d]
    BY DEF EntrySound, At
  <2>1. CASE d = c  BY <1>1, <1>2, <1>3, <1>5, <2>1 DEF BodyInv, EntrySound
  <2>2. CASE d # c
    <3>1. terms[d] \in Attachments
      BY <1>1, <1>2, MuxAssumption DEF BodyInv, OtherTypeOK, Attachments, MuxAssumption
    <3>2. att'[terms[d]] = att[terms[d]]  BY <1>5, <1>11, <2>2, <3>1
    <3> QED  BY <1>1, <1>2, <1>10, <2>2, <3>2 DEF BodyInv, EntrySound, Does, At
  <2> QED  BY <2>1, <2>2
<1>14. ViewerSound'
  <2> SUFFICES ASSUME NEW d \in Client, member'[d] # 0
               PROVE  /\ att'[member'[d]].owner = d
                      /\ att'[member'[d]].pc \in {"run", "leave", "done"}
                      /\ att'[member'[d]].closed \/ att'[member'[d]].pc = "done" => down'
                      /\ terms'[d] # 0 \/ Leaves(d)'
    BY DEF ViewerSound, At
  <2>1. CASE d = c
    <3>1. member'[d] = a  BY <1>1, <1>7, <2>1 DEF GridTypeOK
    <3> QED  BY <1>2, <1>3, <1>5, <2>1, <3>1 DEF worldVars, Attachments
  <2>2. CASE d # c
    <3>1. member'[d] = member[d] /\ member[d] \in Attachments
      BY <1>1, <1>7, <2>2, MuxAssumption DEF GridTypeOK, Attachments, MuxAssumption
    <3>2. att'[member[d]] = att[member[d]]
      BY <1>1, <1>3, <1>5, <2>2, <3>1 DEF BodyInv, ViewerSound
    <3>3. Does(d, "leave")' = Does(d, "leave")  BY <1>10, <2>2 DEF Does
    <3>4. \A b \in Attachments : att[b].owner = d /\ At(b, "leave") => att'[b].owner = d /\ At(b, "leave")'
      BY <1>3, <1>5 DEF At
    <3> QED  BY <1>1, <1>2, <3>1, <3>2, <3>3, <3>4 DEF BodyInv, ViewerSound, Leaves, At, worldVars
  <2> QED  BY <2>1, <2>2
<1> QED  BY <1>7, <1>8, <1>9, <1>12, <1>13, <1>14, PartsNext DEF BodyInv

-----------------------------------------------------------------------------
(* Whoever takes viewers out, and the attachments.                         *)

\* A step that moves one attachment along, and may take its owner's viewer
\* or entry out.
LEMMA AttachmentMoves ==
  ASSUME Inv, NEW a \in Attachments, NEW c \in Client,
         att[a].owner = c, att[a].pc \notin {"unborn", "new"},
         OtherTypeOK', down' = down, conn' = conn,
         \A b \in Attachments : b # a => att'[b] = att[b],
         att'[a].owner = c, att'[a].pc \in {"run", "leave", "tell", "done"},
         \A d \in Client : d # c => job'[d] = job[d] /\ terms'[d] = terms[d] /\ member'[d] = member[d],
         job'[c] = Idle \/ job'[c] = job[c],
         terms'[c] \in {0, terms[c]},
         terms[c] # a /\ Does(c, "join") => terms'[c] = terms[c] /\ job'[c] = job[c],
         terms'[c] = a => ~att'[a].exited,
         member'[c] \in {0, member[c]},
         member'[c] = a =>
           /\ att'[a].pc \in {"run", "leave", "done"}
           /\ att'[a].closed \/ att'[a].pc = "done" => down,
         member'[c] # 0 => terms'[c] # 0 \/ Leaves(c)'
  PROVE  BodyInv'
<1>1. GridTypeOK /\ ViewersAgree /\ BodyInv  BY Parts
<1>2. a # 0  BY DEF Attachments
<1>3. AttachmentSound'
  BY <1>1 DEF BodyInv, AttachmentSound, At
<1>4. \A d \in Client :
        /\ terms[d] # 0 => terms[d] \in Attachments
        /\ job[d].att # 0 => job[d].att \in Attachments
        /\ member[d] # 0 => member[d] \in Attachments
  BY <1>1, MuxAssumption DEF BodyInv, OtherTypeOK, GridTypeOK, Attachments, MuxAssumption
<1>5. Does(c, "join") => terms[c] # a /\ job[c].att # a
  BY <1>1 DEF BodyInv, ReaderSound, At
<1>6. ReaderSound'
  <2> SUFFICES ASSUME NEW d \in Client
               PROVE  /\ Does(d, "read")' => job'[d] = Idle
                      /\ Does(d, "join")' =>
                           job'[d].att # 0 /\ terms'[d] = job'[d].att /\ att'[job'[d].att].pc = "new"
                      /\ Does(d, "leave")' /\ job'[d].att # 0 =>
                           /\ att'[job'[d].att].owner = d
                           /\ att'[job'[d].att].pc # "new" /\ att'[job'[d].att].pc # "unborn"
    BY DEF ReaderSound, At
  <2>1. job'[d] = Idle \/ job'[d] = job[d]  OBVIOUS
  <2>2. CASE job'[d] = Idle  BY <2>2 DEF Does, Idle
  <2>3. CASE job'[d] = job[d] /\ job'[d] # Idle
    <3>1. job[d].att # 0 /\ job[d].att # a => att'[job[d].att] = att[job[d].att]  BY <1>4
    <3>2. Does(d, "join") => terms'[d] = terms[d] /\ job[d].att # a
      <4>1. Does(d, "join") => att[job[d].att].pc = "new"
        BY <1>1 DEF BodyInv, ReaderSound, At
      <4> QED  BY <1>5, <4>1
    <3>3. Does(d, "leave") /\ job[d].att = a => att'[a].owner = d
      BY <1>1, <1>2 DEF BodyInv, ReaderSound
    <3> QED  BY <1>1, <2>3, <3>1, <3>2, <3>3 DEF BodyInv, ReaderSound, Does, At
  <2> QED  BY <2>1, <2>2, <2>3
<1>7. EntrySound'
  <2> SUFFICES ASSUME NEW d \in Client, terms'[d] # 0
               PROVE  /\ conn'[d] = "up"
                      /\ att'[terms'[d]].owner = d /\ ~att'[terms'[d]].exited
                      /\ att'[terms'[d]].pc = "new" => Does(d, "join")' /\ job'[d].att = terms'[d]
    BY DEF EntrySound, At
  <2>1. terms'[d] = terms[d]  OBVIOUS
  <2>2. /\ conn[d] = "up" /\ att[terms[d]].owner = d /\ ~att[terms[d]].exited
        /\ att[terms[d]].pc = "new" => Does(d, "join") /\ job[d].att = terms[d]
    BY <1>1, <2>1 DEF BodyInv, EntrySound, At
  <2>3. CASE terms[d] = a  BY <2>1, <2>2, <2>3
  <2>4. CASE terms[d] # a
    <3>1. att'[terms[d]] = att[terms[d]]  BY <1>4, <2>1, <2>4
    <3>2. Does(d, "join") => job'[d] = job[d]  BY <1>5
    <3> QED  BY <2>1, <2>2, <3>1, <3>2 DEF Does
  <2> QED  BY <2>3, <2>4
<1>8. ViewerSound'
  <2> SUFFICES ASSUME NEW d \in Client, member'[d] # 0
               PROVE  /\ att'[member'[d]].owner = d
                      /\ att'[member'[d]].pc \in {"run", "leave", "done"}
                      /\ att'[member'[d]].closed \/ att'[member'[d]].pc = "done" => down'
                      /\ terms'[d] # 0 \/ Leaves(d)'
    BY DEF ViewerSound, At
  <2>1. member'[d] = member[d]  OBVIOUS
  <2>2. /\ att[member[d]].owner = d /\ att[member[d]].pc \in {"run", "leave", "done"}
        /\ att[member[d]].closed \/ att[member[d]].pc = "done" => down
        /\ terms[d] # 0 \/ Leaves(d)
    BY <1>1, <2>1 DEF BodyInv, ViewerSound, At
  <2>3. terms'[d] # 0 \/ Leaves(d)'
    <3>1. CASE d = c  BY <3>1
    <3>2. CASE d # c
      <4>1. Does(d, "leave") => Does(d, "leave")'  BY <3>2 DEF Does
      <4>2. \A b \in Attachments : att[b].owner = d /\ At(b, "leave") => att'[b].owner = d /\ At(b, "leave")'
        BY <3>2 DEF At
      <4> QED  BY <2>2, <3>2, <4>1, <4>2 DEF Leaves
    <3> QED  BY <3>1, <3>2
  <2>4. CASE member[d] = a  BY <2>1, <2>2, <2>3, <2>4
  <2>5. CASE member[d] # a
    <3>1. att'[member[d]] = att[member[d]]  BY <1>4, <2>1, <2>5
    <3> QED  BY <2>1, <2>2, <2>3, <3>1
  <2> QED  BY <2>4, <2>5
<1> QED  BY <1>3, <1>6, <1>7, <1>8 DEF BodyInv

LEMMA LeaveSharedKeeps ==
  ASSUME Inv, NEW c \in Client, LeaveShared(c)
  PROVE  Inv'
<1> DEFINE a == job[c].att
<1>1. GridTypeOK /\ ViewersAgree /\ BodyInv  BY Parts
<1>2. GridTypeOK' /\ ViewersAgree' /\ member' = [member EXCEPT ![c] = 0]
  BY <1>1, LeaveAgrees DEF LeaveShared
<1>3. /\ Does(c, "leave") /\ job' = [job EXCEPT ![c] = Idle]
      /\ att' = IF a = 0 THEN att ELSE [att EXCEPT ![a].closed = TRUE]
      /\ UNCHANGED <<conn, terms, worldVars>>
  BY DEF LeaveShared
<1>4. /\ member'[c] = 0 /\ job'[c] = Idle
      /\ \A d \in Client : d # c => member'[d] = member[d] /\ job'[d] = job[d]
  BY <1>1, <1>2, <1>3 DEF GridTypeOK, BodyInv, OtherTypeOK
<1>5. a # 0 => a \in Attachments /\ att[a].owner = c /\ att[a].pc \notin {"unborn", "new"}
  BY <1>1, <1>3, MuxAssumption
  DEF BodyInv, OtherTypeOK, ReaderSound, At, Attachments, MuxAssumption
<1> HIDE DEF a
<1>6. OtherTypeOK'
  <2>1. job' \in [Client -> [do : {"read", "join", "leave"}, att : 0..MaxAttach]]
    BY <1>1, <1>3, MuxAssumption DEF BodyInv, OtherTypeOK, Idle, MuxAssumption
  <2>2. CASE a = 0
    <3>1. att' = att  BY <1>3, <2>2
    <3> QED  BY <1>1, <1>3, <2>1, <3>1 DEF BodyInv, OtherTypeOK, worldVars
  <2>3. CASE a # 0
    <3>1. att' = [att EXCEPT ![a].closed = TRUE]  BY <1>3, <2>3
    <3>2. att' \in [Attachments ->
               [owner : Client \cup {NoClient}, pc : {"unborn", "new", "run", "leave", "tell", "done"},
                closed : BOOLEAN, exited : BOOLEAN]]
      BY <1>1, <3>1 DEF BodyInv, OtherTypeOK
    <3> QED  BY <1>1, <1>3, <2>1, <3>2 DEF BodyInv, OtherTypeOK, worldVars
  <2> QED  BY <2>2, <2>3
<1>7. CASE a # 0
  <2>1. att'[a].owner = c /\ att'[a].pc = att[a].pc /\ att'[a].exited = att[a].exited
    BY <1>1, <1>3, <1>5, <1>7 DEF BodyInv, OtherTypeOK
  <2>2. \A b \in Attachments : b # a => att'[b] = att[b]
    BY <1>1, <1>3, <1>7 DEF BodyInv, OtherTypeOK
  <2>3. terms'[c] = a => ~att'[a].exited
    BY <1>1, <1>3, <1>7, <2>1 DEF BodyInv, EntrySound
  <2>4. att'[a].pc \in {"run", "leave", "tell", "done"}
    BY <1>1, <1>5, <1>7, <2>1 DEF BodyInv, OtherTypeOK
  <2>5. ~Does(c, "join")  BY <1>3 DEF Does
  <2>6. BodyInv'
    BY <1>3, <1>4, <1>5, <1>6, <1>7, <2>1, <2>2, <2>3, <2>4, <2>5, AttachmentMoves DEF worldVars
  <2> QED  BY <1>2, <2>6, PartsNext
<1>8. CASE a = 0
  <2>1. AttachmentSound'  BY <1>1, <1>3, <1>8 DEF BodyInv, AttachmentSound, At, worldVars
  <2>2. ReaderSound'
    BY <1>1, <1>3, <1>4, <1>8 DEF BodyInv, ReaderSound, Does, At, Idle
  <2>3. EntrySound'
    BY <1>1, <1>3, <1>4, <1>8 DEF BodyInv, EntrySound, Does, At
  <2>4. ViewerSound'
    BY <1>1, <1>3, <1>4, <1>8 DEF BodyInv, ViewerSound, Leaves, Does, At, worldVars
  <2> QED  BY <1>2, <1>6, <2>1, <2>2, <2>3, <2>4, PartsNext DEF BodyInv
<1> QED  BY <1>7, <1>8

\* What an attachment's own steps leave alone.
LEMMA LoopMoves ==
  ASSUME Inv, NEW a \in Attachments, att[a].pc \in {"run", "leave", "tell"},
         NEW r \in [owner : Client \cup {NoClient}, pc : {"unborn", "new", "run", "leave", "tell", "done"},
                    closed : BOOLEAN, exited : BOOLEAN],
         r.owner = att[a].owner, r.pc \in {"leave", "tell", "done"}, r.closed = att[a].closed,
         att' = [att EXCEPT ![a] = r],
         terms' = [terms EXCEPT ![r.owner] = terms'[r.owner]],
         terms'[r.owner] \in {0, terms[r.owner]},
         terms[r.owner] # a => terms' = terms,
         terms'[r.owner] = a => ~r.exited,
         member' = [member EXCEPT ![r.owner] = member'[r.owner]],
         member'[r.owner] \in {0, member[r.owner]},
         member'[r.owner] = a => r.pc = "leave" \/ (r.pc = "done" /\ down),
         terms' # terms => r.pc = "leave",
         att[a].pc = "leave" => member'[r.owner] = 0,
         UNCHANGED <<conn, job, down, resizes>>
  PROVE  r.owner \in Client /\ BodyInv'
<1> DEFINE c == r.owner
<1>1. GridTypeOK /\ ViewersAgree /\ BodyInv  BY Parts
<1>2. c \in Client  BY <1>1 DEF BodyInv, AttachmentSound, At
<1> HIDE DEF c
<1>3. att'[a] = r /\ \A b \in Attachments : b # a => att'[b] = att[b]
  BY <1>1 DEF BodyInv, OtherTypeOK
<1>4. \A d \in Client : d # c => terms'[d] = terms[d] /\ member'[d] = member[d]
  BY <1>1 DEF BodyInv, OtherTypeOK, GridTypeOK, c
<1>5. OtherTypeOK'
  <2>1. terms' \in [Client -> 0..MaxAttach]
    <3>1. terms'[c] \in 0..MaxAttach
      BY <1>1, <1>2, MuxAssumption DEF BodyInv, OtherTypeOK, MuxAssumption, c
    <3>2. terms' = [terms EXCEPT ![c] = terms'[c]]  BY DEF c
    <3> QED  BY <1>1, <1>2, <3>1, <3>2 DEF BodyInv, OtherTypeOK
  <2>2. att' \in [Attachments ->
          [owner : Client \cup {NoClient}, pc : {"unborn", "new", "run", "leave", "tell", "done"},
           closed : BOOLEAN, exited : BOOLEAN]]
    BY <1>1 DEF BodyInv, OtherTypeOK
  <2>3. conn' = conn /\ job' = job /\ down' = down /\ resizes' = resizes  OBVIOUS
  <2> QED  BY <1>1, <2>1, <2>2, <2>3 DEF BodyInv, OtherTypeOK
<1>6. Does(c, "join") => terms[c] # a
  BY <1>1, <1>2 DEF BodyInv, ReaderSound, At
<1>7. (member'[c] = a) => ((r.closed \/ r.pc = "done") => down)
  <2>1. a # 0  BY DEF Attachments
  <2>2. member'[c] = a => member[c] = a  BY <2>1 DEF c
  <2>3. member[c] = a /\ r.closed => down  BY <1>1, <1>2, <2>1 DEF BodyInv, ViewerSound
  <2> QED  BY <2>2, <2>3 DEF c
<1>8. member'[c] # 0 => terms'[c] # 0 \/ Leaves(c)'
  <2> SUFFICES ASSUME member'[c] # 0 PROVE terms'[c] # 0 \/ Leaves(c)'  OBVIOUS
  <2>1. member[c] # 0  BY DEF c
  <2>2. terms[c] # 0 \/ Leaves(c)  BY <1>1, <1>2, <2>1 DEF BodyInv, ViewerSound
  <2>3. CASE r.pc = "leave"
    <3>1. att'[a].owner = c /\ At(a, "leave")'  BY <1>3, <2>3 DEF At, c
    <3> QED  BY <3>1 DEF Leaves
  <2>4. CASE r.pc # "leave"
    <3>1. terms' = terms  BY <2>4
    <3>2. att[a].pc # "leave"  BY DEF c
    <3>3. \A b \in Attachments : att[b].owner = c /\ At(b, "leave") => att'[b].owner = c /\ At(b, "leave")'
      BY <1>3, <3>2 DEF At
    <3> QED  BY <2>2, <3>1, <3>3 DEF Leaves, Does
  <2> QED  BY <2>3, <2>4
<1>9. BodyInv'
  <2>1. att[a].owner = c /\ att'[a].owner = c  BY <1>3 DEF c
  <2>2. terms'[c] \in {0, terms[c]} /\ member'[c] \in {0, member[c]}  BY DEF c
  <2>3. terms[c] # a /\ Does(c, "join") => terms'[c] = terms[c] /\ job'[c] = job[c]  BY DEF c
  <2>4. terms'[c] = a => ~att'[a].exited  BY <1>3 DEF c
  <2>5. member'[c] = a =>
           /\ att'[a].pc \in {"run", "leave", "done"}
           /\ att'[a].closed \/ att'[a].pc = "done" => down
    BY <1>3, <1>7 DEF c
  <2>6. att[a].pc \notin {"unborn", "new"} /\ att'[a].pc \in {"run", "leave", "tell", "done"}
    BY <1>3
  <2> QED  BY <1>2, <1>3, <1>4, <1>5, <1>8, <2>1, <2>2, <2>3, <2>4, <2>5, <2>6, AttachmentMoves
<1> QED  BY <1>2, <1>9 DEF c

LEMMA AttachmentOf ==
  ASSUME Inv, NEW a \in Attachments
  PROVE  att[a] \in [owner : Client \cup {NoClient},
                     pc : {"unborn", "new", "run", "leave", "tell", "done"},
                     closed : BOOLEAN, exited : BOOLEAN]
BY Parts DEF BodyInv, OtherTypeOK

\* terms and member when a step leaves them alone.
LEMMA Untouched ==
  ASSUME Inv, NEW c
  PROVE  terms = [terms EXCEPT ![c] = terms[c]] /\ member = [member EXCEPT ![c] = member[c]]
BY Parts DEF BodyInv, OtherTypeOK, GridTypeOK

LEMMA StopsKeeps ==
  ASSUME Inv, NEW a \in Attachments, Stops(a)
  PROVE  Inv'
<1> DEFINE r == [att[a] EXCEPT !.pc = "done"]
<1>1. GridTypeOK /\ ViewersAgree /\ BodyInv  BY Parts
<1>2. GridTypeOK' /\ ViewersAgree' /\ member' = member  BY <1>1, GridUnchanged DEF Stops
<1>3. /\ att[a].pc = "run" /\ (att[a].closed \/ down) /\ att' = [att EXCEPT ![a] = r]
      /\ terms' = terms /\ UNCHANGED <<conn, job, down, resizes>>
  BY DEF Stops, At, Goes, connVars, worldVars
<1>4. /\ r \in [owner : Client \cup {NoClient}, pc : {"unborn", "new", "run", "leave", "tell", "done"},
                closed : BOOLEAN, exited : BOOLEAN]
      /\ r.owner = att[a].owner /\ r.pc = "done" /\ r.closed = att[a].closed /\ r.exited = att[a].exited
  BY AttachmentOf
<1> HIDE DEF r
<1>5. r.owner \in Client /\ a # 0  BY <1>1, <1>3, <1>4 DEF BodyInv, AttachmentSound, At, Attachments
<1>6. terms[r.owner] = a => ~r.exited  BY <1>1, <1>4, <1>5 DEF BodyInv, EntrySound
<1>7. member[r.owner] = a => down  BY <1>1, <1>3, <1>5 DEF BodyInv, ViewerSound
<1>8. terms = [terms EXCEPT ![r.owner] = terms[r.owner]]
      /\ member = [member EXCEPT ![r.owner] = member[r.owner]]
  BY Untouched
<1>9. BodyInv'  BY <1>2, <1>3, <1>4, <1>6, <1>7, <1>8, LoopMoves
<1> QED  BY <1>2, <1>9, PartsNext

LEMMA GivesUpKeeps ==
  ASSUME Inv, NEW a \in Attachments, GivesUp(a)
  PROVE  Inv'
<1> DEFINE r == [att[a] EXCEPT !.exited = TRUE, !.pc = "leave"]
<1>1. GridTypeOK /\ ViewersAgree /\ BodyInv  BY Parts
<1>2. GridTypeOK' /\ ViewersAgree' /\ member' = member  BY <1>1, GridUnchanged DEF GivesUp
<1>3. /\ att[a].pc = "run" /\ att' = [att EXCEPT ![a] = r]
      /\ terms' = [terms EXCEPT ![att[a].owner] = Forget(a, att[a].owner)]
      /\ UNCHANGED <<conn, job, down, resizes>>
  BY DEF GivesUp, At, Goes, worldVars
<1>4. /\ r \in [owner : Client \cup {NoClient}, pc : {"unborn", "new", "run", "leave", "tell", "done"},
                closed : BOOLEAN, exited : BOOLEAN]
      /\ r.owner = att[a].owner /\ r.pc = "leave" /\ r.closed = att[a].closed
  BY AttachmentOf
<1> HIDE DEF r
<1>5. r.owner \in Client /\ a # 0  BY <1>1, <1>3, <1>4 DEF BodyInv, AttachmentSound, At, Attachments
<1>6. /\ terms'[r.owner] = IF terms[r.owner] = a THEN 0 ELSE terms[r.owner]
      /\ terms' = [terms EXCEPT ![r.owner] = terms'[r.owner]]
      /\ terms[r.owner] # a => terms' = terms
  BY <1>1, <1>3, <1>4, <1>5 DEF BodyInv, OtherTypeOK, Forget
<1>7. member = [member EXCEPT ![r.owner] = member[r.owner]]  BY Untouched
<1>8. terms'[r.owner] # a  BY <1>5, <1>6
<1>9. BodyInv'  BY <1>2, <1>3, <1>4, <1>6, <1>7, <1>8, LoopMoves
<1> QED  BY <1>2, <1>9, PartsNext

LEMMA ExitLeavesKeeps ==
  ASSUME Inv, NEW a \in Attachments, ExitLeaves(a)
  PROVE  Inv'
<1> DEFINE r == [att[a] EXCEPT !.pc = "tell"]
<1>1. GridTypeOK /\ ViewersAgree /\ BodyInv  BY Parts
<1>2. /\ att[a].pc = "leave" /\ att' = [att EXCEPT ![a] = r]
      /\ terms' = terms /\ UNCHANGED <<conn, job, down, resizes>>
      /\ LeaveIfViewer(att[a].owner)
  BY DEF ExitLeaves, At, Goes, connVars, worldVars
<1>3. /\ r \in [owner : Client \cup {NoClient}, pc : {"unborn", "new", "run", "leave", "tell", "done"},
                closed : BOOLEAN, exited : BOOLEAN]
      /\ r.owner = att[a].owner /\ r.pc = "tell" /\ r.closed = att[a].closed /\ r.exited = att[a].exited
  BY AttachmentOf
<1> HIDE DEF r
<1>4. r.owner \in Client /\ a # 0  BY <1>1, <1>2, <1>3 DEF BodyInv, AttachmentSound, At, Attachments
<1>5. GridTypeOK' /\ ViewersAgree' /\ member' = [member EXCEPT ![r.owner] = 0]
  BY <1>1, <1>2, <1>3, <1>4, LeaveAgrees
<1>6. member'[r.owner] = 0  BY <1>1, <1>4, <1>5 DEF GridTypeOK
<1>7. terms[r.owner] = a => ~r.exited  BY <1>1, <1>3, <1>4 DEF BodyInv, EntrySound
<1>8. terms = [terms EXCEPT ![r.owner] = terms[r.owner]]  BY Untouched
<1>9. BodyInv'  BY <1>2, <1>3, <1>4, <1>5, <1>6, <1>7, <1>8, LoopMoves
<1> QED  BY <1>5, <1>9, PartsNext

LEMMA ExitTellsKeeps ==
  ASSUME Inv, NEW a \in Attachments, ExitTells(a)
  PROVE  Inv'
<1> DEFINE r == [att[a] EXCEPT !.pc = "done"]
<1>1. GridTypeOK /\ ViewersAgree /\ BodyInv  BY Parts
<1>2. GridTypeOK' /\ ViewersAgree' /\ member' = member  BY <1>1, GridUnchanged DEF ExitTells
<1>3. /\ att[a].pc = "tell" /\ att' = [att EXCEPT ![a] = r]
      /\ terms' = terms /\ UNCHANGED <<conn, job, down, resizes>>
  BY DEF ExitTells, At, Goes, connVars, worldVars
<1>4. /\ r \in [owner : Client \cup {NoClient}, pc : {"unborn", "new", "run", "leave", "tell", "done"},
                closed : BOOLEAN, exited : BOOLEAN]
      /\ r.owner = att[a].owner /\ r.pc = "done" /\ r.closed = att[a].closed /\ r.exited = att[a].exited
  BY AttachmentOf
<1> HIDE DEF r
<1>5. r.owner \in Client /\ a # 0  BY <1>1, <1>3, <1>4 DEF BodyInv, AttachmentSound, At, Attachments
<1>6. terms[r.owner] = a => ~r.exited  BY <1>1, <1>4, <1>5 DEF BodyInv, EntrySound
<1>7. member[r.owner] # a  BY <1>1, <1>3, <1>5 DEF BodyInv, ViewerSound
<1>8. terms = [terms EXCEPT ![r.owner] = terms[r.owner]]
      /\ member = [member EXCEPT ![r.owner] = member[r.owner]]
  BY Untouched
<1>9. BodyInv'  BY <1>2, <1>3, <1>4, <1>6, <1>7, <1>8, LoopMoves
<1> QED  BY <1>2, <1>9, PartsNext

LEMMA MuxClosesKeeps ==
  ASSUME Inv, MuxCloses
  PROVE  Inv'
<1>1. GridTypeOK /\ ViewersAgree /\ BodyInv  BY Parts
<1>2. GridTypeOK' /\ ViewersAgree' /\ member' = member  BY <1>1, GridUnchanged DEF MuxCloses
<1>3. \A a \in Attachments :
        /\ att'[a] \in [owner : Client \cup {NoClient},
                         pc : {"unborn", "new", "run", "leave", "tell", "done"},
                         closed : BOOLEAN, exited : BOOLEAN]
        /\ att'[a].owner = att[a].owner /\ att'[a].pc = att[a].pc /\ att'[a].exited = att[a].exited
        /\ At(a, "unborn") => att'[a] = att[a]
  BY AttachmentOf DEF MuxCloses, At
<1>4. UNCHANGED <<connVars, resizes>> /\ down' = TRUE  BY DEF MuxCloses
<1>5. att' \in [Attachments ->
        [owner : Client \cup {NoClient}, pc : {"unborn", "new", "run", "leave", "tell", "done"},
         closed : BOOLEAN, exited : BOOLEAN]]
  BY <1>3 DEF MuxCloses
<1>6. \A c \in Client :
        /\ terms[c] # 0 => terms[c] \in Attachments
        /\ job[c].att # 0 => job[c].att \in Attachments
        /\ member[c] # 0 => member[c] \in Attachments
  BY <1>1, MuxAssumption DEF BodyInv, OtherTypeOK, GridTypeOK, Attachments, MuxAssumption
<1>7. OtherTypeOK'  BY <1>1, <1>4, <1>5 DEF BodyInv, OtherTypeOK, connVars
<1>8. AttachmentSound'  BY <1>1, <1>3, <1>4 DEF BodyInv, AttachmentSound, At
<1>9. ReaderSound'  BY <1>1, <1>3, <1>4, <1>6 DEF BodyInv, ReaderSound, Does, At, connVars
<1>10. EntrySound'  BY <1>1, <1>3, <1>4, <1>6 DEF BodyInv, EntrySound, Does, At, connVars
<1>11. ViewerSound'  BY <1>1, <1>2, <1>3, <1>4, <1>6 DEF BodyInv, ViewerSound, Leaves, Does, At,
  connVars
<1> QED  BY <1>2, <1>7, <1>8, <1>9, <1>10, <1>11, PartsNext DEF BodyInv

-----------------------------------------------------------------------------
(* The theorems.                                                           *)

LEMMA InitInv == Init => Inv
<1> SUFFICES ASSUME Init PROVE Inv  OBVIOUS
<1>1. 0 \in Grid /\ 0 \in 0..MaxAttach /\ 0 \in 0..MaxResizes
  BY MuxAssumption DEF MuxAssumption, Grid
<1>2. MuxTypeOK  BY <1>1 DEF Init, MuxTypeOK, Unborn, Idle
<1>3. AttachmentSound /\ ReaderSound /\ EntrySound /\ ViewerSound
  BY DEF Init, AttachmentSound, ReaderSound, EntrySound, ViewerSound, At, Does, Unborn, Idle
<1>4. ViewersAgree  BY DEF Init, ViewersAgree
<1> QED  BY <1>2, <1>3, <1>4 DEF Inv, MuxInv

LEMMA NextInv == Inv /\ [Next]_vars => Inv'
<1> SUFFICES ASSUME Inv, [Next]_vars PROVE Inv'  OBVIOUS
<1>1. CASE Next
  <2>1. ASSUME NEW c \in Client, Open(c) PROVE Inv'  BY <2>1, OpenKeeps
  <2>2. ASSUME NEW c \in Client, Resize(c) PROVE Inv'  BY <2>2, ResizeKeeps
  <2>3. ASSUME NEW c \in Client, Close(c) PROVE Inv'  BY <2>3, CloseKeeps
  <2>4. ASSUME NEW c \in Client, Cut(c) PROVE Inv'  BY <2>4, CutKeeps
  <2>5. ASSUME NEW c \in Client, Reader(c) PROVE Inv'
    BY <2>5, JoinKeeps, LeaveSharedKeeps DEF Reader
  <2>6. ASSUME NEW a \in Attachments, GivesUp(a) PROVE Inv'  BY <2>6, GivesUpKeeps
  <2>7. ASSUME NEW a \in Attachments, End(a) PROVE Inv'
    BY <2>7, StopsKeeps, ExitLeavesKeeps, ExitTellsKeeps DEF End
  <2>8. CASE MuxCloses  BY <2>8, MuxClosesKeeps
  <2> QED  BY <1>1, <2>1, <2>2, <2>3, <2>4, <2>5, <2>6, <2>7, <2>8 DEF Next
<1>2. CASE UNCHANGED vars
  <2>1. GridTypeOK' /\ ViewersAgree' /\ member' = member  BY <1>2, Parts, GridUnchanged DEF vars
  <2>2. resizes' \in 0..MaxResizes  BY <1>2, Parts DEF BodyInv, OtherTypeOK, vars, worldVars
  <2>3. BodyInv'  BY <1>2, <2>1, <2>2, Parts, BodyFrame DEF vars, worldVars
  <2> QED  BY <2>1, <2>3, PartsNext
<1> QED  BY <1>1, <1>2

\* The grid, the readers, the attachments and their entries keep in step
\* (TerminalMux.MuxInv), whatever the order of their steps.
THEOREM InvHolds == Spec => []Inv
BY InitInv, NextInv, PTL DEF Spec

\* The types hold, for any number of connections and attachments: the grid is
\* always one that some client asked for.
THEOREM MuxTypesHold == Spec => []MuxTypeOK
<1>1. Inv => MuxTypeOK  BY DEF Inv, MuxInv
<1> QED  BY <1>1, InvHolds, PTL

\* Every viewer is told the grid of the pane and streams at it, and it is the
\* largest asked for by a viewer that may ask (largestGrid, reconcileLocked).
THEOREM ViewersHaveOneGrid == Spec => []ViewersAgree
<1>1. Inv => ViewersAgree  BY DEF Inv
<1> QED  BY <1>1, InvHolds, PTL

\* Connections that are gone and attachments that ended do not hold the grid,
\* and an attachment that gave up keeps no entry (onExit, cleanup).
THEOREM NoGhostsRemain == Spec => []NoGhosts
<1>1. Inv => NoGhosts
  <2> SUFFICES ASSUME Inv PROVE NoGhosts  OBVIOUS
  <2>1. \A c \in Client : member[c] # 0 =>
          /\ att[member[c]].owner = c
          /\ At(member[c], "done") => down
          /\ conn[c] = "gone" =>
               Does(c, "leave") \/ \E a \in Attachments : att[a].owner = c /\ At(a, "leave")
    BY Parts DEF BodyInv, ViewerSound, EntrySound, Leaves
  <2>2. \A c \in Client : terms[c] # 0 => ~(At(terms[c], "done") /\ att[terms[c]].exited)
    BY Parts DEF BodyInv, EntrySound
  <2> QED  BY <2>1, <2>2 DEF NoGhosts
<1> QED  BY <1>1, InvHolds, PTL

-----------------------------------------------------------------------------
(* The attachment.                                                         *)

(* The parts of the invariant.                                             *)

InputTypeOK ==
  /\ pending \in Seq(1..MaxInput) /\ flush \in Seq(1..MaxInput) /\ got \in Seq(1..MaxInput)
  /\ typed \in 0..MaxInput /\ direct \in Nat

LoopTypeOK ==
  /\ pc \in {"new", "probe", "attach", "attaching", "publish", "replay", "flush", "read", "dropped",
             "exit", "done"}
  /\ failures \in 0..MaxReattach + 1 /\ exitsTold \in Nat /\ gen \in Nat
  /\ stream \in {"none", "open", "ended", "closed"}

SizeTypeOK == size \in Size /\ grid \in Size /\ asked \in Size /\ resized \in 0..MaxResized

FlagTypeOK ==
  /\ closed \in BOOLEAN /\ exited \in BOOLEAN /\ opened \in BOOLEAN
  /\ pub \in BOOLEAN /\ ready \in BOOLEAN /\ alive \in BOOLEAN /\ cancelled \in BOOLEAN
  /\ faults \in 0..MaxFaults

LEMMA TypeParts == AttachmentTypeOK <=> InputTypeOK /\ LoopTypeOK /\ SizeTypeOK /\ FlagTypeOK
BY DEF AttachmentTypeOK, InputTypeOK, LoopTypeOK, SizeTypeOK, FlagTypeOK

LEMMA TypePartsNext ==
  AttachmentTypeOK' <=> InputTypeOK' /\ LoopTypeOK' /\ SizeTypeOK' /\ FlagTypeOK'
BY DEF AttachmentTypeOK, InputTypeOK, LoopTypeOK, SizeTypeOK, FlagTypeOK

\* The steps that touch the input; all others leave it alone.
InputStep == Type \/ Write \/ CloseAttachment \/ TakePending \/ FlushOne \/ FlushFails

LEMMA InputOrNot == AttachmentNext => InputStep \/ UNCHANGED inputVars
BY DEF AttachmentNext, Loop, InputStep, ResizeAttachment, Stop, Start, Probe, ProbeFails, Attach,
  Attached,
       AttachFails, Publish, Replay, ReadEnds, Reattach, Exit, StreamEnds, PaneDies, PaneReturns,
       Shutdown

-----------------------------------------------------------------------------
(* Types.                                                                  *)

LEMMA InputTypeKept ==
  ASSUME InputTypeOK, LoopTypeOK, OneWay, [AttachmentNext]_attVars
  PROVE  InputTypeOK'
<1> USE AttachmentAssumption DEF AttachmentAssumption
<1>1. CASE Type
  <2>1. typed' \in 1..MaxInput /\ direct' \in Nat  BY <1>1 DEF Type, InputTypeOK, LoopTypeOK
  <2>2. Append(pending, typed') \in Seq(1..MaxInput)  BY <2>1 DEF InputTypeOK
  <2>3. pending' \in Seq(1..MaxInput)  BY <1>1, <2>2 DEF Type, InputTypeOK
  <2> QED  BY <1>1, <2>1, <2>3 DEF Type, InputTypeOK
<1>2. CASE Write
  <2>1. typed \in 1..MaxInput  BY <1>2 DEF Write, InputTypeOK, OneWay
  <2>2. Append(got, typed) \in Seq(1..MaxInput)  BY <2>1 DEF InputTypeOK
  <2>3. got' \in Seq(1..MaxInput)  BY <1>2, <2>2 DEF Write, InputTypeOK
  <2> QED  BY <1>2, <2>3 DEF Write, InputTypeOK
<1>3. CASE CloseAttachment  BY <1>3 DEF CloseAttachment, InputTypeOK
<1>4. CASE TakePending  BY <1>4 DEF TakePending, InputTypeOK
<1>5. CASE FlushOne
  <2>1. Head(flush) \in 1..MaxInput /\ Tail(flush) \in Seq(1..MaxInput)
    BY <1>5 DEF FlushOne, InputTypeOK
  <2>2. Append(got, Head(flush)) \in Seq(1..MaxInput)  BY <2>1 DEF InputTypeOK
  <2> QED  BY <1>5, <2>1, <2>2 DEF FlushOne, InputTypeOK
<1>6. CASE FlushFails  BY <1>6 DEF FlushFails, InputTypeOK
<1>7. CASE UNCHANGED inputVars  BY <1>7 DEF inputVars, InputTypeOK
<1> QED  BY <1>1, <1>2, <1>3, <1>4, <1>5, <1>6, <1>7, InputOrNot DEF InputStep, attVars, inputVars

LEMMA FailsTypes ==
  ASSUME LoopTypeOK, LoopSound, NEW from \in {0, failures}, Fails(from),
         pc \notin {"exit", "done"}
  PROVE  /\ failures' \in 0..MaxReattach + 1 /\ pc' \in {"probe", "exit"}
         /\ failures' > MaxReattach => pc' = "exit"
BY AttachmentAssumption DEF AttachmentAssumption, LoopTypeOK, LoopSound, Fails

\* What every step of the loop, and every step beside it, leaves sound.
LEMMA LoopKept ==
  ASSUME LoopTypeOK, FlagTypeOK, LoopSound, [AttachmentNext]_attVars
  PROVE  LoopTypeOK' /\ LoopSound'
<1> USE AttachmentAssumption DEF AttachmentAssumption
<1>1. CASE Type \/ Write \/ ResizeAttachment \/ PaneDies \/ PaneReturns \/ Shutdown \/ UNCHANGED attVars
  <2>1. UNCHANGED <<pc, failures, exitsTold, gen, stream, exited, closed, pub>> /\ (cancelled => cancelled')
    BY <1>1 DEF Type, Write, ResizeAttachment, PaneDies, PaneReturns, Shutdown, attVars, ptyVars,
      lifeVars, paneVars
  <2> QED  BY <2>1 DEF LoopTypeOK, LoopSound, ShouldStop, LoopAt
<1>2. CASE CloseAttachment
  BY <1>2 DEF CloseAttachment, LoopTypeOK, LoopSound, ShouldStop, LoopAt, paneVars
<1>3. CASE Stop
  BY <1>3 DEF Stop, LoopTypeOK, LoopSound, ShouldStop, LoopAt, LoopGoes, paneVars, lifeVars, ptyVars
<1>4. CASE Start \/ Attach
  BY <1>4 DEF Start, Attach, LoopTypeOK, LoopSound, ShouldStop, LoopAt, LoopGoes, paneVars, lifeVars,
    ptyVars
<1>5. CASE Probe
  BY <1>5 DEF Probe, Gate, LoopTypeOK, LoopSound, ShouldStop, LoopAt, LoopGoes, paneVars, lifeVars,
    ptyVars
<1>6. CASE ProbeFails
  <2>1. failures' \in 0..MaxReattach + 1 /\ pc' \in {"probe", "exit"}
        /\ (failures' > MaxReattach => pc' = "exit")
    BY <1>6, FailsTypes DEF ProbeFails, LoopAt
  <2> QED  BY <1>6, <2>1 DEF ProbeFails, LoopTypeOK, LoopSound, ShouldStop, LoopAt, lifeVars, ptyVars
<1>7. CASE Attached
  BY <1>7 DEF Attached, LoopTypeOK, LoopSound, ShouldStop, LoopAt, LoopGoes, paneVars, lifeVars
<1>8. CASE AttachFails
  <2>1. CASE ShouldStop
    BY <1>8, <2>1 DEF AttachFails, LoopTypeOK, LoopSound, ShouldStop, LoopAt, LoopGoes, lifeVars,
      ptyVars
  <2>2. CASE ~ShouldStop
    <3>1. failures' \in 0..MaxReattach + 1 /\ pc' \in {"probe", "exit"}
          /\ (failures' > MaxReattach => pc' = "exit")
      BY <1>8, <2>2, FailsTypes DEF AttachFails, LoopAt
    <3> QED  BY <1>8, <2>2, <3>1 DEF AttachFails, LoopTypeOK, LoopSound, ShouldStop, LoopAt, lifeVars,
      ptyVars
  <2> QED  BY <2>1, <2>2
<1>9. CASE Publish
  BY <1>9 DEF Publish, Refuses, LoopTypeOK, LoopSound, ShouldStop, LoopAt, LoopGoes, paneVars, lifeVars
<1>10. CASE Replay
  BY <1>10 DEF Replay, LoopTypeOK, LoopSound, ShouldStop, LoopAt, LoopGoes, paneVars, ptyVars
<1>11. CASE TakePending \/ FlushOne \/ FlushFails
  BY <1>11 DEF TakePending, FlushOne, FlushFails, LoopTypeOK, LoopSound, ShouldStop, LoopAt, LoopGoes,
               paneVars, lifeVars, ptyVars
<1>12. CASE ReadEnds
  BY <1>12 DEF ReadEnds, LoopTypeOK, LoopSound, ShouldStop, LoopAt, LoopGoes, paneVars, lifeVars
<1>13. CASE Reattach
  <2>1. CASE ShouldStop
    BY <1>13, <2>1 DEF Reattach, LoopTypeOK, LoopSound, ShouldStop, LoopAt, LoopGoes, paneVars,
      lifeVars, ptyVars
  <2>2. CASE ~ShouldStop
    <3>1. failures' \in 0..MaxReattach + 1 /\ pc' \in {"probe", "exit"}
          /\ (failures' > MaxReattach => pc' = "exit")
      BY <1>13, <2>2, FailsTypes DEF Reattach, LoopAt
    <3> QED  BY <1>13, <3>1 DEF Reattach, LoopTypeOK, LoopSound, ShouldStop, LoopAt, paneVars,
      lifeVars, ptyVars
  <2> QED  BY <2>1, <2>2
<1>14. CASE Exit
  BY <1>14 DEF Exit, Behind, LoopTypeOK, LoopSound, ShouldStop, LoopAt, LoopGoes, paneVars
<1>15. CASE StreamEnds
  BY <1>15 DEF StreamEnds, LoopTypeOK, LoopSound, ShouldStop, LoopAt, lifeVars
<1> QED
  BY <1>1, <1>2, <1>3, <1>4, <1>5, <1>6, <1>7, <1>8, <1>9, <1>10, <1>11, <1>12, <1>13, <1>14, <1>15
  DEF AttachmentNext, Loop

LEMMA SizeTypeKept ==
  ASSUME SizeTypeOK, [AttachmentNext]_attVars
  PROVE  SizeTypeOK'
<1> USE AttachmentAssumption DEF AttachmentAssumption
<1>1. CASE ResizeAttachment  BY <1>1 DEF ResizeAttachment, SizeTypeOK
<1>2. CASE Attach \/ Attached \/ Publish \/ Replay
  BY <1>2 DEF Attach, Attached, Publish, Replay, SizeTypeOK
<1>3. CASE UNCHANGED sizeVars  BY <1>3 DEF sizeVars, SizeTypeOK
<1>4. AttachmentNext => \/ ResizeAttachment \/ Attach \/ Attached \/ Publish \/ Replay
              \/ UNCHANGED sizeVars
  BY DEF AttachmentNext, Loop, Type, Write, CloseAttachment, Stop, Start, Probe, ProbeFails,
    AttachFails, TakePending,
         FlushOne, FlushFails, ReadEnds, Reattach, Exit, StreamEnds, PaneDies, PaneReturns, Shutdown
<1> QED  BY <1>1, <1>2, <1>3, <1>4 DEF attVars, sizeVars

LEMMA FlagTypeKept ==
  ASSUME FlagTypeOK, [AttachmentNext]_attVars
  PROVE  FlagTypeOK'
<1> USE AttachmentAssumption DEF AttachmentAssumption
<1>1. faults' \in 0..MaxFaults
  <2>1. AttachmentNext => faults' = faults \/ Fault
    BY DEF AttachmentNext, Loop, Type, Write, ResizeAttachment, CloseAttachment, Stop, Start, Probe,
      ProbeFails, Attach, Attached,
           AttachFails, Publish, Replay, TakePending, FlushOne, FlushFails, ReadEnds, Reattach, Exit,
           StreamEnds, PaneDies, PaneReturns, Shutdown, paneVars
  <2> QED  BY <2>1 DEF FlagTypeOK, Fault, attVars, paneVars
<1>2. closed' \in BOOLEAN /\ exited' \in BOOLEAN /\ opened' \in BOOLEAN /\ pub' \in BOOLEAN
  BY DEF FlagTypeOK, AttachmentNext, Loop, Type, Write, ResizeAttachment, CloseAttachment, Stop,
    Start, Probe, ProbeFails, Attach,
         Attached, AttachFails, Publish, Replay, TakePending, FlushOne, FlushFails, ReadEnds,
         Reattach, Exit, StreamEnds, PaneDies, PaneReturns, Shutdown, attVars, lifeVars, ptyVars
<1>3. ready' \in BOOLEAN /\ alive' \in BOOLEAN /\ cancelled' \in BOOLEAN
  BY DEF FlagTypeOK, AttachmentNext, Loop, Type, Write, ResizeAttachment, CloseAttachment, Stop,
    Start, Probe, ProbeFails, Attach,
         Attached, AttachFails, Publish, Replay, TakePending, FlushOne, FlushFails, ReadEnds,
         Reattach, Exit, StreamEnds, PaneDies, PaneReturns, Shutdown, attVars, ptyVars, paneVars
<1> QED  BY <1>1, <1>2, <1>3 DEF FlagTypeOK

-----------------------------------------------------------------------------
(* The two ways to the pane, and their order.                              *)

LEMMA OneWayKept ==
  ASSUME InputTypeOK, LoopTypeOK, FlagTypeOK, LoopSound, OneWay, [AttachmentNext]_attVars
  PROVE  OneWay'
<1>1. CASE Type
  BY <1>1 DEF Type, Takes, InputTypeOK, LoopTypeOK, LoopSound, OneWay, ptyVars
<1>2. CASE Write  BY <1>2 DEF Write, LoopTypeOK, OneWay, ptyVars
<1>3. CASE CloseAttachment  BY <1>3 DEF CloseAttachment, OneWay
<1>4. CASE TakePending  BY <1>4 DEF TakePending, OneWay
<1>5. CASE FlushOne  BY <1>5 DEF FlushOne, OneWay, ptyVars
<1>6. CASE FlushFails  BY <1>6 DEF FlushFails, OneWay, ptyVars
<1>7. CASE UNCHANGED inputVars /\ ~InputStep
  <2>1. CASE AttachmentNext
    <3>1. gen' >= gen
      BY <2>1 DEF AttachmentNext, Loop, Type, Write, ResizeAttachment, CloseAttachment, Stop, Start,
        Probe, ProbeFails, Attach,
         Attached, AttachFails, Publish, Replay, TakePending, FlushOne, FlushFails, ReadEnds,
         Reattach, Exit, StreamEnds, PaneDies, PaneReturns, Shutdown, ptyVars, LoopTypeOK
    <3>2. pub' /\ ready' => pub /\ ready
      BY <1>7, <2>1 DEF InputStep, AttachmentNext, Loop, ResizeAttachment, Stop, Start, Probe,
        ProbeFails, Attach,
         Attached, AttachFails, Publish, Replay, ReadEnds, Reattach, Exit, StreamEnds, PaneDies,
         PaneReturns, Shutdown, ptyVars
    <3>3. gen' \in Nat  BY LoopKept DEF LoopTypeOK
    <3> QED  BY <1>7, <3>1, <3>2, <3>3 DEF OneWay, inputVars, InputTypeOK, LoopTypeOK
  <2>2. CASE UNCHANGED attVars  BY <2>2 DEF OneWay, attVars, inputVars, ptyVars
  <2> QED  BY <2>1, <2>2
<1>8. InputStep \/ (UNCHANGED inputVars /\ ~InputStep)
  BY InputOrNot DEF attVars, inputVars
<1> QED  BY <1>1, <1>2, <1>3, <1>4, <1>5, <1>6, <1>7, <1>8 DEF InputStep

\* What is flushed next goes behind what has arrived, and before the rest.
LEMMA HeadAndTail ==
  ASSUME NEW s \in Seq(Int), s # <<>>
  PROVE  /\ Head(s) = s[1] /\ Len(s) > 0 /\ Len(Tail(s)) = Len(s) - 1
         /\ \A i \in 1..Len(Tail(s)) : Tail(s)[i] = s[i + 1]
OBVIOUS

LEMMA Appended ==
  ASSUME NEW s \in Seq(Int), NEW x \in Int
  PROVE  /\ Len(Append(s, x)) = Len(s) + 1
         /\ \A i \in 1..Len(s) + 1 : Append(s, x)[i] = IF i <= Len(s) THEN s[i] ELSE x
OBVIOUS

\* One element more at the end keeps a sequence increasing if all before are less.
Less(s, x) == \A i \in 1..Len(s) : s[i] < x

LEMMA AppendOrder ==
  ASSUME NEW s \in Seq(Int), NEW x \in Int, Less(s, x), Increasing(s)
  PROVE  Increasing(Append(s, x)) /\ Below(Append(s, x), x)
<1> DEFINE t == Append(s, x)
<1>1. Len(t) = Len(s) + 1 /\ \A i \in 1..Len(t) : t[i] = IF i <= Len(s) THEN s[i] ELSE x
  BY Appended
<1>2. Len(s) \in Nat /\ \A i \in 1..Len(s) : s[i] \in Int  OBVIOUS
<1> HIDE DEF t
<1>3. Increasing(t)
  <2> SUFFICES ASSUME NEW i \in 1..Len(t), NEW j \in 1..Len(t), i < j PROVE t[i] < t[j]
    BY DEF Increasing
  <2>1. i \in 1..Len(s) /\ t[i] = s[i]  BY <1>1, <1>2
  <2>2. CASE j <= Len(s)
    <3>1. j \in 1..Len(s) /\ t[j] = s[j]  BY <1>1, <1>2, <2>2
    <3> QED  BY <2>1, <3>1 DEF Increasing
  <2>3. CASE ~(j <= Len(s))
    <3>1. t[j] = x  BY <1>1, <2>3
    <3> QED  BY <2>1, <3>1 DEF Less
  <2> QED  BY <2>2, <2>3
<1>4. Below(t, x)
  <2> SUFFICES ASSUME NEW i \in 1..Len(t) PROVE t[i] <= x  BY DEF Below
  <2>1. CASE i <= Len(s)
    <3>1. i \in 1..Len(s) /\ t[i] = s[i]  BY <1>1, <1>2, <2>1
    <3>2. s[i] < x /\ s[i] \in Int  BY <1>2, <3>1 DEF Less
    <3> QED  BY <3>1, <3>2
  <2>2. CASE ~(i <= Len(s))
    <3>1. t[i] = x  BY <1>1, <2>2
    <3> QED  BY <3>1
  <2> QED  BY <2>1, <2>2
<1> QED  BY <1>3, <1>4 DEF t

LEMMA AppendBehind ==
  ASSUME NEW r \in Seq(Int), NEW s \in Seq(Int), NEW x \in Int, Before(r, s), Less(r, x)
  PROVE  Before(r, Append(s, x))
<1> DEFINE t == Append(s, x)
<1>1. Len(t) = Len(s) + 1 /\ \A i \in 1..Len(t) : t[i] = IF i <= Len(s) THEN s[i] ELSE x
  BY Appended
<1>2. Len(s) \in Nat  OBVIOUS
<1> HIDE DEF t
<1>3. Before(r, t)
  <2> SUFFICES ASSUME NEW i \in 1..Len(r), NEW j \in 1..Len(t) PROVE r[i] < t[j]  BY DEF Before
  <2>1. CASE j <= Len(s)
    <3>1. j \in 1..Len(s) /\ t[j] = s[j]  BY <1>1, <1>2, <2>1
    <3> QED  BY <3>1 DEF Before
  <2>2. CASE ~(j <= Len(s))
    <3>1. t[j] = x  BY <1>1, <2>2
    <3> QED  BY <3>1 DEF Less
  <2> QED  BY <2>1, <2>2
<1> QED  BY <1>3 DEF t

LEMMA AppendAhead ==
  ASSUME NEW s \in Seq(Int), NEW x \in Int, NEW r \in Seq(Int), Before(s, r),
         \A j \in 1..Len(r) : x < r[j]
  PROVE  Before(Append(s, x), r)
<1> DEFINE t == Append(s, x)
<1>1. Len(t) = Len(s) + 1 /\ \A i \in 1..Len(t) : t[i] = IF i <= Len(s) THEN s[i] ELSE x
  BY Appended
<1>2. Len(s) \in Nat  OBVIOUS
<1> HIDE DEF t
<1>3. Before(t, r)
  <2> SUFFICES ASSUME NEW i \in 1..Len(t), NEW j \in 1..Len(r) PROVE t[i] < r[j]  BY DEF Before
  <2>1. CASE i <= Len(s)
    <3>1. i \in 1..Len(s) /\ t[i] = s[i]  BY <1>1, <1>2, <2>1
    <3> QED  BY <3>1 DEF Before
  <2>2. CASE ~(i <= Len(s))
    <3>1. t[i] = x  BY <1>1, <2>2
    <3> QED  BY <3>1
  <2> QED  BY <2>1, <2>2
<1> QED  BY <1>3 DEF t

\* What is left of an increasing sequence is increasing, above its head, and no
\* further from its neighbours.
LEMMA TailOrder ==
  ASSUME NEW s \in Seq(Int), s # <<>>, Increasing(s)
  PROVE  /\ Head(s) \in Int /\ Tail(s) \in Seq(Int) /\ 1 \in 1..Len(s) /\ Head(s) = s[1]
         /\ Increasing(Tail(s))
         /\ \A i \in 1..Len(Tail(s)) : Head(s) < Tail(s)[i]
         /\ \A r \in Seq(Int) : (Before(r, s) => Before(r, Tail(s))) /\ (Before(s, r) => Before(Tail(s), r))
         /\ \A n \in Int : Below(s, n) => Below(Tail(s), n)
<1> DEFINE t == Tail(s)
<1>1. Head(s) = s[1] /\ Len(s) \in Nat /\ Len(s) > 0 /\ Len(t) = Len(s) - 1 /\ Head(s) \in Int
      /\ t \in Seq(Int)
  BY HeadAndTail
<1>2. \A i \in 1..Len(t) : t[i] = s[i + 1]  BY HeadAndTail
<1> HIDE DEF t
<1>3. \A i \in 1..Len(t) : i + 1 \in 1..Len(s) /\ 1 < i + 1 /\ t[i] = s[i + 1]  BY <1>1, <1>2
<1>4. 1 \in 1..Len(s)  BY <1>1
<1>5. Increasing(t)
  <2> SUFFICES ASSUME NEW i \in 1..Len(t), NEW j \in 1..Len(t), i < j PROVE t[i] < t[j]
    BY DEF Increasing
  <2>1. i + 1 < j + 1  BY <1>1
  <2> QED  BY <1>3, <2>1 DEF Increasing
<1>6. \A i \in 1..Len(t) : Head(s) < t[i]  BY <1>1, <1>3, <1>4 DEF Increasing
<1>7. \A r \in Seq(Int) : (Before(r, s) => Before(r, t)) /\ (Before(s, r) => Before(t, r))
  BY <1>3 DEF Before
<1>8. \A n \in Int : Below(s, n) => Below(t, n)  BY <1>3 DEF Below
<1> QED  BY <1>1, <1>4, <1>5, <1>6, <1>7, <1>8 DEF t

LEMMA BelowLess ==
  ASSUME NEW s \in Seq(Int), NEW n \in Int, Below(s, n)
  PROVE  Less(s, n + 1)
<1>1. \A i \in 1..Len(s) : s[i] \in Int /\ s[i] <= n  BY DEF Below
<1> QED  BY <1>1 DEF Less

LEMMA AreIntegers == InputTypeOK => pending \in Seq(Int) /\ flush \in Seq(Int) /\ got \in Seq(Int)
BY AttachmentAssumption DEF AttachmentAssumption, InputTypeOK

LEMMA InOrderKept ==
  ASSUME InputTypeOK, OneWay, InOrder, [AttachmentNext]_attVars
  PROVE  InOrder'
<1> USE DEF InOrder, Increasing, Before, Below
<1>1. CASE Type
  <2>1. typed \in Nat /\ direct = 0 /\ typed' = typed + 1 /\ flush' = flush /\ got' = got
    BY <1>1 DEF Type, InputTypeOK
  <2>2. CASE Takes
    <3>1. pending = <<>> /\ flush = <<>> /\ pending' = <<>>  BY <1>1, <2>2 DEF Type, Takes, OneWay
    <3>2. \A i \in 1..Len(got) : got[i] <= typed  BY <2>1
    <3> QED  BY <2>1, <3>1, <3>2, AreIntegers
  <2>3. CASE ~Takes
    <3>1. pending' = Append(pending, typed + 1) /\ direct' = 0  BY <1>1, <2>1, <2>3 DEF Type
    <3>2. typed + 1 \in Int /\ Less(got, typed + 1) /\ Less(flush, typed + 1) /\ Less(pending, typed + 1)
      <4>1. Below(got, typed) /\ Below(flush, typed) /\ Below(pending, typed)  BY <2>1
      <4> HIDE DEF Below
      <4> QED  BY <2>1, <4>1, BelowLess, AreIntegers
    <3>3. Increasing(pending') /\ Below(pending', typed')
      BY <2>1, <3>1, <3>2, AppendOrder, AreIntegers
    <3>4. Before(got, pending') /\ Before(flush, pending')
      BY <3>1, <3>2, AppendBehind, AreIntegers
    <3>5. Below(got, typed') /\ Below(flush, typed')  BY <2>1, AreIntegers, SMTT(30) DEF Below
    <3> HIDE DEF Increasing, Before, Below
    <3> QED  BY <2>1, <3>1, <3>3, <3>4, <3>5
  <2> QED  BY <2>2, <2>3
<1>2. CASE Write
  <2>1. /\ direct # 0 /\ direct' = 0 /\ pending = <<>> /\ flush = <<>> /\ typed \in Nat
        /\ pending' = <<>> /\ flush' = <<>> /\ typed' = typed
    BY <1>2 DEF Write, OneWay, InputTypeOK
  <2>2. CASE got' = got  BY <2>1, <2>2, AreIntegers
  <2>3. CASE got' = Append(got, typed)
    <3>1. typed \in Int /\ Less(got, typed)  BY <2>1, AreIntegers DEF Less, Below
    <3>2. Increasing(got') /\ Below(got', typed)  BY <2>3, <3>1, AppendOrder, AreIntegers
    <3> QED  BY <2>1, <3>2
  <2> QED  BY <1>2, <2>2, <2>3 DEF Write
<1>3. CASE CloseAttachment  BY <1>3 DEF CloseAttachment
<1>4. CASE TakePending  BY <1>4 DEF TakePending
<1>5. CASE FlushOne
  <2>1. /\ flush # <<>> /\ got' = Append(got, Head(flush)) /\ flush' = Tail(flush)
        /\ UNCHANGED <<pending, typed, direct>>
    BY <1>5 DEF FlushOne
  <2>2. direct = 0 /\ typed \in Int  BY <2>1 DEF OneWay, InputTypeOK
  <2>3. pending \in Seq(Int) /\ flush \in Seq(Int) /\ got \in Seq(Int)  BY AreIntegers
  <2> DEFINE h == Head(flush)  t == Tail(flush)
  <2>4. /\ h \in Int /\ t \in Seq(Int) /\ 1 \in 1..Len(flush) /\ h = flush[1]
        /\ Increasing(t) /\ \A i \in 1..Len(t) : h < t[i]
        /\ Before(got, t) /\ Before(t, pending) /\ Below(t, typed)
    <3> HIDE DEF Increasing, Before, Below
    <3> QED  BY <2>1, <2>2, <2>3, TailOrder
  <2> HIDE DEF h, t
  <2>5. Less(got, h) /\ h <= typed  BY <2>4 DEF Less
  <2>6. \A j \in 1..Len(pending) : h < pending[j]  BY <2>4
  <2>7. Increasing(got') /\ Below(got', h)
    BY <2>1, <2>3, <2>4, <2>5, AppendOrder DEF h
  <2>8. Below(got', typed)
    <3>1. got' \in Seq(Int)  BY <2>1, <2>3, <2>4 DEF h
    <3> QED  BY <2>2, <2>4, <2>5, <2>7, <3>1
  <2>9. Before(got', t)
    BY <2>1, <2>3, <2>4, AppendAhead DEF h
  <2>10. Before(got', pending)
    BY <2>1, <2>3, <2>4, <2>6, AppendAhead DEF h
  <2>11. flush' = t  BY <2>1 DEF t
  <2> HIDE DEF Increasing, Before, Below
  <2> QED  BY <2>1, <2>2, <2>4, <2>7, <2>8, <2>9, <2>10, <2>11
<1>6. CASE FlushFails  BY <1>6 DEF FlushFails
<1>7. CASE UNCHANGED inputVars  BY <1>7 DEF inputVars
<1> QED  BY <1>1, <1>2, <1>3, <1>4, <1>5, <1>6, <1>7, InputOrNot DEF InputStep, attVars, inputVars

-----------------------------------------------------------------------------
(* Nothing is lost before a first stream drops.                            *)

LEMMA FirstStreamOnly ==
  ASSUME LoopTypeOK, LoopSound, AttachmentNext, FirstStream'
  PROVE  FirstStream
<1>1. ~closed /\ ~exited
  BY DEF FirstStream, AttachmentNext, Loop, Type, Write, ResizeAttachment, CloseAttachment, Stop,
    Start, Probe, ProbeFails, Attach,
         Attached, AttachFails, Publish, Replay, TakePending, FlushOne, FlushFails, ReadEnds,
         Reattach, Exit, StreamEnds, PaneDies, PaneReturns, Shutdown, lifeVars
<1>2. CASE Attached
  <2>1. gen' = gen + 1 /\ gen' <= 1 /\ gen \in Nat  BY <1>2 DEF Attached, FirstStream, LoopTypeOK
  <2>2. gen = 0 /\ stream = "none"  BY <2>1 DEF LoopSound
  <2> QED  BY <1>1, <2>2 DEF FirstStream
<1>3. CASE CloseAttachment \/ Publish \/ ReadEnds \/ Exit \/ StreamEnds
  BY <1>1, <1>3 DEF FirstStream, CloseAttachment, Publish, ReadEnds, Exit, StreamEnds
<1>4. CASE UNCHANGED <<gen, stream>>  BY <1>1, <1>4 DEF FirstStream
<1>5. Attached \/ CloseAttachment \/ Publish \/ ReadEnds \/ Exit \/ StreamEnds \/ UNCHANGED <<gen, stream>>
  BY DEF AttachmentNext, Loop, Type, Write, ResizeAttachment, Stop, Start, Probe, ProbeFails, Attach,
    AttachFails, Replay,
         TakePending, FlushOne, FlushFails, Reattach, PaneDies, PaneReturns, Shutdown, ptyVars
<1> QED  BY <1>2, <1>3, <1>4, <1>5

LEMMA CompleteKept ==
  ASSUME InputTypeOK, LoopTypeOK, LoopSound, OneWay, FirstStream => Complete, [AttachmentNext]_attVars, FirstStream'
  PROVE  Complete'
<1>1. CASE UNCHANGED attVars
  BY <1>1 DEF attVars, inputVars, lifeVars, ptyVars, FirstStream, Complete
<1>2. CASE AttachmentNext
  <2>1. FirstStream /\ Complete  BY <1>2, FirstStreamOnly
  <2>2. /\ typed \in Nat /\ Len(got) \in Nat /\ Len(flush) \in Nat /\ Len(pending) \in Nat
        /\ got \in Seq(Int) /\ flush \in Seq(Int) /\ pending \in Seq(Int)
    BY AreIntegers DEF InputTypeOK
  <2>3. CASE Type
    <3>1. direct = 0 /\ typed' = typed + 1 /\ flush' = flush /\ got' = got  BY <2>3 DEF Type
    <3>2. CASE Takes
      <4>1. pending' = pending /\ direct' = gen /\ gen # 0
        BY <2>3, <3>2 DEF Type, Takes, LoopSound
      <4> QED  BY <2>1, <2>2, <3>1, <4>1 DEF Complete
    <3>3. CASE ~Takes
      <4>1. pending' = Append(pending, typed + 1) /\ direct' = 0  BY <2>3, <3>1, <3>3 DEF Type
      <4>2. /\ Len(pending') = Len(pending) + 1
            /\ \A i \in 1..Len(pending) + 1 :
                 pending'[i] = IF i <= Len(pending) THEN pending[i] ELSE typed + 1
        BY <2>2, <4>1, Appended
      <4>3. Len(got) + Len(flush) + Len(pending) = typed  BY <2>1, <3>1 DEF Complete
      <4>4. ASSUME NEW i \in 1..Len(pending') PROVE pending'[i] = Len(got') + Len(flush') + i
        <5>1. CASE i <= Len(pending)
          <6>1. i \in 1..Len(pending) /\ pending'[i] = pending[i]  BY <2>2, <4>2, <5>1
          <6> QED  BY <2>1, <3>1, <6>1 DEF Complete
        <5>2. CASE ~(i <= Len(pending))
          <6>1. i = Len(pending) + 1 /\ pending'[i] = typed + 1  BY <2>2, <4>2, <5>2
          <6> QED  BY <2>2, <3>1, <4>3, <6>1
        <5> QED  BY <5>1, <5>2
      <4>5. Len(got') + Len(flush') + Len(pending') = typed'
        <5>1. Len(got') = Len(got) /\ Len(flush') = Len(flush)  BY <3>1
        <5>2. Len(got) + Len(flush) + (Len(pending) + 1) = typed + 1  
          <6>1. typed \in Nat /\ Len(got) \in Nat /\ Len(flush) \in Nat /\ Len(pending) \in Nat  BY <2>2
          <6> DEFINE a == Len(got)  b == Len(flush)  c == Len(pending)
          <6>2. a \in Nat /\ b \in Nat /\ c \in Nat /\ typed \in Nat /\ a + b + c = typed  BY <4>3, <6>1
          <6> HIDE DEF a, b, c
          <6>3. a + b + (c + 1) = typed + 1  BY <6>2
          <6> QED  BY <6>3 DEF a, b, c
        <5> QED  BY <3>1, <4>2, <5>1, <5>2
      <4> QED  BY <2>1, <3>1, <4>1, <4>4, <4>5 DEF Complete
    <3> QED  BY <3>2, <3>3
  <2>4. CASE Write
    <3>1. direct # 0 /\ pending = <<>> /\ flush = <<>>  BY <2>4 DEF Write, OneWay
    <3>2. direct = gen /\ stream = "open"
      BY <2>1, <3>1 DEF OneWay, FirstStream, LoopSound, LoopTypeOK, InputTypeOK
    <3>3. /\ got' = Append(got, typed) /\ direct' = 0
          /\ pending' = pending /\ flush' = flush /\ typed' = typed
      BY <2>4, <3>2 DEF Write
    <3>4. /\ Len(got') = Len(got) + 1
          /\ \A i \in 1..Len(got) + 1 : got'[i] = IF i <= Len(got) THEN got[i] ELSE typed
      BY <2>2, <3>3, Appended
    <3>5. Len(got) + 1 = typed /\ Len(pending) = 0 /\ Len(flush) = 0
      BY <2>1, <2>2, <3>1 DEF Complete
    <3>6. ASSUME NEW i \in 1..Len(got') PROVE got'[i] = i
      <4>1. CASE i <= Len(got)
        <5>1. i \in 1..Len(got) /\ got'[i] = got[i]  BY <2>2, <3>4, <4>1
        <5> QED  BY <2>1, <5>1 DEF Complete
      <4>2. CASE ~(i <= Len(got))  BY <2>2, <3>4, <3>5, <4>2
      <4> QED  BY <4>1, <4>2
    <3> QED  BY <2>2, <3>1, <3>3, <3>4, <3>5, <3>6 DEF Complete
  <2>5. CASE CloseAttachment  BY <2>5 DEF CloseAttachment, FirstStream
  <2>6. CASE TakePending
    <3>1. flush = <<>> /\ flush' = pending /\ pending' = <<>> /\ UNCHANGED <<typed, direct, got>>
      BY <2>6 DEF TakePending
    <3> QED  BY <2>1, <2>2, <3>1 DEF Complete
  <2>7. CASE FlushOne
    <3>1. /\ flush # <<>> /\ got' = Append(got, Head(flush)) /\ flush' = Tail(flush)
          /\ UNCHANGED <<pending, typed, direct>>
      BY <2>7 DEF FlushOne
    <3>2. /\ Head(flush) = flush[1] /\ Len(flush) > 0 /\ Len(flush') = Len(flush) - 1
          /\ \A i \in 1..Len(flush') : flush'[i] = flush[i + 1]
      BY <2>2, <3>1, HeadAndTail
    <3>3. flush[1] = Len(got) + 1  BY <2>1, <2>2, <3>2 DEF Complete
    <3>4. /\ Len(got') = Len(got) + 1
          /\ \A i \in 1..Len(got) + 1 : got'[i] = IF i <= Len(got) THEN got[i] ELSE Len(got) + 1
      BY <2>2, <3>1, <3>2, <3>3, Appended
    <3>5. ASSUME NEW i \in 1..Len(got') PROVE got'[i] = i
      <4>1. CASE i <= Len(got)
        <5>1. i \in 1..Len(got) /\ got'[i] = got[i]  BY <2>2, <3>4, <4>1
        <5> QED  BY <2>1, <5>1 DEF Complete
      <4>2. CASE ~(i <= Len(got))  BY <2>2, <3>4, <4>2
      <4> QED  BY <4>1, <4>2
    <3>6. ASSUME NEW i \in 1..Len(flush') PROVE flush'[i] = Len(got') + i
      <4>1. i + 1 \in 1..Len(flush)  BY <2>2, <3>2
      <4>2. flush'[i] = flush[i + 1] /\ flush[i + 1] = Len(got) + (i + 1)
        BY <2>1, <3>2, <4>1 DEF Complete
      <4> QED  BY <2>2, <3>4, <4>2
    <3>7. Len(got') + Len(flush') = Len(got) + Len(flush)  BY <2>2, <3>2, <3>4
    <3>8. ASSUME NEW i \in 1..Len(pending') PROVE pending'[i] = Len(got') + Len(flush') + i
      BY <2>1, <3>1, <3>7 DEF Complete
    <3>9. Len(got') + Len(flush') + Len(pending') = IF direct' # 0 THEN typed' - 1 ELSE typed'
      BY <2>1, <3>1, <3>7 DEF Complete
    <3> QED  BY <3>5, <3>6, <3>8, <3>9 DEF Complete
  <2>8. CASE FlushFails
    <3>1. stream \notin {"open", "none"} /\ stream' = stream
      BY <2>8 DEF FlushFails, LoopSound, LoopAt, ptyVars
    <3> QED  BY <3>1 DEF FirstStream
  <2>9. CASE UNCHANGED inputVars  BY <2>1, <2>9 DEF inputVars, Complete
  <2> QED  BY <1>2, <2>3, <2>4, <2>5, <2>6, <2>7, <2>8, <2>9, InputOrNot DEF InputStep
<1> QED  BY <1>1, <1>2

\* Numbers in order, one sequence behind the other.
LEMMA Joined ==
  ASSUME NEW a \in Seq(Int), NEW b \in Seq(Int),
         \A i \in 1..Len(a) : a[i] = i, \A i \in 1..Len(b) : b[i] = Len(a) + i
  PROVE  /\ a \o b \in Seq(Int) /\ Len(a \o b) = Len(a) + Len(b)
         /\ \A i \in 1..Len(a \o b) : (a \o b)[i] = i
<1>1. a \o b \in Seq(Int) /\ Len(a \o b) = Len(a) + Len(b) /\ Len(a) \in Nat /\ Len(b) \in Nat  OBVIOUS
<1>2. ASSUME NEW i \in 1..Len(a \o b) PROVE (a \o b)[i] = i
  <2>1. CASE i <= Len(a)
    <3>1. i \in 1..Len(a) /\ (a \o b)[i] = a[i]  BY <1>1, <2>1
    <3> QED  BY <3>1
  <2>2. CASE ~(i <= Len(a))
    <3>1. i - Len(a) \in 1..Len(b) /\ (a \o b)[i] = b[i - Len(a)]  BY <1>1, <2>2
    <3> QED  BY <1>1, <3>1
  <2> QED  BY <2>1, <2>2
<1> QED  BY <1>1, <1>2

LEMMA CompleteIsAll ==
  ASSUME InputTypeOK, OneWay, Complete
  PROVE  got \o flush \o pending \o InFlight = [n \in 1..typed |-> n]
<1>1. got \in Seq(Int) /\ flush \in Seq(Int) /\ pending \in Seq(Int) /\ typed \in Nat
  BY AreIntegers DEF InputTypeOK
<1> DEFINE p == got \o flush  q == p \o pending  r == q \o InFlight
<1>2. p \in Seq(Int) /\ Len(p) = Len(got) + Len(flush) /\ \A i \in 1..Len(p) : p[i] = i
  BY <1>1, Joined DEF Complete
<1> HIDE DEF p
<1>3. q \in Seq(Int) /\ Len(q) = Len(p) + Len(pending) /\ \A i \in 1..Len(q) : q[i] = i
  BY <1>1, <1>2, Joined DEF Complete
<1>4. Len(q) = IF direct # 0 THEN typed - 1 ELSE typed  BY <1>2, <1>3 DEF Complete
<1> HIDE DEF q
<1>5. r \in Seq(Int) /\ Len(r) = typed /\ \A i \in 1..Len(r) : r[i] = i
  <2>1. CASE direct # 0
    <3>1. InFlight = <<typed>> /\ InFlight \in Seq(Int) /\ Len(InFlight) = 1 /\ InFlight[1] = typed
      BY <1>1, <2>1 DEF InFlight
    <3>2. \A i \in 1..Len(InFlight) : InFlight[i] = Len(q) + i  BY <1>1, <1>4, <2>1, <3>1
    <3>3. r \in Seq(Int) /\ Len(r) = Len(q) + Len(InFlight) /\ \A i \in 1..Len(r) : r[i] = i
      BY <1>3, <3>1, <3>2, Joined
    <3>4. Len(q) = typed - 1  BY <1>4, <2>1
    <3>5. Len(r) = typed
      <4> HIDE DEF r
      <4> QED  BY <1>1, <3>1, <3>3, <3>4
    <3> QED  BY <3>3, <3>5
  <2>2. CASE direct = 0
    <3>1. InFlight = <<>>  BY <2>2 DEF InFlight
    <3>2. r = q  BY <1>3, <3>1
    <3> QED  BY <1>3, <1>4, <2>2, <3>2
  <2> QED  BY <2>1, <2>2
<1> HIDE DEF r
<1>6. r = [n \in 1..typed |-> n]  BY <1>1, <1>5
<1> QED  BY <1>6 DEF r, q, p

-----------------------------------------------------------------------------
(* The theorems.                                                           *)

LEMMA AttachmentInitInv == AttachmentInit => AttachmentInv
<1> SUFFICES ASSUME AttachmentInit PROVE AttachmentInv  OBVIOUS
<1> USE AttachmentAssumption DEF AttachmentAssumption
<1>1. AttachmentTypeOK
  <2>1. InputTypeOK  BY DEF AttachmentInit, InputTypeOK
  <2>2. LoopTypeOK  BY DEF AttachmentInit, LoopTypeOK
  <2>3. SizeTypeOK  BY DEF AttachmentInit, SizeTypeOK
  <2>4. FlagTypeOK
    <3>1. faults \in 0..MaxFaults  BY DEF AttachmentInit
    <3>2. /\ closed = FALSE /\ exited = FALSE /\ opened = FALSE /\ pub = FALSE /\ ready = FALSE
          /\ alive = TRUE /\ cancelled = FALSE
      BY DEF AttachmentInit
    <3> QED  BY <3>1, <3>2 DEF FlagTypeOK
  <2> QED  BY <2>1, <2>2, <2>3, <2>4, TypeParts
<1>2. LoopSound  BY DEF AttachmentInit, LoopSound, LoopAt
<1>3. OneWay  BY DEF AttachmentInit, OneWay
<1>4. InOrder  BY DEF AttachmentInit, InOrder, Increasing, Before, Below
<1>5. Complete  BY DEF AttachmentInit, Complete
<1> QED  BY <1>1, <1>2, <1>3, <1>4, <1>5 DEF AttachmentInv

LEMMA AttachmentNextInv == AttachmentInv /\ [AttachmentNext]_attVars => AttachmentInv'
<1> SUFFICES ASSUME AttachmentInv, [AttachmentNext]_attVars PROVE AttachmentInv'  OBVIOUS
<1>1. /\ InputTypeOK /\ LoopTypeOK /\ SizeTypeOK /\ FlagTypeOK
      /\ LoopSound /\ OneWay /\ InOrder /\ (FirstStream => Complete)
  BY TypeParts DEF AttachmentInv
<1>2. InputTypeOK'  BY <1>1, InputTypeKept
<1>3. LoopTypeOK' /\ LoopSound'  BY <1>1, LoopKept
<1>4. SizeTypeOK' /\ FlagTypeOK'  BY <1>1, SizeTypeKept, FlagTypeKept
<1>5. OneWay'  BY <1>1, OneWayKept
<1>6. InOrder'  BY <1>1, InOrderKept
<1>7. FirstStream' => Complete'  BY <1>1, CompleteKept
<1> QED  BY <1>2, <1>3, <1>4, <1>5, <1>6, <1>7, TypePartsNext DEF AttachmentInv

\* The types hold, and with them the cap on tries in a row (defaultMaxReattach).
THEOREM AttachmentTypesHold == AttachmentSpec => []AttachmentTypeOK
<1>1. AttachmentInv => AttachmentTypeOK  BY DEF AttachmentInv
<1> QED  BY <1>1, AttachmentInitInv, AttachmentNextInv, PTL DEF AttachmentSpec

\* However typing, publishing, flushing, reattaching and closing interleave, no
\* chunk overtakes another, and none is lost before a first stream drops (write, setPTY).
THEOREM InputIsKept == AttachmentSpec => []InputKept
<1>1. AttachmentInv => InputKept
  <2> SUFFICES ASSUME AttachmentInv PROVE InputKept  OBVIOUS
  <2>1. InputTypeOK /\ OneWay /\ InOrder /\ (FirstStream => Complete)
    BY TypeParts DEF AttachmentInv
  <2>2. FirstStream => got \o flush \o pending \o InFlight = [n \in 1..typed |-> n]
    BY <2>1, CompleteIsAll
  <2>3. \A i, j \in DOMAIN got : i < j => got[i] < got[j]
    BY <2>1 DEF InOrder, Increasing, InputTypeOK
  <2> QED  BY <2>2, <2>3 DEF InputKept, FirstStream
<1> QED  BY <1>1, AttachmentInitInv, AttachmentNextInv, PTL DEF AttachmentSpec

\* Wherever a close, a shutdown or the pane's end meets the loop, it leaves no
\* stream open behind it, and tells its client once or was told to stop (close, markExited).
THEOREM LoopEndsClean == AttachmentSpec => []EndsClean
<1>1. AttachmentInv => EndsClean
  BY DEF AttachmentInv, LoopSound, EndsClean, LoopAt
<1> QED  BY <1>1, AttachmentInitInv, AttachmentNextInv, PTL DEF AttachmentSpec
=============================================================================
