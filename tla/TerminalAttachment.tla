-------------------------- MODULE TerminalAttachment --------------------------
(***************************************************************************)
(* One client's hold on a pane: the loop that probes, attaches, publishes  *)
(* its stream, flushes early input, reads and attaches again, beside the   *)
(* connection's reader that types, resizes and closes                      *)
(* (internal/terminal/attachment.go).                                      *)
(*                                                                         *)
(* The lock a.mu makes each step atomic; calls of the stream are outside.  *)
(* TerminalMux models who opens, closes and resizes attachments.           *)
(***************************************************************************)
EXTENDS Integers, Sequences

CONSTANTS
  Size,         \* sizes, 0 for none reported
  MaxReattach,  \* defaultMaxReattach
  MaxInput,     \* chunks typed
  MaxResized,   \* times the arbiter sets the grid
  MaxFaults     \* failing probes and attaches, streams that drop, panes that return

ASSUME AttachmentAssumption ==
  /\ Size \subseteq Nat /\ 0 \in Size
  /\ MaxReattach \in Nat /\ MaxInput \in Nat /\ MaxResized \in Nat /\ MaxFaults \in Nat

VARIABLES
  pc,        \* where the loop is
  closed, exited, opened,
  size,      \* rows and cols, as last asked for
  pub,       \* a.pty is set
  ready,     \* inputReady
  pending,   \* pendingInput
  failures,
  gen,       \* streams so far; the last is the loop's
  stream,    \* its state: "none", "open", "ended" by the pane or "closed"
  grid,      \* the size it has
  asked,     \* the size a step has read and not yet applied
  flush,     \* early input taken out and not yet written
  typed,     \* chunks typed so far
  direct,    \* the stream the reader is about to write the last chunk to, 0 for none
  got,       \* what reached the pane
  exitsTold, \* exited frames sent
  alive,     \* the pane lives
  cancelled, \* the manager's context is cancelled
  resized, faults

inputVars == <<pending, flush, typed, direct, got>>
sizeVars == <<size, grid, asked, resized>>
lifeVars == <<closed, exited, opened, exitsTold>>
ptyVars == <<pub, ready, gen, stream>>
paneVars == <<alive, cancelled, faults>>
attVars == <<pc, failures, inputVars, sizeVars, lifeVars, ptyVars, paneVars>>

Fault == faults < MaxFaults /\ faults' = faults + 1

-----------------------------------------------------------------------------
(* The reader of the connection, and the arbiter of the grid.              *)

\* Mutant: any published stream is written to.
TakesNow == pub

\* A published stream that has had the early input is written to directly.
Takes == pub /\ ready

\* write, under the lock: what cannot be written yet is kept.
Type ==
  /\ ~closed /\ ~exited
  /\ direct = 0 /\ typed < MaxInput
  /\ typed' = typed + 1
  /\ IF Takes
     THEN direct' = gen /\ UNCHANGED pending
     ELSE pending' = Append(pending, typed') /\ UNCHANGED direct
  /\ UNCHANGED <<pc, failures, flush, got, sizeVars, lifeVars, ptyVars, paneVars>>

\* write, after the unlock: the error of a stream that has gone is dropped.
Write ==
  /\ direct # 0
  /\ got' = IF direct = gen /\ stream = "open" THEN Append(got, typed) ELSE got
  /\ direct' = 0
  /\ UNCHANGED <<pc, failures, pending, flush, typed, sizeVars, lifeVars, ptyVars, paneVars>>

\* resize records the grid, and a published stream takes it.
ResizeAttachment ==
  /\ resized < MaxResized /\ resized' = resized + 1
  /\ size' \in Size \ {0}
  /\ grid' = IF pub /\ stream = "open" THEN size' ELSE grid
  /\ UNCHANGED <<pc, failures, inputVars, asked, lifeVars, ptyVars, paneVars>>

\* close, by the reader or by Manager.Close: the loop stops, the published stream is closed, early input dropped.
CloseAttachment ==
  /\ ~closed /\ (direct = 0 \/ cancelled)
  /\ closed' = TRUE
  /\ stream' = IF pub THEN "closed" ELSE stream
  /\ pub' = FALSE /\ ready' = FALSE /\ pending' = <<>>
  /\ UNCHANGED <<pc, failures, flush, typed, direct, got, sizeVars, exited, opened, exitsTold, gen, paneVars>>

-----------------------------------------------------------------------------
(* The loop.                                                               *)

ShouldStop == cancelled \/ closed
LoopAt(where) == pc = where
LoopGoes(where) == pc' = where

\* One failure more: a pause and another round, or the end.
Fails(from) ==
  /\ failures' = from + 1
  /\ pc' = IF from + 1 > MaxReattach THEN "exit" ELSE "probe"

\* setRunCancel or shouldStop ends the loop without a word.
Stop ==
  /\ pc \in {"new", "probe", "attach"} /\ ShouldStop
  /\ LoopGoes("done")
  /\ UNCHANGED <<failures, inputVars, sizeVars, lifeVars, ptyVars, paneVars>>

Start ==
  /\ LoopAt("new") /\ ~closed
  /\ LoopGoes("probe")
  /\ UNCHANGED <<failures, inputVars, sizeVars, lifeVars, ptyVars, paneVars>>

\* Mutant: a dead pane is probed again.
GateNot == IF alive THEN "attach" ELSE "probe"

\* Every attach is gated on the pane being alive.
Gate == IF alive THEN "attach" ELSE "exit"

Probe ==
  /\ LoopAt("probe") /\ ~ShouldStop
  /\ LoopGoes(Gate)
  /\ UNCHANGED <<failures, inputVars, sizeVars, lifeVars, ptyVars, paneVars>>

ProbeFails ==
  /\ LoopAt("probe") /\ ~ShouldStop
  /\ Fault /\ Fails(failures)
  /\ UNCHANGED <<inputVars, sizeVars, lifeVars, ptyVars, alive, cancelled>>

\* The attach starts at the size of this moment.
Attach ==
  /\ LoopAt("attach") /\ ~ShouldStop
  /\ asked' = size
  /\ LoopGoes("attaching")
  /\ UNCHANGED <<failures, inputVars, size, grid, resized, lifeVars, ptyVars, paneVars>>

\* Attach returns; a stream that comes after the close is closed.
Attached ==
  /\ LoopAt("attaching") /\ alive
  /\ gen' = gen + 1 /\ grid' = asked
  /\ stream' = IF ShouldStop THEN "closed" ELSE "open"
  /\ LoopGoes(IF ShouldStop THEN "done" ELSE "publish")
  /\ UNCHANGED <<failures, inputVars, size, asked, resized, lifeVars, pub, ready, paneVars>>

\* Mutant: a failure is counted though the client has closed.
AttachFailsOn ==
  /\ LoopAt("attaching")
  /\ IF alive THEN Fault ELSE UNCHANGED faults
  /\ Fails(failures)
  /\ UNCHANGED <<inputVars, sizeVars, lifeVars, ptyVars, alive, cancelled>>

AttachFails ==
  /\ LoopAt("attaching")
  /\ IF alive /\ ~ShouldStop THEN Fault ELSE UNCHANGED faults
  /\ IF ShouldStop THEN LoopGoes("done") /\ UNCHANGED failures ELSE Fails(failures)
  /\ UNCHANGED <<inputVars, sizeVars, lifeVars, ptyVars, alive, cancelled>>

\* Mutant: a stream that comes after the close is published.
RefusesNot == FALSE

Refuses == closed \/ exited

\* setPTY, under the lock; a refused stream is closed.
Publish ==
  /\ LoopAt("publish")
  /\ IF Refuses
     THEN /\ LoopGoes("done") /\ stream' = "closed"
          /\ UNCHANGED <<pub, ready, asked>>
     ELSE /\ LoopGoes("replay") /\ pub' = TRUE /\ ready' = FALSE /\ asked' = size
          /\ UNCHANGED stream
  /\ UNCHANGED <<failures, inputVars, size, grid, resized, lifeVars, gen, paneVars>>

\* setPTY, after the unlock: the size is applied once more, and the client told.
Replay ==
  /\ LoopAt("replay")
  /\ grid' = IF asked # 0 /\ stream = "open" THEN asked ELSE grid
  /\ opened' = TRUE
  /\ LoopGoes("flush")
  /\ UNCHANGED <<failures, inputVars, size, asked, resized, closed, exited, exitsTold, ptyVars, paneVars>>

\* Early input is taken out until there is none, and then the stream is ready.
TakePending ==
  /\ LoopAt("flush") /\ flush = <<>>
  /\ flush' = pending /\ pending' = <<>>
  /\ ready' = (pending = <<>>)
  /\ LoopGoes(IF pending = <<>> THEN "read" ELSE "flush")
  /\ UNCHANGED <<failures, typed, direct, got, sizeVars, lifeVars, pub, gen, stream, paneVars>>

FlushOne ==
  /\ LoopAt("flush") /\ flush # <<>> /\ stream = "open"
  /\ got' = Append(got, Head(flush)) /\ flush' = Tail(flush)
  /\ UNCHANGED <<pc, failures, pending, typed, direct, sizeVars, lifeVars, ptyVars, paneVars>>

\* A chunk that cannot be written ends the attachment.
FlushFails ==
  /\ LoopAt("flush") /\ flush # <<>> /\ stream # "open"
  /\ flush' = <<>>
  /\ LoopGoes("exit")
  /\ UNCHANGED <<failures, pending, typed, direct, got, sizeVars, lifeVars, ptyVars, paneVars>>

\* copyOut returns: clearPTY and Close.
ReadEnds ==
  /\ LoopAt("read") /\ stream # "open"
  /\ pub' = FALSE /\ ready' = FALSE /\ stream' = "closed"
  /\ LoopGoes("dropped")
  /\ UNCHANGED <<failures, inputVars, sizeVars, lifeVars, gen, paneVars>>

\* A stream that lasted forgives the failures before it.
Reattach ==
  /\ LoopAt("dropped")
  /\ IF ShouldStop THEN LoopGoes("done") /\ UNCHANGED failures ELSE Fails(failures) \/ Fails(0)
  /\ UNCHANGED <<inputVars, sizeVars, lifeVars, ptyVars, paneVars>>

\* Mutant: the stream stays open.
BehindOpen == stream

Behind == IF stream = "none" THEN stream ELSE "closed"

\* markExited and onExit; a stream whose flush failed is closed behind them.
Exit ==
  /\ LoopAt("exit")
  /\ exited' = TRUE /\ exitsTold' = exitsTold + 1
  /\ stream' = Behind
  /\ LoopGoes("done")
  /\ UNCHANGED <<failures, inputVars, sizeVars, closed, opened, pub, ready, gen, paneVars>>

Loop ==
  \/ Stop \/ Start \/ Probe \/ ProbeFails \/ Attach \/ Attached \/ AttachFails \/ Publish \/ Replay
  \/ TakePending \/ FlushOne \/ FlushFails \/ ReadEnds \/ Reattach \/ Exit

-----------------------------------------------------------------------------

\* A stream ends with its pane, or drops.
StreamEnds ==
  /\ stream = "open"
  /\ IF alive THEN Fault ELSE UNCHANGED faults
  /\ stream' = "ended"
  /\ UNCHANGED <<pc, failures, inputVars, sizeVars, lifeVars, pub, ready, gen, alive, cancelled>>

PaneDies ==
  /\ alive /\ alive' = FALSE
  /\ UNCHANGED <<pc, failures, inputVars, sizeVars, lifeVars, ptyVars, cancelled, faults>>

\* The session is restored under the same handle.
PaneReturns ==
  /\ ~alive /\ alive' = TRUE
  /\ Fault
  /\ UNCHANGED <<pc, failures, inputVars, sizeVars, lifeVars, ptyVars, cancelled>>

\* The daemon shuts down; Close follows.
Shutdown ==
  /\ ~cancelled /\ cancelled' = TRUE
  /\ UNCHANGED <<pc, failures, inputVars, sizeVars, lifeVars, ptyVars, alive, faults>>

AttachmentInit ==
  /\ pc = "new" /\ failures = 0
  /\ pending = <<>> /\ flush = <<>> /\ typed = 0 /\ direct = 0 /\ got = <<>>
  /\ size \in Size /\ grid = 0 /\ asked = 0 /\ resized = 0
  /\ closed = FALSE /\ exited = FALSE /\ opened = FALSE /\ exitsTold = 0
  /\ pub = FALSE /\ ready = FALSE /\ gen = 0 /\ stream = "none"
  /\ alive = TRUE /\ cancelled = FALSE /\ faults = 0

AttachmentNext ==
  \/ Type \/ Write \/ ResizeAttachment \/ CloseAttachment
  \/ Loop
  \/ StreamEnds \/ PaneDies \/ PaneReturns \/ Shutdown

AttachmentSpec == AttachmentInit /\ [][AttachmentNext]_attVars

FairAttachmentSpec ==
  /\ AttachmentSpec
  /\ WF_attVars(Loop) /\ WF_attVars(Write)
  /\ WF_attVars(~alive /\ StreamEnds) /\ WF_attVars(cancelled /\ CloseAttachment)

-----------------------------------------------------------------------------
(* Properties.                                                             *)

\* The type invariant, with the cap on tries in a row.
AttachmentTypeOK ==
  /\ pc \in {"new", "probe", "attach", "attaching", "publish", "replay", "flush", "read", "dropped",
             "exit", "done"}
  /\ failures \in 0..MaxReattach + 1
  /\ pending \in Seq(1..MaxInput) /\ flush \in Seq(1..MaxInput) /\ got \in Seq(1..MaxInput)
  /\ typed \in 0..MaxInput /\ direct \in Nat
  /\ size \in Size /\ grid \in Size /\ asked \in Size /\ resized \in 0..MaxResized
  /\ closed \in BOOLEAN /\ exited \in BOOLEAN /\ opened \in BOOLEAN /\ exitsTold \in Nat
  /\ pub \in BOOLEAN /\ ready \in BOOLEAN /\ gen \in Nat
  /\ stream \in {"none", "open", "ended", "closed"}
  /\ alive \in BOOLEAN /\ cancelled \in BOOLEAN /\ faults \in 0..MaxFaults

\* What is on its way to the pane, in order.
InFlight == IF direct # 0 THEN <<typed>> ELSE <<>>

\* Nothing is lost before a first stream drops, and nothing ever overtakes.
InputKept ==
  /\ gen <= 1 /\ ~closed /\ ~exited /\ stream \in {"none", "open"} =>
       got \o flush \o pending \o InFlight = [n \in 1..typed |-> n]
  /\ \A i, j \in DOMAIN got : i < j => got[i] < got[j]

\* The loop leaves no stream behind, and ends without telling its client only if
\* the client closed or the manager stops; it tells it once.  That a client which
\* closed may be told as well is accepted here: see CloseIsSilent.
EndsClean ==
  LoopAt("done") =>
    /\ stream \in {"none", "closed"}
    /\ exitsTold = 1 \/ (exitsTold = 0 /\ ShouldStop)

\* A loop that was closed while it probed, attached, read or paused does not give up: its
\* client is not told that the pane has exited (close, shouldStop after every call).  The
\* flush of early input is left out: see NeverToldAfterClose.
CloseIsSilent ==
  [][closed /\ ~LoopAt("exit") /\ LoopAt("exit")' => LoopAt("flush")]_attVars

\* A loop that was told to stop does, wherever it is; so does one whose pane died,
\* unless the pane returns.
Ends == closed \/ cancelled ~> LoopAt("done")
DeadPaneEnds == ~alive ~> LoopAt("done") \/ alive

\* Once the loop reads, the stream has the size last asked for, whenever that was.
GridConverges == LoopAt("read") /\ stream = "open" /\ size # 0 => grid = size

-----------------------------------------------------------------------------
(* What a comment says and the code does not keep.                         *)

\* "onExit fires at most once, when the attach loop gives up (runtime dead, attach failure
\* cap) - never on close()" (attachment.go:42-44)
NeverToldAfterClose == [][closed => exitsTold' = exitsTold]_attVars

-----------------------------------------------------------------------------
(* The inductive strengthenings TerminalProofs uses.                       *)

\* Where the loop is says what its stream can be, and whether its client was told.
LoopSound ==
  /\ exitsTold = (IF exited THEN 1 ELSE 0) /\ (exited => LoopAt("done"))
  /\ LoopAt("done") /\ ~exited => ShouldStop
  /\ failures > MaxReattach => pc \in {"exit", "done"}
  /\ (gen = 0) <=> (stream = "none")
  /\ pub => stream # "none"
  /\ pc \in {"publish", "replay", "flush", "read"} => stream # "none"
  /\ pc \in {"new", "probe", "attach", "attaching", "dropped", "done"} => stream \in {"none", "closed"}

\* The two ways to the pane are never in use at once.
OneWay ==
  /\ direct <= gen
  /\ (pub /\ ready) \/ direct # 0 => pending = <<>> /\ flush = <<>>
  /\ direct # 0 => typed > 0

Increasing(s) == \A i, j \in 1..Len(s) : i < j => s[i] < s[j]
Before(s, t) == \A i \in 1..Len(s), j \in 1..Len(t) : s[i] < t[j]
Below(s, n) == \A i \in 1..Len(s) : s[i] <= n

\* What has arrived was typed before what is flushed, and that before what is kept.
InOrder ==
  /\ Increasing(got) /\ Increasing(flush) /\ Increasing(pending)
  /\ Before(got, flush) /\ Before(got, pending) /\ Before(flush, pending)
  /\ Below(flush, typed) /\ Below(pending, typed)
  /\ Below(got, IF direct # 0 THEN typed - 1 ELSE typed)

\* Before a first stream drops, every chunk is somewhere.
FirstStream == gen <= 1 /\ ~closed /\ ~exited /\ stream \in {"none", "open"}
Complete ==
  /\ Len(got) + Len(flush) + Len(pending) = IF direct # 0 THEN typed - 1 ELSE typed
  /\ \A i \in 1..Len(got) : got[i] = i
  /\ \A i \in 1..Len(flush) : flush[i] = Len(got) + i
  /\ \A i \in 1..Len(pending) : pending[i] = Len(got) + Len(flush) + i

AttachmentInv ==
  AttachmentTypeOK /\ LoopSound /\ OneWay /\ InOrder /\ (FirstStream => Complete)
=============================================================================
