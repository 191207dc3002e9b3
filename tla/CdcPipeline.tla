----------------------------- MODULE CdcPipeline -----------------------------
(***************************************************************************)
(* Change-data capture: the triggers of a write transaction append to      *)
(* change_log, a poller tails the log by number and publishes each row to  *)
(* the subscribed streams, and a stream replays the log from the client's  *)
(* offset and then goes over to its live buffer (internal/cdc,             *)
(* httpd/events.go, the store's write lock and DeleteSession).             *)
(*                                                                         *)
(* Rows go through poller and buffers in the order of their numbers, so a  *)
(* batch, a page and a buffer are sets of which the least is next.         *)
(***************************************************************************)
EXTENDS Naturals, FiniteSets

CONSTANTS
  Client,       \* event streams of the user interface
  Writer,       \* goroutines that write to the store
  Session,      \* sessions the rows are about
  MaxSeq,       \* rows written
  MaxFaults,    \* transactions that fail, connections that break, restarts
  PollBatch,    \* DefaultBatch
  ReplayBatch,  \* eventsReplayBatch
  LiveBuffer,   \* eventsLiveBuffer
  MaxLuck       \* rows a stream may still take after its cancellation

\* A cancelled stream chooses at random between its end and its buffer; that it
\* empties a full buffer of 1024 by such choices is left out.
ASSUME CdcAssumption ==
  /\ MaxSeq \in Nat /\ MaxFaults \in Nat /\ Session # {}
  /\ PollBatch \in Nat \ {0} /\ ReplayBatch \in Nat \ {0}
  /\ LiveBuffer \in Nat /\ MaxLuck \in Nat /\ MaxLuck <= LiveBuffer

VARIABLES
  last,     \* durable: the last number given out (sqlite_sequence)
  log,      \* durable: the committed rows of change_log
  about,    \* the session of a row
  tx,       \* the uncommitted rows of a writer
  cursor,   \* the poller's lastSeq
  batch,    \* rows the poller has read and not published
  mode,     \* of a stream: "off", "replay" or "live"
  page,     \* rows it has read in its replay and not written
  more,     \* its last page was full
  sent,     \* its sentSeq
  live,     \* its live buffer
  luck,     \* MaxLuck + 1, once cancelled the rows it may still take
  seen,     \* the client's last event id
  got,      \* history: what it received since it last asked for everything
  faults    \* against MaxFaults

writeVars == <<last, log, about, tx>>
pollVars == <<cursor, batch>>
streamVars == <<mode, page, more, sent, live, luck>>
clientVars == <<seen, got>>
vars == <<writeVars, pollVars, streamVars, clientVars, faults>>

RowSeq == 1..MaxSeq
Least(some) == CHOOSE s \in some : \A t \in some : s <= t
Greatest(some) == CHOOSE s \in some : \A t \in some : t <= s

\* EventsAfter: the first rows of the log behind a number.
RowsAfter(s) == {t \in log : t > s}
FirstOf(rows, n) == {t \in rows : Cardinality({u \in rows : u < t}) < n}
EventsAfter(s, n) == FirstOf(RowsAfter(s), n)

Fault == faults < MaxFaults /\ faults' = faults + 1

-----------------------------------------------------------------------------
(* Writers.                                                                *)

\* Mutant: transactions overlap.
AloneNot(w) == TRUE

\* writeMu and the one connection of the writer.
Alone(w) == \A v \in Writer : v # w => tx[v] = {}

\* Mutant: the number behind the greatest in the table.
NextOfTable == IF log = {} THEN 1 ELSE Greatest(log) + 1

\* AUTOINCREMENT
NextNumber == last + 1

\* A trigger of the transaction appends a row.
Insert(w, x) ==
  /\ Alone(w)
  /\ NextNumber \in RowSeq
  /\ last' = NextNumber
  /\ about' = [about EXCEPT ![NextNumber] = x]
  /\ tx' = [tx EXCEPT ![w] = @ \cup {NextNumber}]
  /\ UNCHANGED <<log, pollVars, streamVars, clientVars, faults>>

Commit(w) ==
  /\ tx[w] # {}
  /\ log' = log \cup tx[w]
  /\ tx' = [tx EXCEPT ![w] = {}]
  /\ UNCHANGED <<last, about, pollVars, streamVars, clientVars, faults>>

\* The sequence is rolled back with the rows.
Rollback(w) ==
  /\ tx[w] # {}
  /\ Fault
  /\ last' = Least(tx[w]) - 1
  /\ tx' = [tx EXCEPT ![w] = {}]
  /\ UNCHANGED <<log, about, pollVars, streamVars, clientVars>>

\* DeleteSession clears the rows of a session that never ran, in one transaction.
DeleteSession(x) ==
  /\ \A w \in Writer : tx[w] = {}
  /\ \E t \in log : about[t] = x
  /\ log' = {t \in log : about[t] # x}
  /\ UNCHANGED <<last, about, tx, pollVars, streamVars, clientVars, faults>>

-----------------------------------------------------------------------------
(* The poller.                                                             *)

PollRead ==
  /\ batch = {} /\ RowsAfter(cursor) # {}
  /\ batch' = EventsAfter(cursor, PollBatch)
  /\ UNCHANGED <<writeVars, cursor, streamVars, clientVars, faults>>

Subscribed(c) == mode[c] # "off"
Cancelled(c) == luck[c] <= MaxLuck

Full(c) == Cardinality(live[c]) >= LiveBuffer

\* Mutant: the row is dropped and the stream goes on.
LuckKept == luck

\* A row that finds the buffer full is lost, and the stream is cancelled.
LuckAfter ==
  [c \in Client |-> IF Subscribed(c) /\ Full(c) /\ ~Cancelled(c) THEN MaxLuck ELSE luck[c]]

\* Publish hands a row to every subscriber at once, under the read lock.
Publish ==
  LET s == Least(batch) IN
  /\ batch # {}
  /\ live' = [c \in Client |-> IF Subscribed(c) /\ ~Full(c) THEN live[c] \cup {s} ELSE live[c]]
  /\ luck' = LuckAfter
  /\ cursor' = s /\ batch' = batch \ {s}
  /\ UNCHANGED <<writeVars, mode, page, more, sent, clientVars, faults>>

-----------------------------------------------------------------------------
(* A stream and its client.                                                *)

\* The client reconnects with its last event id, or asks for everything.  The
\* stream subscribes before it replays.
Connect(c) ==
  /\ mode[c] = "off"
  /\ \E after \in {0, seen[c]} :
       /\ sent' = [sent EXCEPT ![c] = after] /\ seen' = [seen EXCEPT ![c] = after]
       /\ got' = IF after = 0 THEN [got EXCEPT ![c] = {}] ELSE got
  /\ mode' = [mode EXCEPT ![c] = "replay"]
  /\ page' = [page EXCEPT ![c] = {}] /\ more' = [more EXCEPT ![c] = TRUE]
  /\ live' = [live EXCEPT ![c] = {}] /\ luck' = [luck EXCEPT ![c] = MaxLuck + 1]
  /\ UNCHANGED <<writeVars, pollVars, faults>>

\* Mutant: one page of the log and no more.
FullPageNot(rows) == FALSE

FullPage(rows) == Cardinality(rows) >= ReplayBatch

\* replay reads a page, with the stream's context.
ReplayRead(c) ==
  LET rows == EventsAfter(sent[c], ReplayBatch) IN
  /\ mode[c] = "replay" /\ page[c] = {} /\ more[c] /\ ~Cancelled(c)
  /\ page' = [page EXCEPT ![c] = rows]
  /\ more' = [more EXCEPT ![c] = FullPage(rows)]
  /\ UNCHANGED <<writeVars, pollVars, mode, sent, live, luck, clientVars, faults>>

\* writeSSEEvent: what was sent before is skipped.
Writes(c, s) ==
  /\ sent' = [sent EXCEPT ![c] = IF s > sent[c] THEN s ELSE @]
  /\ seen' = [seen EXCEPT ![c] = IF s > sent[c] THEN s ELSE @]
  /\ got' = [got EXCEPT ![c] = IF s > sent[c] THEN @ \cup {s} ELSE @]

ReplayWrite(c) ==
  LET s == Least(page[c]) IN
  /\ mode[c] = "replay" /\ page[c] # {}
  /\ Writes(c, s)
  /\ page' = [page EXCEPT ![c] = @ \ {s}]
  /\ UNCHANGED <<writeVars, pollVars, mode, more, live, luck, faults>>

ReplayDone(c) ==
  /\ mode[c] = "replay" /\ page[c] = {} /\ ~more[c]
  /\ mode' = [mode EXCEPT ![c] = "live"]
  /\ UNCHANGED <<writeVars, pollVars, page, more, sent, live, luck, clientVars, faults>>

\* The select picks a row of the buffer, though the stream may be cancelled.
LiveWrite(c) ==
  LET s == Least(live[c]) IN
  /\ mode[c] = "live" /\ live[c] # {} /\ luck[c] > 0
  /\ Writes(c, s)
  /\ live' = [live EXCEPT ![c] = @ \ {s}]
  /\ luck' = [luck EXCEPT ![c] = IF Cancelled(c) THEN @ - 1 ELSE @]
  /\ UNCHANGED <<writeVars, pollVars, mode, page, more, faults>>

Ends(c) ==
  /\ mode' = [mode EXCEPT ![c] = "off"]
  /\ page' = [page EXCEPT ![c] = {}] /\ more' = [more EXCEPT ![c] = FALSE]
  /\ live' = [live EXCEPT ![c] = {}] /\ luck' = [luck EXCEPT ![c] = MaxLuck + 1]
  /\ sent' = [sent EXCEPT ![c] = 0]

\* The stream notices its cancellation: in the select, or reading the log.
StreamStops(c) ==
  /\ Cancelled(c)
  /\ mode[c] = "live" \/ (mode[c] = "replay" /\ page[c] = {} /\ more[c])
  /\ Ends(c)
  /\ UNCHANGED <<writeVars, pollVars, clientVars, faults>>

\* The connection breaks, with whatever was written and not received.
Breaks(c) ==
  /\ mode[c] # "off"
  /\ Fault
  /\ Ends(c)
  /\ UNCHANGED <<writeVars, pollVars, clientVars>>

-----------------------------------------------------------------------------

\* The open transactions are rolled back, the streams end, and startCDC seeks to
\* the head of the log.
DaemonRestarts ==
  LET open == UNION {tx[w] : w \in Writer} IN
  /\ Fault
  /\ last' = IF open = {} THEN last ELSE Least(open) - 1
  /\ tx' = [w \in Writer |-> {}]
  /\ cursor' = IF log = {} THEN 0 ELSE Greatest(log)
  /\ batch' = {}
  /\ mode' = [c \in Client |-> "off"]
  /\ page' = [c \in Client |-> {}] /\ more' = [c \in Client |-> FALSE]
  /\ sent' = [c \in Client |-> 0]
  /\ live' = [c \in Client |-> {}] /\ luck' = [c \in Client |-> MaxLuck + 1]
  /\ UNCHANGED <<log, about, clientVars>>

Init ==
  /\ last = 0 /\ log = {} /\ about = [s \in RowSeq |-> CHOOSE x \in Session : TRUE] /\ tx = [w \in Writer |-> {}]
  /\ cursor = 0 /\ batch = {}
  /\ mode = [c \in Client |-> "off"]
  /\ page = [c \in Client |-> {}] /\ more = [c \in Client |-> FALSE]
  /\ sent = [c \in Client |-> 0]
  /\ live = [c \in Client |-> {}] /\ luck = [c \in Client |-> MaxLuck + 1]
  /\ seen = [c \in Client |-> 0] /\ got = [c \in Client |-> {}]
  /\ faults = 0

Stream(c) == ReplayRead(c) \/ ReplayWrite(c) \/ ReplayDone(c) \/ LiveWrite(c) \/ StreamStops(c)

Next ==
  \/ \E w \in Writer : Commit(w) \/ Rollback(w) \/ \E x \in Session : Insert(w, x)
  \/ \E x \in Session : DeleteSession(x)
  \/ PollRead \/ Publish
  \/ \E c \in Client : Connect(c) \/ Stream(c) \/ Breaks(c)
  \/ DaemonRestarts

Spec == Init /\ [][Next]_vars

\* The poller's ticker, the stream's loop and the browser's reconnection go on.
FairSpec ==
  /\ Spec
  /\ WF_vars(PollRead) /\ WF_vars(Publish)
  /\ \A c \in Client : WF_vars(Connect(c)) /\ WF_vars(Stream(c))

-----------------------------------------------------------------------------
(* Properties.                                                             *)

CdcTypeOK ==
  /\ last \in Nat /\ log \in SUBSET RowSeq /\ about \in [RowSeq -> Session]
  /\ tx \in [Writer -> SUBSET RowSeq]
  /\ cursor \in Nat /\ batch \in SUBSET RowSeq
  /\ mode \in [Client -> {"off", "replay", "live"}]
  /\ page \in [Client -> SUBSET RowSeq] /\ more \in [Client -> BOOLEAN]
  /\ sent \in [Client -> Nat] /\ live \in [Client -> SUBSET RowSeq]
  /\ \A c \in Client : Cardinality(live[c]) <= LiveBuffer
  /\ luck \in [Client -> 0..MaxLuck + 1]
  /\ seen \in [Client -> Nat] /\ got \in [Client -> SUBSET RowSeq]
  /\ faults \in 0..MaxFaults

\* What was committed: the numbers given out, without those of an open transaction.
Committed ==
  LET open == UNION {tx[w] : w \in Writer} IN IF open = {} THEN last ELSE Least(open) - 1

\* Transactions, poller, buffers and reconnections together deliver the changes
\* in order and without gaps, whatever breaks and restarts.
Feed == INSTANCE ChangeFeed WITH top <- Committed
ImplementsFeed == Feed!FeedSpec

\* A client with the last event id n has every change up to n that is still in
\* the log: its next reconnection, which asks for what follows n, misses none.
NothingMissed == Feed!NothingMissed

\* Every change reaches every client, or is deleted first, through overflowing
\* buffers and as many breaks and restarts as are allowed.
ChangeReaches ==
  \A c \in Client, s \in RowSeq : s \in log ~> s \in got[c] \/ s \notin log

-----------------------------------------------------------------------------
(* The strengthenings.                                                     *)

\* One transaction is open, with the last numbers; the log holds numbers below.
TxSound ==
  /\ Committed \in Nat /\ Committed <= last /\ last <= MaxSeq
  /\ \A s \in log : s <= Committed
  /\ \A w \in Writer : tx[w] # {} => tx[w] = (Committed + 1)..last /\ Alone(w)

\* What the poller has in hand follows its cursor without a gap.
PollSound ==
  /\ cursor <= Committed
  /\ \A s \in batch : cursor < s /\ s <= Committed
  /\ \A s \in batch : \A t \in log : cursor < t /\ t < s => t \in batch

\* So does what a stream has read of the log.
PageSound ==
  \A c \in Client :
    /\ seen[c] <= Committed
    /\ Subscribed(c) => sent[c] = seen[c]
    /\ mode[c] # "replay" => page[c] = {} /\ ~more[c]
    /\ mode[c] = "off" => live[c] = {} /\ luck[c] = MaxLuck + 1
    /\ \A s \in page[c] : sent[c] < s /\ s <= Committed
    /\ \A s \in page[c] : \A t \in log : sent[c] < t /\ t < s => t \in page[c]

\* After its last page a stream holds whatever the poller published behind what
\* it sent; once cancelled, at least up to as many rows as it may still take.
Holds(c, s) == \A t \in log : sent[c] < t /\ t <= s => t \in page[c] \cup live[c]

LiveSound ==
  \A c \in Client :
    /\ \A s \in live[c] : s <= cursor
    /\ Subscribed(c) /\ ~more[c] /\ ~Cancelled(c) => Holds(c, cursor)
    /\ Subscribed(c) /\ ~more[c] /\ Cancelled(c) =>
         \E head \in SUBSET live[c] :
           Cardinality(head) >= luck[c] /\ \A s \in head : Holds(c, s)
=============================================================================
