------------------------------ MODULE ChangeFeed ------------------------------
(***************************************************************************)
(* What the event stream promises a client, whatever transactions, poller, *)
(* buffers and reconnections lie behind it: the changes arrive in the      *)
(* order in which they were committed, and none that is still in the log   *)
(* is passed over.                                                         *)
(***************************************************************************)
EXTENDS Naturals

CONSTANT Client

VARIABLES
  top,    \* the number of the last change committed
  log,    \* the changes in change_log, by number
  seen,   \* the last change a client received, 0 for none
  got     \* the changes it received since it last began at 0

feedVars == <<top, log, seen, got>>

FeedInit ==
  /\ top = 0 /\ log = {}
  /\ seen = [c \in Client |-> 0] /\ got = [c \in Client |-> {}]

\* Changes are committed under numbers above all numbers before.
Append ==
  /\ top' > top
  /\ log' = log \cup ((top + 1)..top')
  /\ UNCHANGED <<seen, got>>

\* The changes of a session that never ran leave the log.
Drop ==
  /\ log' \subseteq log
  /\ UNCHANGED <<top, seen, got>>

\* The next change: nothing that is still in the log lies between.
Receive(c) ==
  \E s \in (seen[c] + 1)..top :
    /\ \A t \in log : t > seen[c] => t >= s
    /\ seen' = [seen EXCEPT ![c] = s]
    /\ got' = [got EXCEPT ![c] = @ \cup {s}]
    /\ UNCHANGED <<top, log>>

\* A client that asks for everything.
FromStart(c) ==
  /\ seen' = [seen EXCEPT ![c] = 0]
  /\ got' = [got EXCEPT ![c] = {}]
  /\ UNCHANGED <<top, log>>

FeedNext == Append \/ Drop \/ \E c \in Client : Receive(c) \/ FromStart(c)

FeedSpec == FeedInit /\ [][FeedNext]_feedVars

-----------------------------------------------------------------------------

\* A client that has seen a change has received every change before it that is
\* still in the log.
NothingMissed == \A c \in Client : \A t \in log : t <= seen[c] => t \in got[c]
=============================================================================
