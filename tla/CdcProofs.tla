------------------------------ MODULE CdcProofs ------------------------------
(***************************************************************************)
(* The change-data capture implements the feed, for any number of clients, *)
(* writers and rows, any batch, page and buffer sizes, and every break and *)
(* restart.                                                                *)
(***************************************************************************)
EXTENDS CdcPipeline, FiniteSetTheorems, NaturalsInduction, TLAPS

Inv == CdcTypeOK /\ TxSound /\ PollSound /\ PageSound /\ LiveSound

-----------------------------------------------------------------------------
(* Least and greatest rows, and the first rows of a set.                   *)

LEMMA LeastIn ==
  ASSUME NEW some, some \subseteq Nat, some # {}
  PROVE  Least(some) \in some /\ \A t \in some : Least(some) <= t
<1> DEFINE R == OpToRel(<, Nat)
<1>1. IsWellFoundedOn(R, Nat)  BY NatLessThanWellFounded, Zenon
<1>2. PICK x \in some : \A y \in some : <<y, x>> \notin R
  <2> HIDE DEF R
  <2> QED  BY <1>1, WFMin
<1>3. \A y \in some : ~ (y < x)  BY <1>2 DEF OpToRel
<1>4. \A y \in some : x <= y  BY <1>3
<1> QED  BY <1>4 DEF Least

LEMMA GreatestIn ==
  ASSUME NEW some, some \subseteq Nat, some # {}, NEW n \in Nat, \A t \in some : t <= n
  PROVE  Greatest(some) \in some /\ \A t \in some : t <= Greatest(some)
<1> DEFINE bounds == {b \in Nat : \A t \in some : t <= b}
<1>1. n \in bounds  OBVIOUS
<1>2. Least(bounds) \in bounds /\ \A b \in bounds : Least(bounds) <= b
  BY <1>1, LeastIn
<1> DEFINE m == Least(bounds)
<1>3. m \in Nat /\ (\A t \in some : t <= m) /\ \A b \in bounds : m <= b
  BY <1>2
<1>4. m \in some
  <2> SUFFICES ASSUME m \notin some PROVE FALSE  OBVIOUS
  <2> HIDE DEF m
  <2>1. \A t \in some : t < m  BY <1>3
  <2>2. PICK t \in some : TRUE  OBVIOUS
  <2>3. m > 0  BY <1>3, <2>1, <2>2
  <2>4. \A u \in some : u <= m - 1  BY <1>3, <2>1
  <2>5. m - 1 \in bounds  BY <1>3, <2>3, <2>4
  <2> QED  BY <1>3, <2>5
<1>5. \E x \in some : \A t \in some : t <= x
  <2> WITNESS m \in some
  <2> QED  BY <1>3
<1> QED  BY <1>5 DEF Greatest

LEMMA Finite ==
  ASSUME NEW some \in SUBSET RowSeq
  PROVE  IsFiniteSet(some) /\ Cardinality(some) \in Nat /\ some \subseteq Nat
<1>1. IsFiniteSet(RowSeq)  BY FS_Interval, CdcAssumption DEF CdcAssumption, RowSeq
<1>2. IsFiniteSet(some)
  <2> HIDE DEF RowSeq
  <2> QED  BY <1>1, FS_Subset
<1>3. some \subseteq Nat  BY DEF RowSeq
<1> QED  BY <1>2, <1>3, FS_CardinalityType

\* A batch begins with the first of the rows and leaves none out.
LEMMA FirstDense ==
  ASSUME NEW rows \in SUBSET RowSeq, NEW n \in Nat,
         NEW s \in FirstOf(rows, n), NEW t \in rows, t < s
  PROVE  t \in FirstOf(rows, n)
<1> DEFINE below(x) == {u \in rows : u < x}
<1>1. s \in rows /\ Cardinality(below(s)) < n  BY DEF FirstOf
<1>2. below(t) \in SUBSET below(s)
  <2>1. rows \subseteq Nat  BY Finite
  <2>2. s \in Nat /\ t \in Nat  BY <1>1, <2>1
  <2>3. \A u \in rows : u < t => u < s  BY <2>1, <2>2
  <2> QED  BY <2>3
<1>3. below(s) \in SUBSET RowSeq /\ below(t) \in SUBSET RowSeq  OBVIOUS
<1>4. Cardinality(below(t)) <= Cardinality(below(s))
  BY <1>2, <1>3, Finite, FS_Subset
<1>5. Cardinality(below(t)) \in Nat /\ Cardinality(below(s)) \in Nat
  BY <1>3, Finite
<1>6. Cardinality(below(t)) < n
  <2> HIDE DEF below
  <2> QED  BY <1>1, <1>4, <1>5
<1> QED  BY <1>6 DEF FirstOf

\* A page that is not full is the rest of the log.
LEMMA ShortPage ==
  ASSUME NEW rows \in SUBSET RowSeq, NEW n \in Nat,
         Cardinality(FirstOf(rows, n)) < n
  PROVE  FirstOf(rows, n) = rows
<1> DEFINE rest == rows \ FirstOf(rows, n)
<1>1. FirstOf(rows, n) \subseteq rows  BY DEF FirstOf
<1> SUFFICES ASSUME rest # {} PROVE FALSE  BY <1>1
<1>2. rest \subseteq Nat  BY Finite
<1>3. Least(rest) \in rest /\ \A t \in rest : Least(rest) <= t
  <2> HIDE DEF rest
  <2> QED  BY <1>2, LeastIn
<1> DEFINE t == Least(rest)
           below == {u \in rows : u < t}
<1>4. t \in rows /\ t \in Nat /\ \A u \in rest : t <= u  BY <1>2, <1>3
<1>5. below \in SUBSET FirstOf(rows, n)
  <2> HIDE DEF t
  <2>1. rows \subseteq Nat  BY Finite
  <2>2. \A u \in rows : u < t => u \notin rest  BY <1>4, <2>1
  <2> QED  BY <2>2
<1>6. FirstOf(rows, n) \in SUBSET RowSeq  BY <1>1
<1>7. Cardinality(below) <= Cardinality(FirstOf(rows, n))
  <2> HIDE DEF below
  <2> QED  BY <1>5, <1>6, Finite, FS_Subset
<1>8. Cardinality(below) \in Nat /\ Cardinality(FirstOf(rows, n)) \in Nat
  <2> HIDE DEF t
  <2> QED  BY <1>6, Finite
<1>9. Cardinality(below) < n
  <2> HIDE DEF below
  <2> QED  BY <1>7, <1>8
<1>10. t \in FirstOf(rows, n)  BY <1>4, <1>9 DEF FirstOf
<1> QED  BY <1>3, <1>10

-----------------------------------------------------------------------------
(* Types.                                                                  *)

LEMMA RowsOf ==
  ASSUME CdcTypeOK
  PROVE  \A c \in Client :
           /\ page[c] \in SUBSET RowSeq /\ live[c] \in SUBSET RowSeq
           /\ page[c] \subseteq Nat /\ live[c] \subseteq Nat
           /\ IsFiniteSet(live[c]) /\ Cardinality(live[c]) \in Nat
           /\ sent[c] \in Nat /\ seen[c] \in Nat /\ luck[c] \in 0..MaxLuck + 1
           /\ (page[c] # {} => Least(page[c]) \in page[c])
           /\ (live[c] # {} => Least(live[c]) \in live[c])
<1> TAKE c \in Client
<1>1. page[c] \in SUBSET RowSeq /\ live[c] \in SUBSET RowSeq  BY DEF CdcTypeOK
<1>2. page[c] \subseteq Nat /\ live[c] \subseteq Nat
      /\ IsFiniteSet(live[c]) /\ Cardinality(live[c]) \in Nat
  BY <1>1, Finite
<1>3. sent[c] \in Nat /\ seen[c] \in Nat /\ luck[c] \in 0..MaxLuck + 1  BY DEF CdcTypeOK
<1>4. /\ page[c] # {} => Least(page[c]) \in page[c]
      /\ live[c] # {} => Least(live[c]) \in live[c]
  BY <1>2, LeastIn
<1> QED  BY <1>1, <1>2, <1>3, <1>4

LEMMA Numbers ==
  ASSUME CdcTypeOK
  PROVE  /\ log \subseteq Nat /\ batch \subseteq Nat /\ cursor \in Nat
         /\ MaxLuck \in Nat /\ LiveBuffer \in Nat /\ MaxLuck <= LiveBuffer
         /\ \A c \in Client :
              /\ page[c] \subseteq Nat /\ live[c] \subseteq Nat /\ live[c] \in SUBSET RowSeq
              /\ Cardinality(live[c]) \in Nat
              /\ sent[c] \in Nat /\ seen[c] \in Nat /\ luck[c] \in Nat
<1>1. log \subseteq Nat /\ batch \subseteq Nat /\ cursor \in Nat  BY Finite DEF CdcTypeOK
<1>2. MaxLuck \in Nat /\ LiveBuffer \in Nat /\ MaxLuck <= LiveBuffer
  BY CdcAssumption DEF CdcAssumption
<1>3. \A c \in Client : luck[c] \in Nat
  <2>1. \A c \in Client : luck[c] \in 0..MaxLuck + 1  BY RowsOf
  <2>2. \A n \in 0..MaxLuck + 1 : n \in Nat  BY <1>2
  <2> QED  BY <2>1, <2>2
<1> QED  BY <1>1, <1>2, <1>3, RowsOf

LEMMA EmptyCount == Cardinality({}) = 0 /\ Cardinality({}) <= LiveBuffer
  BY FS_EmptySet, CdcAssumption DEF CdcAssumption

LEMMA RowNumber ==
  ASSUME NEW s \in RowSeq
  PROVE  s \in Nat /\ s >= 1 /\ s <= MaxSeq
  BY CdcAssumption DEF CdcAssumption, RowSeq

LEMMA EventsAreRows ==
  ASSUME CdcTypeOK, NEW s, NEW n
  PROVE  EventsAfter(s, n) \in SUBSET RowSeq
  BY DEF EventsAfter, FirstOf, RowsAfter, CdcTypeOK

LEMMA TypesWrite ==
  ASSUME CdcTypeOK, TxSound,
         NEW w \in Writer,
         Commit(w) \/ Rollback(w) \/ \E x \in Session : Insert(w, x)
  PROVE  CdcTypeOK'
<1>1. CASE Commit(w)
  BY <1>1 DEF Commit, CdcTypeOK, pollVars, streamVars, clientVars
<1>2. CASE Rollback(w)
  <2>1. tx[w] \subseteq Nat /\ tx[w] # {} /\ tx[w] \in SUBSET RowSeq
    BY <1>2, Finite DEF Rollback, CdcTypeOK
  <2>2. Least(tx[w]) \in tx[w]  BY <2>1, LeastIn
  <2>3. last' \in Nat
    <3>1. Least(tx[w]) \in Nat /\ Least(tx[w]) >= 1  BY <2>1, <2>2, RowNumber
    <3> QED  BY <1>2, <3>1 DEF Rollback
  <2>4. faults' \in 0..MaxFaults
    BY <1>2, CdcAssumption DEF Rollback, Fault, CdcTypeOK, CdcAssumption
  <2> QED  BY <1>2, <2>3, <2>4 DEF Rollback, CdcTypeOK, pollVars, streamVars, clientVars
<1>3. CASE \E x \in Session : Insert(w, x)
  <2>1. PICK x \in Session : Insert(w, x)  BY <1>3
  <2>2. last' \in Nat /\ last' \in RowSeq  BY <2>1, RowNumber DEF Insert, NextNumber
  <2>3. tx' \in [Writer -> SUBSET RowSeq] /\ about' \in [RowSeq -> Session]
    BY <2>1 DEF Insert, CdcTypeOK
  <2> QED  BY <2>1, <2>2, <2>3 DEF Insert, CdcTypeOK, pollVars, streamVars, clientVars
<1> QED  BY <1>1, <1>2, <1>3

LEMMA TypesPublish ==
  ASSUME CdcTypeOK, Publish
  PROVE  CdcTypeOK'
<1> DEFINE s == Least(batch)
<1>1. batch \subseteq Nat /\ batch # {}  BY Finite DEF Publish, CdcTypeOK
<1>2. s \in batch  BY <1>1, LeastIn
<1>3. s \in RowSeq /\ s \in Nat  BY <1>1, <1>2 DEF CdcTypeOK
<1>4. live' = [c \in Client |-> IF Subscribed(c) /\ ~Full(c) THEN live[c] \cup {s} ELSE live[c]]
  BY DEF Publish
<1> HIDE DEF s
<1>5. live' \in [Client -> SUBSET RowSeq]
  BY <1>3, <1>4 DEF CdcTypeOK
<1>6. \A c \in Client : Cardinality(live'[c]) <= LiveBuffer
  <2> TAKE c \in Client
  <2>1. CASE Subscribed(c) /\ ~Full(c)
    <3>1. IsFiniteSet(live[c]) /\ Cardinality(live[c]) \in Nat  BY RowsOf
    <3>2. Cardinality(live[c]) < LiveBuffer  BY <2>1, <3>1, CdcAssumption DEF Full, CdcAssumption
    <3>3. Cardinality(live[c] \cup {s}) <= LiveBuffer
      <4>1. Cardinality(live[c] \cup {s}) = IF s \in live[c] THEN Cardinality(live[c]) ELSE Cardinality(live[c]) + 1
        BY <3>1, FS_AddElement
      <4> QED  BY <3>1, <3>2, <4>1, CdcAssumption DEF CdcAssumption
    <3> QED  BY <1>4, <2>1, <3>3
  <2>2. CASE ~(Subscribed(c) /\ ~Full(c))
    BY <1>4, <2>2 DEF CdcTypeOK
  <2> QED  BY <2>1, <2>2
<1>7. luck' \in [Client -> 0..MaxLuck + 1]
  BY CdcAssumption DEF Publish, LuckAfter, CdcTypeOK, CdcAssumption
<1>8. cursor' \in Nat /\ batch' \in SUBSET RowSeq
  BY <1>3 DEF Publish, CdcTypeOK, s
<1> QED  BY <1>5, <1>6, <1>7, <1>8 DEF Publish, CdcTypeOK, writeVars, clientVars

LEMMA TypesWrites ==
  ASSUME CdcTypeOK, NEW c \in Client, NEW s \in RowSeq, Writes(c, s)
  PROVE  /\ sent' \in [Client -> Nat] /\ seen' \in [Client -> Nat]
         /\ got' \in [Client -> SUBSET RowSeq]
<1>1. s \in Nat  BY RowNumber
<1> QED  BY <1>1 DEF CdcTypeOK, Writes

LEMMA TypesEnds ==
  ASSUME CdcTypeOK, NEW c \in Client, Ends(c), UNCHANGED <<writeVars, pollVars, clientVars>>,
         faults' \in 0..MaxFaults
  PROVE  CdcTypeOK'
<1>1. \A d \in Client : Cardinality(live'[d]) <= LiveBuffer
  BY EmptyCount DEF CdcTypeOK, Ends
<1>2. MaxLuck + 1 \in 0..MaxLuck + 1  BY CdcAssumption DEF CdcAssumption
<1> QED  BY <1>1, <1>2 DEF CdcTypeOK, Ends, writeVars, pollVars, clientVars

LEMMA TypesClient ==
  ASSUME CdcTypeOK, NEW c \in Client, Connect(c) \/ Stream(c) \/ Breaks(c)
  PROVE  CdcTypeOK'
<1>1. CASE Connect(c)
  <2>1. \A d \in Client : Cardinality(live'[d]) <= LiveBuffer
    BY <1>1, EmptyCount DEF CdcTypeOK, Connect
  <2>2. MaxLuck + 1 \in 0..MaxLuck + 1  BY CdcAssumption DEF CdcAssumption
  <2>3. sent' \in [Client -> Nat] /\ seen' \in [Client -> Nat] /\ got' \in [Client -> SUBSET RowSeq]
    BY <1>1 DEF CdcTypeOK, Connect
  <2> QED  BY <1>1, <2>1, <2>2, <2>3 DEF CdcTypeOK, Connect, writeVars, pollVars
<1>2. CASE ReplayRead(c)
  <2>1. EventsAfter(sent[c], ReplayBatch) \in SUBSET RowSeq  BY EventsAreRows
  <2>2. more' \in [Client -> BOOLEAN]
    BY <1>2 DEF ReplayRead, CdcTypeOK, FullPage
  <2> QED  BY <1>2, <2>1, <2>2 DEF ReplayRead, CdcTypeOK, writeVars, pollVars, clientVars
<1>3. CASE ReplayWrite(c)
  <2>1. Least(page[c]) \in RowSeq  BY <1>3, RowsOf DEF ReplayWrite
  <2>2. Writes(c, Least(page[c]))  BY <1>3 DEF ReplayWrite
  <2>3. page' \in [Client -> SUBSET RowSeq]  BY <1>3 DEF ReplayWrite, CdcTypeOK
  <2> QED  BY <1>3, <2>1, <2>2, <2>3, TypesWrites DEF ReplayWrite, CdcTypeOK, writeVars, pollVars
<1>4. CASE ReplayDone(c)
  BY <1>4 DEF ReplayDone, CdcTypeOK, writeVars, pollVars, clientVars
<1>5. CASE LiveWrite(c)
  <2> DEFINE s == Least(live[c])
  <2>1. s \in live[c] /\ s \in RowSeq  BY <1>5, RowsOf DEF LiveWrite
  <2>2. Writes(c, s)  BY <1>5 DEF LiveWrite
  <2>3. live' = [live EXCEPT ![c] = @ \ {s}]  BY <1>5 DEF LiveWrite
  <2>4. luck' = [luck EXCEPT ![c] = IF Cancelled(c) THEN @ - 1 ELSE @] /\ luck[c] > 0
    BY <1>5 DEF LiveWrite
  <2> HIDE DEF s
  <2>5. live' \in [Client -> SUBSET RowSeq]  BY <2>3 DEF CdcTypeOK
  <2>6. \A d \in Client : Cardinality(live'[d]) <= LiveBuffer
    <3> TAKE d \in Client
    <3>1. IsFiniteSet(live[d]) /\ Cardinality(live[d]) \in Nat /\ Cardinality(live[d]) <= LiveBuffer
      BY RowsOf DEF CdcTypeOK
    <3>2. CASE d = c
      <4>1. Cardinality(live[d] \ {s}) = IF s \in live[d] THEN Cardinality(live[d]) - 1 ELSE Cardinality(live[d])
        BY <3>1, FS_RemoveElement
      <4>2. live'[d] = live[d] \ {s}  BY <2>3, <3>2 DEF CdcTypeOK
      <4> QED  BY <3>1, <4>1, <4>2, CdcAssumption DEF CdcAssumption
    <3>3. CASE d # c
      BY <2>3, <3>1, <3>3 DEF CdcTypeOK
    <3> QED  BY <3>2, <3>3
  <2>7. luck' \in [Client -> 0..MaxLuck + 1]
    BY <2>4, CdcAssumption DEF CdcTypeOK, CdcAssumption
  <2> QED  BY <1>5, <2>1, <2>2, <2>5, <2>6, <2>7, TypesWrites DEF LiveWrite, CdcTypeOK, writeVars, pollVars
<1>6. CASE StreamStops(c)
  BY <1>6, TypesEnds DEF StreamStops, CdcTypeOK
<1>7. CASE Breaks(c)
  <2>1. faults' \in 0..MaxFaults  BY <1>7, CdcAssumption DEF Breaks, Fault, CdcTypeOK, CdcAssumption
  <2> QED  BY <1>7, <2>1, TypesEnds DEF Breaks
<1> QED  BY <1>1, <1>2, <1>3, <1>4, <1>5, <1>6, <1>7 DEF Stream

-----------------------------------------------------------------------------
(* Transactions.                                                           *)

CommittedOf(l, f) ==
  LET open == UNION {f[w] : w \in Writer} IN IF open = {} THEN l ELSE Least(open) - 1

LEMMA CommittedIs ==
  ASSUME NEW b \in Nat, NEW l \in Nat, b <= l, NEW f,
         UNION {f[w] : w \in Writer} = (b + 1)..l
  PROVE  CommittedOf(l, f) = b
<1> DEFINE open == UNION {f[w] : w \in Writer}
<1>1. CASE b = l
  <2>1. open = {}  BY <1>1
  <2> QED  BY <1>1, <2>1 DEF CommittedOf
<1>2. CASE b < l
  <2>1. b + 1 \in open /\ open \subseteq Nat /\ \A t \in open : b + 1 <= t
    BY <1>2
  <2>2. Least(open) \in open /\ \A t \in open : Least(open) <= t
    <3> HIDE DEF open
    <3> QED  BY <2>1, LeastIn
  <2>3. Least(open) = b + 1
    <3> HIDE DEF open
    <3>1. Least(open) \in Nat  BY <2>1, <2>2
    <3>2. Least(open) <= b + 1  BY <2>1, <2>2
    <3>3. b + 1 <= Least(open)  BY <2>1, <2>2
    <3> QED  BY <3>1, <3>2, <3>3
  <2>4. open # {}  BY <2>1
  <2> QED  BY <2>3, <2>4 DEF CommittedOf
<1> QED  BY <1>1, <1>2

\* The open transaction has the numbers behind the committed ones.
LEMMA OpenTx ==
  ASSUME CdcTypeOK, TxSound
  PROVE  UNION {tx[w] : w \in Writer} = (Committed + 1)..last
<1>1. CASE \A w \in Writer : tx[w] = {}
  <2>1. UNION {tx[w] : w \in Writer} = {}  BY <1>1
  <2>2. Committed = last  BY <2>1 DEF Committed
  <2>3. (Committed + 1)..last = {}  BY <2>2 DEF TxSound
  <2> QED  BY <2>1, <2>3
<1>2. CASE \E w \in Writer : tx[w] # {}
  <2>1. PICK w \in Writer : tx[w] # {}  BY <1>2
  <2>2. tx[w] = (Committed + 1)..last /\ \A v \in Writer : v # w => tx[v] = {}
    BY <2>1 DEF TxSound, Alone
  <2>3. UNION {tx[v] : v \in Writer} = tx[w]  BY <2>2
  <2> QED  BY <2>2, <2>3
<1> QED  BY <1>1, <1>2

\* What a step may do to the log: nothing, lose rows, or gain all of a transaction.
Kept == Committed' = Committed /\ log' \subseteq log
Grown == Committed' > Committed /\ log' = log \cup ((Committed + 1)..Committed')

LEMMA TxUnmoved ==
  ASSUME TxSound, UNCHANGED <<last, tx>>, log' \subseteq log
  PROVE  TxSound' /\ Kept
<1>1. Committed' = Committed  BY DEF Committed
<1>2. \A w \in Writer : Alone(w)' = Alone(w)  BY DEF Alone
<1> QED  BY <1>1, <1>2 DEF TxSound, Kept

\* Nothing is open any more, and the sequence went back.
LEMMA TxUndone ==
  ASSUME CdcTypeOK, TxSound, UNCHANGED log, last' = Committed,
         \A w \in Writer : tx'[w] = {}
  PROVE  TxSound' /\ Kept
<1>1. UNION {tx'[w] : w \in Writer} = {}  BY Zenon
<1>2. Committed' = last'  BY <1>1 DEF Committed
<1>3. last' \in Nat /\ last' <= last /\ last <= MaxSeq /\ last \in Nat  BY DEF TxSound, CdcTypeOK
<1>4. last' <= MaxSeq  BY <1>3, CdcAssumption DEF CdcAssumption
<1> QED  BY <1>2, <1>3, <1>4 DEF TxSound, Kept

LEMMA TxInsert ==
  ASSUME CdcTypeOK, TxSound, NEW w \in Writer, NEW x \in Session, Insert(w, x)
  PROVE  TxSound' /\ Kept
<1>1. /\ last' = last + 1 /\ last + 1 \in RowSeq /\ log' = log
      /\ tx' = [tx EXCEPT ![w] = @ \cup {last + 1}] /\ Alone(w)
  BY DEF Insert, NextNumber
<1>2. Committed \in Nat /\ Committed <= last /\ last \in Nat /\ last + 1 <= MaxSeq
  BY <1>1, RowNumber DEF TxSound, CdcTypeOK
<1>3. UNION {tx[v] : v \in Writer} = (Committed + 1)..last  BY OpenTx
<1>4. \A v \in Writer : tx'[v] = IF v = w THEN tx[w] \cup {last + 1} ELSE {}
  BY <1>1 DEF CdcTypeOK, Alone
<1>5. tx[w] = (Committed + 1)..last
  <2>1. UNION {tx[v] : v \in Writer} = tx[w]  BY <1>1 DEF Alone
  <2> QED  BY <1>3, <2>1
<1>6. (Committed + 1)..last' = tx[w] \cup {last + 1}
  BY <1>1, <1>2, <1>5
<1>7. tx'[w] = (Committed + 1)..last'  BY <1>4, <1>6
<1>8. UNION {tx'[v] : v \in Writer} = (Committed + 1)..last'
  BY <1>4, <1>7
<1>9. CommittedOf(last', tx') = Committed
  <2>1. Committed \in Nat /\ last' \in Nat /\ Committed <= last'  BY <1>1, <1>2
  <2> QED  BY <1>8, <2>1, CommittedIs, Zenon
<1>10. Committed' = Committed  BY <1>9 DEF Committed, CommittedOf
<1>11. \A v \in Writer : tx'[v] # {} => v = w  BY <1>4
<1>12. Alone(w)'  BY <1>4 DEF Alone
<1>13. Committed <= last' /\ last' <= MaxSeq  BY <1>1, <1>2
<1>14. \A v \in Writer : tx'[v] # {} => tx'[v] = (Committed' + 1)..last' /\ Alone(v)'
  BY <1>7, <1>10, <1>11, <1>12
<1> QED  BY <1>1, <1>2, <1>10, <1>13, <1>14 DEF TxSound, Kept

LEMMA TxCommit ==
  ASSUME CdcTypeOK, TxSound, NEW w \in Writer, Commit(w)
  PROVE  TxSound' /\ Grown
<1>1. /\ tx[w] # {} /\ log' = log \cup tx[w] /\ tx' = [tx EXCEPT ![w] = {}] /\ last' = last
  BY DEF Commit
<1>2. tx[w] = (Committed + 1)..last /\ \A v \in Writer : v # w => tx[v] = {}
  BY <1>1 DEF TxSound, Alone
<1>3. \A v \in Writer : tx'[v] = {}  BY <1>1, <1>2 DEF CdcTypeOK
<1>4. UNION {tx'[v] : v \in Writer} = {}  BY <1>3
<1>5. Committed' = last  BY <1>1, <1>4 DEF Committed
<1>6. Committed \in Nat /\ last \in Nat /\ Committed < last
  BY <1>1, <1>2 DEF TxSound, CdcTypeOK
<1>7. \A s \in log' : s <= last
  <2>1. \A s \in tx[w] : s <= last  BY <1>2
  <2>2. log \subseteq Nat  BY Finite DEF CdcTypeOK
  <2>3. \A s \in log : s <= Committed  BY DEF TxSound
  <2>4. \A s \in log : s <= last  BY <1>6, <2>2, <2>3
  <2> QED  BY <1>1, <2>1, <2>4
<1> QED  BY <1>1, <1>2, <1>3, <1>5, <1>6, <1>7 DEF TxSound, Grown

LEMMA TxStep ==
  ASSUME CdcTypeOK, TxSound, Next
  PROVE  TxSound' /\ (Kept \/ Grown)
<1>1. CASE \E w \in Writer : Commit(w)
  BY <1>1, TxCommit
<1>2. CASE \E w \in Writer, x \in Session : Insert(w, x)
  BY <1>2, TxInsert
<1>3. CASE \E w \in Writer : Rollback(w)
  <2>1. PICK w \in Writer : Rollback(w)  BY <1>3
  <2>2. tx[w] # {} /\ UNCHANGED log /\ last' = Least(tx[w]) - 1 /\ tx' = [tx EXCEPT ![w] = {}]
    BY <2>1 DEF Rollback
  <2>3. \A v \in Writer : v # w => tx[v] = {}  BY <2>2 DEF TxSound, Alone
  <2>4. UNION {tx[v] : v \in Writer} = tx[w]  BY <2>3
  <2>5. Committed = Least(tx[w]) - 1  BY <2>2, <2>4 DEF Committed
  <2>6. \A v \in Writer : tx'[v] = {}  BY <2>2, <2>3 DEF CdcTypeOK
  <2> QED  BY <2>2, <2>5, <2>6, TxUndone
<1>4. CASE \E x \in Session : DeleteSession(x)
  BY <1>4, TxUnmoved DEF DeleteSession
<1>5. CASE PollRead \/ Publish
  BY <1>5, TxUnmoved DEF PollRead, Publish, writeVars
<1>6. CASE \E c \in Client : Connect(c) \/ Stream(c) \/ Breaks(c)
  BY <1>6, TxUnmoved DEF Connect, Stream, ReplayRead, ReplayWrite, ReplayDone, LiveWrite,
     StreamStops, Breaks, writeVars
<1>7. CASE DaemonRestarts
  <2>1. last' = Committed  BY <1>7 DEF DaemonRestarts, Committed
  <2>2. UNCHANGED log /\ \A w \in Writer : tx'[w] = {}  BY <1>7 DEF DaemonRestarts
  <2> QED  BY <2>1, <2>2, TxUndone
<1> QED  BY <1>1, <1>2, <1>3, <1>4, <1>5, <1>6, <1>7 DEF Next

\* After a step the log holds what it held, or what is committed now.
LEMMA LogAfter ==
  ASSUME CdcTypeOK, TxSound, Kept \/ Grown, Committed' \in Nat
  PROVE  /\ Committed \in Nat /\ Committed <= Committed'
         /\ log' \subseteq Nat
         /\ \A t \in log' : t \in log \/ t > Committed
<1>1. log \subseteq Nat  BY Finite DEF CdcTypeOK
<1>2. Committed \in Nat  BY DEF TxSound
<1>3. CASE Kept  BY <1>1, <1>2, <1>3 DEF Kept
<1>4. CASE Grown  BY <1>1, <1>2, <1>4 DEF Grown
<1> QED  BY <1>3, <1>4

-----------------------------------------------------------------------------
(* The poller.                                                             *)

LEMMA PollStep ==
  ASSUME CdcTypeOK, TxSound, PollSound, Next
  PROVE  PollSound'
<1>1. TxSound' /\ (Kept \/ Grown)  BY TxStep
<1>2. Committed \in Nat /\ Committed' \in Nat /\ Committed <= Committed' /\ log' \subseteq Nat
      /\ \A t \in log' : t \in log \/ t > Committed
  BY <1>1, LogAfter DEF TxSound
<1>3. /\ batch \subseteq Nat /\ log \subseteq Nat /\ cursor \in Nat
      /\ batch # {} => Least(batch) \in batch /\ \A t \in batch : Least(batch) <= t
  BY Finite, LeastIn DEF CdcTypeOK
<1>4. CASE UNCHANGED pollVars
  <2>1. cursor <= Committed'  BY <1>2, <1>3 DEF PollSound
  <2>2. \A s \in batch : cursor < s /\ s <= Committed'  BY <1>2, <1>3 DEF PollSound
  <2>3. \A s \in batch : \A t \in log' : cursor < t /\ t < s => t \in batch
    <3> TAKE s \in batch
    <3> TAKE t \in log'
    <3> HAVE cursor < t /\ t < s
    <3>1. s <= Committed /\ s \in Nat  BY <1>3 DEF PollSound
    <3>2. t \in log  BY <1>2, <3>1
    <3> QED  BY <3>2 DEF PollSound
  <2> QED  BY <1>4, <2>1, <2>2, <2>3 DEF PollSound, pollVars
<1>5. CASE PollRead
  <2>1. batch' = EventsAfter(cursor, PollBatch) /\ cursor' = cursor /\ log' = log /\ Committed' = Committed
    BY <1>5 DEF PollRead, writeVars, Committed
  <2>2. RowsAfter(cursor) \in SUBSET RowSeq /\ PollBatch \in Nat
    BY CdcAssumption DEF RowsAfter, CdcTypeOK, CdcAssumption
  <2>3. \A s \in batch' : s \in log /\ s > cursor
    BY <2>1 DEF EventsAfter, FirstOf, RowsAfter
  <2>4. \A s \in batch' : \A t \in log : cursor < t /\ t < s => t \in batch'
    <3> TAKE s \in batch'
    <3> TAKE t \in log
    <3> HAVE cursor < t /\ t < s
    <3>1. t \in RowsAfter(cursor)  BY DEF RowsAfter
    <3> QED  BY <2>1, <2>2, <3>1, FirstDense DEF EventsAfter
  <2>5. \A s \in batch' : s <= Committed  BY <2>3 DEF TxSound
  <2> QED  BY <1>3, <2>1, <2>3, <2>4, <2>5 DEF PollSound
<1>6. CASE Publish
  <2> DEFINE s == Least(batch)
  <2>1. cursor' = s /\ batch' = batch \ {s} /\ log' = log /\ Committed' = Committed
    BY <1>6 DEF Publish, writeVars, Committed
  <2>2. s \in batch /\ s \in Nat /\ \A t \in batch : s <= t  BY <1>3, <1>6 DEF Publish
  <2> HIDE DEF s
  <2>3. cursor < s /\ s <= Committed  BY <2>2 DEF PollSound
  <2>4. \A t \in batch' : s < t /\ t <= Committed  BY <1>3, <2>1, <2>2 DEF PollSound
  <2>5. \A u \in batch' : \A t \in log : s < t /\ t < u => t \in batch'
    <3> TAKE u \in batch'
    <3> TAKE t \in log
    <3> HAVE s < t /\ t < u
    <3>1. cursor < t  BY <1>3, <2>2, <2>3
    <3>2. t \in batch  BY <2>1, <3>1 DEF PollSound
    <3>3. t # s  BY <2>2
    <3> QED  BY <2>1, <3>2, <3>3
  <2> QED  BY <2>1, <2>3, <2>4, <2>5 DEF PollSound
<1>7. CASE DaemonRestarts
  <2>1. batch' = {} /\ log' = log /\ cursor' = IF log = {} THEN 0 ELSE Greatest(log)
    BY <1>7 DEF DaemonRestarts
  <2>2. cursor' <= Committed'
    <3>1. CASE log = {}  BY <1>2, <2>1, <3>1
    <3>2. CASE log # {}
      <4>1. Greatest(log) \in log  BY <1>2, <1>3, <3>2, GreatestIn DEF TxSound
      <4>2. Greatest(log) <= Committed  BY <4>1 DEF TxSound
      <4> QED  BY <1>2, <1>3, <2>1, <3>2, <4>1, <4>2
    <3> QED  BY <3>1, <3>2
  <2> QED  BY <2>1, <2>2 DEF PollSound
<1> QED
  BY <1>4, <1>5, <1>6, <1>7 DEF Next, Commit, Rollback, Insert, DeleteSession, Connect, Stream,
     ReplayRead, ReplayWrite, ReplayDone, LiveWrite, StreamStops, Breaks

-----------------------------------------------------------------------------
(* The streams.                                                            *)

ClientSound(c) ==
  /\ seen[c] <= Committed
  /\ Subscribed(c) => sent[c] = seen[c]
  /\ mode[c] # "replay" => page[c] = {} /\ ~more[c]
  /\ mode[c] = "off" => live[c] = {} /\ luck[c] = MaxLuck + 1
  /\ \A s \in page[c] : sent[c] < s /\ s <= Committed
  /\ \A s \in page[c] : \A t \in log : sent[c] < t /\ t < s => t \in page[c]
  /\ \A s \in live[c] : s <= cursor
  /\ Subscribed(c) /\ ~more[c] /\ ~Cancelled(c) => Holds(c, cursor)
  /\ Subscribed(c) /\ ~more[c] /\ Cancelled(c) =>
       \E head \in SUBSET live[c] :
         Cardinality(head) >= luck[c] /\ \A s \in head : Holds(c, s)

LEMMA ClientParts == PageSound /\ LiveSound <=> \A c \in Client : ClientSound(c)
  BY DEF PageSound, LiveSound, ClientSound

\* What the others do leaves a client sound.
LEMMA ClientFrame ==
  ASSUME CdcTypeOK, TxSound, PollSound, Kept \/ Grown, TxSound', NEW c \in Client, ClientSound(c),
         cursor' = cursor,
         mode'[c] = mode[c], page'[c] = page[c], more'[c] = more[c], sent'[c] = sent[c],
         live'[c] = live[c], luck'[c] = luck[c], seen'[c] = seen[c]
  PROVE  ClientSound(c)'
<1>1. Committed \in Nat /\ Committed' \in Nat /\ Committed <= Committed' /\ log' \subseteq Nat
      /\ \A t \in log' : t \in log \/ t > Committed
  BY LogAfter DEF TxSound
<1>2. /\ page[c] \subseteq Nat /\ live[c] \subseteq Nat /\ sent[c] \in Nat /\ seen[c] \in Nat
      /\ cursor \in Nat /\ cursor <= Committed
  BY RowsOf DEF CdcTypeOK, PollSound
<1>3. seen[c] <= Committed'  BY <1>1, <1>2 DEF ClientSound
<1>4. \A s \in page[c] : sent[c] < s /\ s <= Committed'
  BY <1>1, <1>2 DEF ClientSound
<1>5. \A s \in page[c] : \A t \in log' : sent[c] < t /\ t < s => t \in page[c]
  <2> TAKE s \in page[c]
  <2> TAKE t \in log'
  <2> HAVE sent[c] < t /\ t < s
  <2>1. s <= Committed /\ s \in Nat  BY <1>2 DEF ClientSound
  <2>2. t \in log  BY <1>1, <2>1
  <2> QED  BY <2>2 DEF ClientSound
<1>6. \A s \in Nat : s <= cursor /\ Holds(c, s) => Holds(c, s)'
  <2> TAKE s \in Nat
  <2> HAVE s <= cursor /\ Holds(c, s)
  <2>1. \A t \in log' : t <= s => t \in log  BY <1>1, <1>2
  <2> QED  BY <2>1 DEF Holds
<1>7. Subscribed(c)' = Subscribed(c) /\ Cancelled(c)' = Cancelled(c)
  BY DEF Subscribed, Cancelled
<1>8. Subscribed(c) /\ ~more[c] /\ ~Cancelled(c) => Holds(c, cursor)'
  <2> HAVE Subscribed(c) /\ ~more[c] /\ ~Cancelled(c)
  <2>1. \A t \in log' : t <= cursor => t \in log  BY <1>1, <1>2
  <2>2. Holds(c, cursor)  BY DEF ClientSound
  <2> QED  BY <2>1, <2>2 DEF Holds
<1>9. Subscribed(c) /\ ~more[c] /\ Cancelled(c) =>
        \E head \in SUBSET live[c] :
          Cardinality(head) >= luck[c] /\ \A s \in head : Holds(c, s)'
  <2> HAVE Subscribed(c) /\ ~more[c] /\ Cancelled(c)
  <2>1. PICK head \in SUBSET live[c] :
          Cardinality(head) >= luck[c] /\ \A s \in head : Holds(c, s)
    BY DEF ClientSound
  <2>2. \A s \in head : s \in Nat /\ s <= cursor  BY <1>2 DEF ClientSound
  <2>3. \A s \in head : Holds(c, s)'  BY <1>6, <2>1, <2>2
  <2> QED  BY <2>1, <2>3
<1> QED  BY <1>3, <1>4, <1>5, <1>7, <1>8, <1>9 DEF ClientSound

LEMMA SoundOff ==
  ASSUME CdcTypeOK, TxSound, NEW c \in Client, seen'[c] <= Committed',
         mode'[c] = "off", page'[c] = {}, ~more'[c], live'[c] = {}, luck'[c] = MaxLuck + 1
  PROVE  ClientSound(c)'
  BY DEF ClientSound, Subscribed

LEMMA SoundConnect ==
  ASSUME CdcTypeOK, TxSound, NEW c \in Client, ClientSound(c), Connect(c)
  PROVE  ClientSound(c)'
<1>1. /\ UNCHANGED writeVars /\ mode'[c] = "replay" /\ page'[c] = {} /\ more'[c]
      /\ live'[c] = {} /\ sent'[c] = seen'[c] /\ seen'[c] \in {0, seen[c]}
  BY DEF Connect, CdcTypeOK
<1>2. Committed' = Committed  BY <1>1 DEF Committed, writeVars
<1>3. seen'[c] <= Committed'  BY <1>1, <1>2 DEF ClientSound, TxSound
<1> QED  BY <1>1, <1>3 DEF ClientSound

LEMMA SoundRead ==
  ASSUME CdcTypeOK, TxSound, PollSound, NEW c \in Client, ClientSound(c), ReplayRead(c)
  PROVE  ClientSound(c)'
<1> DEFINE rows == EventsAfter(sent[c], ReplayBatch)
<1>1. /\ UNCHANGED <<writeVars, pollVars, mode, sent, live, luck, seen>>
      /\ mode[c] = "replay" /\ page'[c] = rows /\ more'[c] = FullPage(rows) /\ ~Cancelled(c)
  BY DEF ReplayRead, CdcTypeOK, clientVars
<1>2. Committed' = Committed /\ log' = log /\ cursor' = cursor
  BY <1>1 DEF Committed, writeVars, pollVars
<1>3. RowsAfter(sent[c]) \in SUBSET RowSeq /\ ReplayBatch \in Nat
  BY CdcAssumption DEF RowsAfter, CdcTypeOK, CdcAssumption
<1>4. rows \in SUBSET RowSeq  BY EventsAreRows
<1>5. \A s \in rows : s \in log /\ sent[c] < s /\ s <= Committed
  <2>1. \A s \in rows : s \in log /\ s > sent[c]  BY DEF EventsAfter, FirstOf, RowsAfter
  <2>2. sent[c] \in Nat /\ log \subseteq Nat  BY RowsOf, Finite DEF CdcTypeOK
  <2> HIDE DEF rows
  <2> QED  BY <2>1, <2>2 DEF TxSound
<1>6. \A s \in rows : \A t \in log : sent[c] < t /\ t < s => t \in rows
  <2> TAKE s \in rows
  <2> TAKE t \in log
  <2> HAVE sent[c] < t /\ t < s
  <2>1. t \in RowsAfter(sent[c])
    <3>1. sent[c] \in Nat /\ t \in Nat  BY RowsOf, Finite DEF CdcTypeOK
    <3> QED  BY <3>1 DEF RowsAfter
  <2> QED  BY <1>3, <2>1, FirstDense DEF EventsAfter
<1>7. ~more'[c] => \A t \in log : sent[c] < t => t \in rows
  <2> HAVE ~more'[c]
  <2>1. Cardinality(rows) < ReplayBatch
    <3>1. Cardinality(rows) \in Nat
      <4> HIDE DEF rows
      <4> QED  BY <1>4, Finite
    <3>2. ~(Cardinality(rows) >= ReplayBatch)  BY <1>1 DEF FullPage
    <3> HIDE DEF rows
    <3> QED  BY <1>3, <3>1, <3>2
  <2>2. rows = RowsAfter(sent[c])  BY <1>3, <2>1, ShortPage DEF EventsAfter
  <2> TAKE t \in log
  <2> HAVE sent[c] < t
  <2>3. sent[c] \in Nat /\ t \in Nat  BY RowsOf, Finite DEF CdcTypeOK
  <2> QED  BY <2>2, <2>3 DEF RowsAfter
<1> HIDE DEF rows
<1>8. ~more'[c] => Holds(c, cursor)'
  BY <1>1, <1>2, <1>7 DEF Holds
<1>9. ~Cancelled(c)' /\ (Subscribed(c)' <=> Subscribed(c))  BY <1>1 DEF Cancelled, Subscribed
<1>10. mode'[c] = "replay"  BY <1>1
<1> QED  BY <1>1, <1>2, <1>5, <1>6, <1>8, <1>9, <1>10 DEF ClientSound

\* Sending a row of the page or the buffer: what is behind it is still held.
LEMMA WritesHold ==
  ASSUME CdcTypeOK, NEW c \in Client, NEW s \in RowSeq, Writes(c, s), sent[c] = seen[c]
  PROVE  /\ sent'[c] = seen'[c] /\ sent'[c] \in Nat
         /\ sent'[c] = (IF s > sent[c] THEN s ELSE sent[c])
         /\ sent'[c] >= sent[c] /\ sent'[c] >= s
<1>1. s \in Nat /\ sent[c] \in Nat  BY RowNumber, RowsOf
<1> QED  BY <1>1 DEF Writes, CdcTypeOK

LEMMA SoundWrite ==
  ASSUME CdcTypeOK, TxSound, NEW c \in Client, ClientSound(c), ReplayWrite(c)
  PROVE  ClientSound(c)'
<1> DEFINE s == Least(page[c])
<1>1. /\ UNCHANGED <<writeVars, pollVars, mode, more, live, luck>>
      /\ mode[c] = "replay" /\ page[c] # {} /\ Writes(c, s) /\ page'[c] = page[c] \ {s}
  BY DEF ReplayWrite, CdcTypeOK
<1>2. Committed' = Committed /\ log' = log /\ cursor' = cursor
  BY <1>1 DEF Committed, writeVars, pollVars
<1>3. /\ page[c] \subseteq Nat /\ live[c] \subseteq Nat /\ log \subseteq Nat
      /\ sent[c] \in Nat /\ page[c] \in SUBSET RowSeq
  BY RowsOf, Finite DEF CdcTypeOK
<1>4. s \in page[c] /\ s \in RowSeq /\ s \in Nat /\ \A t \in page[c] : s <= t
  BY <1>1, <1>3, LeastIn
<1> HIDE DEF s
<1>5. Subscribed(c) /\ sent[c] = seen[c]  BY <1>1 DEF Subscribed, ClientSound
<1>6. sent[c] < s /\ s <= Committed  BY <1>4 DEF ClientSound
<1>7. sent'[c] = s /\ seen'[c] = s  BY <1>1, <1>4, <1>5, <1>6, WritesHold
<1>8. \A t \in page'[c] : s < t /\ t <= Committed  BY <1>1, <1>3, <1>4 DEF ClientSound
<1>9. \A u \in page'[c] : \A t \in log : s < t /\ t < u => t \in page'[c]
  <2> TAKE u \in page'[c]
  <2> TAKE t \in log
  <2> HAVE s < t /\ t < u
  <2>1. u \in page[c] /\ sent[c] < t /\ t # s  BY <1>1, <1>3, <1>4, <1>6
  <2>2. t \in page[c]  BY <2>1 DEF ClientSound
  <2> QED  BY <1>1, <2>1, <2>2
<1>10. \A u : Holds(c, u) => Holds(c, u)'
  <2> TAKE u
  <2> HAVE Holds(c, u)
  <2> SUFFICES ASSUME NEW t \in log, s < t, t <= u PROVE t \in page'[c] \cup live[c]
    BY <1>1, <1>2, <1>7 DEF Holds
  <2>1. sent[c] < t /\ t # s  BY <1>3, <1>4, <1>6
  <2>2. t \in page[c] \cup live[c]  BY <2>1 DEF Holds
  <2> QED  BY <1>1, <2>1, <2>2
<1>11. Subscribed(c)' = Subscribed(c) /\ Cancelled(c)' = Cancelled(c)
  BY <1>1 DEF Subscribed, Cancelled
<1>12. Subscribed(c) /\ ~more[c] /\ ~Cancelled(c) => Holds(c, cursor)'
  <2>1. Holds(c, cursor)' <=> \A t \in log : sent'[c] < t /\ t <= cursor => t \in page'[c] \cup live'[c]
    BY <1>2 DEF Holds
  <2> HAVE Subscribed(c) /\ ~more[c] /\ ~Cancelled(c)
  <2>2. Holds(c, cursor)  BY DEF ClientSound
  <2> SUFFICES ASSUME NEW t \in log, s < t, t <= cursor PROVE t \in page'[c] \cup live[c]
    BY <1>1, <1>7, <2>1
  <2>3. sent[c] < t /\ t # s  BY <1>3, <1>4, <1>6
  <2>4. t \in page[c] \cup live[c]  BY <2>2, <2>3 DEF Holds
  <2> QED  BY <1>1, <2>3, <2>4
<1>13. Subscribed(c) /\ ~more[c] /\ Cancelled(c) =>
         \E head \in SUBSET live[c] :
           Cardinality(head) >= luck[c] /\ \A u \in head : Holds(c, u)'
  <2> HAVE Subscribed(c) /\ ~more[c] /\ Cancelled(c)
  <2>1. PICK head \in SUBSET live[c] :
          Cardinality(head) >= luck[c] /\ \A u \in head : Holds(c, u)
    BY DEF ClientSound
  <2> QED  BY <1>10, <2>1
<1>14. \A t \in live[c] : t <= cursor  BY DEF ClientSound
<1> QED
  BY <1>1, <1>2, <1>6, <1>7, <1>8, <1>9, <1>11, <1>12, <1>13, <1>14 DEF ClientSound

LEMMA SoundDone ==
  ASSUME CdcTypeOK, TxSound, NEW c \in Client, ClientSound(c), ReplayDone(c)
  PROVE  ClientSound(c)'
<1>1. /\ UNCHANGED <<writeVars, pollVars, page, more, sent, live, luck, seen>>
      /\ mode[c] = "replay" /\ page[c] = {} /\ ~more[c] /\ mode'[c] = "live"
  BY DEF ReplayDone, CdcTypeOK, clientVars
<1>2. Committed' = Committed /\ log' = log /\ cursor' = cursor
  BY <1>1 DEF Committed, writeVars, pollVars
<1>3. Subscribed(c)' /\ Subscribed(c) /\ Cancelled(c)' = Cancelled(c)
  BY <1>1 DEF Subscribed, Cancelled
<1>4. \A u : Holds(c, u) <=> Holds(c, u)'  BY <1>1, <1>2 DEF Holds
<1>5. Holds(c, cursor) <=> Holds(c, cursor)'  BY <1>1, <1>2 DEF Holds
<1> QED  BY <1>1, <1>2, <1>3, <1>4, <1>5 DEF ClientSound

\* The next row of the buffer follows what was sent without a gap.
LEMMA LiveNext ==
  ASSUME CdcTypeOK, PollSound, NEW c \in Client, ClientSound(c), LiveWrite(c)
  PROVE  \A t \in log : sent[c] < t => Least(live[c]) <= t
<1> DEFINE s == Least(live[c])
<1>1. mode[c] = "live" /\ live[c] # {} /\ luck[c] > 0 /\ page[c] = {} /\ ~more[c] /\ Subscribed(c)
  BY DEF LiveWrite, ClientSound, Subscribed
<1>2. live[c] \subseteq Nat /\ log \subseteq Nat /\ luck[c] \in Nat
  BY Numbers
<1>3. s \in live[c] /\ s \in Nat /\ \A u \in live[c] : s <= u
  BY <1>1, <1>2, LeastIn
<1> HIDE DEF s
<1>4. \E u \in live[c] : Holds(c, u)
  <2>1. CASE ~Cancelled(c)
    <3>1. Holds(c, cursor) /\ s <= cursor  BY <1>1, <1>3, <2>1 DEF ClientSound
    <3>2. Holds(c, s)
      <4>1. cursor \in Nat  BY DEF CdcTypeOK
      <4>2. s \in Nat /\ log \subseteq Nat /\ s <= cursor  BY <1>2, <1>3, <3>1
      <4>3. \A t \in log : t <= s => t <= cursor  BY <4>1, <4>2
      <4> QED  BY <3>1, <4>3 DEF Holds
    <3> QED  BY <1>3, <3>2
  <2>2. CASE Cancelled(c)
    <3>1. PICK head \in SUBSET live[c] :
            Cardinality(head) >= luck[c] /\ \A u \in head : Holds(c, u)
      BY <1>1, <2>2 DEF ClientSound
    <3>2. head # {}
      <4>1. Cardinality({}) = 0  BY FS_EmptySet
      <4> SUFFICES ASSUME head = {} PROVE FALSE  OBVIOUS
      <4>2. Cardinality(head) = 0  BY <4>1
      <4>3. 0 >= luck[c]  BY <3>1, <4>2
      <4> QED  BY <1>1, <1>2, <4>3
    <3> QED  BY <3>1, <3>2
  <2> QED  BY <2>1, <2>2
<1>5. PICK u \in live[c] : Holds(c, u)  BY <1>4
<1>6. \A t \in log : sent[c] < t => s <= t
  <2> TAKE t \in log
  <2> HAVE sent[c] < t
  <2> SUFFICES ASSUME t < s PROVE FALSE  BY <1>2, <1>3
  <2>1. t <= u  BY <1>2, <1>3, <1>5
  <2>2. t \in live[c]  BY <1>1, <1>5, <2>1 DEF Holds
  <2> QED  BY <1>2, <1>3, <2>2
<1> QED  BY <1>6 DEF s

LEMMA SoundLive ==
  ASSUME CdcTypeOK, TxSound, PollSound, NEW c \in Client, ClientSound(c), LiveWrite(c)
  PROVE  ClientSound(c)'
<1> DEFINE s == Least(live[c])
<1>1. /\ UNCHANGED <<writeVars, pollVars, mode, page, more>>
      /\ mode[c] = "live" /\ live[c] # {} /\ luck[c] > 0 /\ Writes(c, s)
      /\ live'[c] = live[c] \ {s}
      /\ luck'[c] = IF Cancelled(c) THEN luck[c] - 1 ELSE luck[c]
  BY DEF LiveWrite, CdcTypeOK
<1>2. Committed' = Committed /\ log' = log /\ cursor' = cursor
  BY <1>1 DEF Committed, writeVars, pollVars
<1>3. /\ live[c] \subseteq Nat /\ log \subseteq Nat /\ sent[c] \in Nat
      /\ luck[c] \in Nat /\ live[c] \in SUBSET RowSeq /\ MaxLuck \in Nat
      /\ cursor \in Nat /\ Committed \in Nat
  BY Numbers DEF TxSound
<1>4. s \in live[c] /\ s \in RowSeq /\ s \in Nat
  BY <1>1, <1>3, LeastIn
<1> HIDE DEF s
<1>5. Subscribed(c) /\ sent[c] = seen[c] /\ page[c] = {} /\ ~more[c]
  BY <1>1 DEF Subscribed, ClientSound
<1>6. sent'[c] = seen'[c] /\ sent'[c] = (IF s > sent[c] THEN s ELSE sent[c])
      /\ sent'[c] >= sent[c] /\ sent'[c] >= s /\ sent'[c] \in Nat
  BY <1>1, <1>4, <1>5, WritesHold
<1>7. sent'[c] <= Committed
  <2>1. s <= cursor /\ cursor <= Committed /\ sent[c] <= Committed
    BY <1>4, <1>5 DEF ClientSound, PollSound
  <2> QED  BY <1>3, <1>4, <1>6, <2>1
<1>8. \A u : Holds(c, u) => \A t \in log : sent'[c] < t /\ t <= u => t \in live'[c]
  <2> TAKE u
  <2> HAVE Holds(c, u)
  <2> TAKE t \in log
  <2> HAVE sent'[c] < t /\ t <= u
  <2>1. sent[c] < t /\ t # s  BY <1>3, <1>4, <1>6
  <2>2. t \in live[c]  BY <1>5, <2>1 DEF Holds
  <2> QED  BY <1>1, <2>1, <2>2
<1>9. Subscribed(c)' /\ (Cancelled(c)' <=> Cancelled(c))
  <2>1. Subscribed(c)'  BY <1>1 DEF Subscribed
  <2>2. Cancelled(c)' <=> Cancelled(c)
    BY <1>1, <1>3 DEF Cancelled
  <2> QED  BY <2>1, <2>2
<1>10. ~Cancelled(c) => Holds(c, cursor)'
  <2> HAVE ~Cancelled(c)
  <2>1. Holds(c, cursor)  BY <1>5 DEF ClientSound
  <2>2. \A t \in log : sent'[c] < t /\ t <= cursor => t \in live'[c]  BY <1>8, <2>1
  <2> QED  BY <1>2, <2>2 DEF Holds
<1>11. Cancelled(c) => \E head \in SUBSET live'[c] :
         Cardinality(head) >= luck'[c] /\ \A u \in head : Holds(c, u)'
  <2> HAVE Cancelled(c)
  <2>1. PICK head \in SUBSET live[c] :
          Cardinality(head) >= luck[c] /\ \A u \in head : Holds(c, u)
    BY <1>5 DEF ClientSound
  <2>2. head \in SUBSET RowSeq  BY <1>3
  <2>3. IsFiniteSet(head) /\ Cardinality(head) \in Nat  BY <2>2, Finite
  <2>4. Cardinality(head \ {s}) = IF s \in head THEN Cardinality(head) - 1 ELSE Cardinality(head)
    BY <2>3, FS_RemoveElement
  <2>5. Cardinality(head \ {s}) >= luck'[c]
    BY <1>1, <1>3, <2>1, <2>3, <2>4
  <2>6. head \ {s} \in SUBSET live'[c]  BY <1>1
  <2>7. \A u \in head \ {s} : Holds(c, u)'
    <3> TAKE u \in head \ {s}
    <3>1. \A t \in log : sent'[c] < t /\ t <= u => t \in live'[c]  BY <1>8, <2>1
    <3> QED  BY <1>2, <3>1 DEF Holds
  <2> QED  BY <2>5, <2>6, <2>7
<1>12. \A t \in live'[c] : t <= cursor  BY <1>1 DEF ClientSound
<1> QED
  BY <1>1, <1>2, <1>5, <1>6, <1>7, <1>9, <1>10, <1>11, <1>12 DEF ClientSound

LEMMA SoundPublish ==
  ASSUME CdcTypeOK, TxSound, PollSound, NEW c \in Client, ClientSound(c), Publish
  PROVE  ClientSound(c)'
<1> DEFINE s == Least(batch)
<1>1. /\ UNCHANGED <<writeVars, mode, page, more, sent, clientVars>>
      /\ batch # {} /\ cursor' = s
      /\ live'[c] = IF Subscribed(c) /\ ~Full(c) THEN live[c] \cup {s} ELSE live[c]
      /\ luck'[c] = IF Subscribed(c) /\ Full(c) /\ ~Cancelled(c) THEN MaxLuck ELSE luck[c]
  BY DEF Publish, LuckAfter
<1>2. Committed' = Committed /\ log' = log /\ seen' = seen
  BY <1>1 DEF Committed, writeVars, clientVars
<1>3. /\ live[c] \subseteq Nat /\ log \subseteq Nat /\ sent[c] \in Nat /\ batch \subseteq Nat
      /\ luck[c] \in Nat /\ MaxLuck \in Nat /\ cursor \in Nat /\ LiveBuffer \in Nat /\ MaxLuck <= LiveBuffer
      /\ Cardinality(live[c]) \in Nat
  BY Numbers
<1>4. s \in batch /\ s \in Nat /\ \A t \in batch : s <= t  BY <1>1, <1>3, LeastIn
<1> HIDE DEF s
<1>5. cursor < s  BY <1>4 DEF PollSound
<1>6. \A t \in log : cursor < t /\ t <= s => t = s
  <2> TAKE t \in log
  <2> HAVE cursor < t /\ t <= s
  <2> SUFFICES ASSUME t < s PROVE FALSE  BY <1>3, <1>4
  <2>1. t \in batch  BY <1>4 DEF PollSound
  <2> QED  BY <1>3, <1>4, <2>1
<1>7. \A t \in live'[c] : t <= cursor'
  <2>1. \A t \in live[c] : t <= s  BY <1>3, <1>4, <1>5 DEF ClientSound
  <2> QED  BY <1>1, <1>4, <2>1
<1>8. Subscribed(c)' = Subscribed(c)  BY <1>1 DEF Subscribed
<1>9. \A u : Holds(c, u) => Holds(c, u)'
  BY <1>1, <1>2 DEF Holds
<1>10. Subscribed(c) /\ ~more[c] /\ ~Cancelled(c)' => Holds(c, cursor)'
  <2> HAVE Subscribed(c) /\ ~more[c] /\ ~Cancelled(c)'
  <2>1. ~Cancelled(c) /\ ~Full(c)  BY <1>1, <1>3 DEF Cancelled
  <2>2. live'[c] = live[c] \cup {s}  BY <1>1, <2>1
  <2>3. Holds(c, cursor)  BY <2>1 DEF ClientSound
  <2>4. \A t \in log : sent[c] < t /\ t <= s => t \in page[c] \cup live'[c]
    <3> TAKE t \in log
    <3> HAVE sent[c] < t /\ t <= s
    <3>1. CASE t <= cursor  BY <2>2, <2>3, <3>1 DEF Holds
    <3>2. CASE cursor < t  BY <1>6, <2>2, <3>2
    <3> QED  BY <1>3, <3>1, <3>2
  <2> QED  BY <1>1, <1>2, <2>4 DEF Holds
<1>11. Subscribed(c) /\ ~more[c] /\ Cancelled(c)' =>
         \E head \in SUBSET live'[c] :
           Cardinality(head) >= luck'[c] /\ \A u \in head : Holds(c, u)'
  <2> HAVE Subscribed(c) /\ ~more[c] /\ Cancelled(c)'
  <2>1. CASE Cancelled(c)
    <3>1. PICK head \in SUBSET live[c] :
            Cardinality(head) >= luck[c] /\ \A u \in head : Holds(c, u)
      BY <2>1 DEF ClientSound
    <3>2. luck'[c] = luck[c] /\ head \in SUBSET live'[c]  BY <1>1, <2>1
    <3> QED  BY <1>9, <3>1, <3>2
  <2>2. CASE ~Cancelled(c)
    <3>1. Full(c)  BY <1>1, <2>2 DEF Cancelled
    <3>2. luck'[c] = MaxLuck /\ live'[c] = live[c]  BY <1>1, <2>2, <3>1
    <3>3. Cardinality(live[c]) >= MaxLuck  BY <1>3, <3>1 DEF Full
    <3>4. Holds(c, cursor)  BY <2>2 DEF ClientSound
    <3>5. \A u \in live[c] : Holds(c, u)
      <4> TAKE u \in live[c]
      <4>1. u <= cursor  BY DEF ClientSound
      <4>2. \A t \in log : t <= u => t <= cursor  BY <1>3, <4>1
      <4> QED  BY <3>4, <4>2 DEF Holds
    <3> QED  BY <1>9, <3>2, <3>3, <3>5
  <2> QED  BY <2>1, <2>2
<1>12. mode[c] = "off" => live'[c] = {} /\ luck'[c] = MaxLuck + 1
  BY <1>1 DEF ClientSound, Subscribed
<1> QED  BY <1>1, <1>2, <1>7, <1>8, <1>10, <1>11, <1>12 DEF ClientSound

LEMMA SoundEnds ==
  ASSUME CdcTypeOK, TxSound, NEW c \in Client, ClientSound(c), Ends(c),
         UNCHANGED <<writeVars, clientVars>>
  PROVE  ClientSound(c)'
<1>1. /\ mode'[c] = "off" /\ page'[c] = {} /\ ~more'[c] /\ live'[c] = {} /\ luck'[c] = MaxLuck + 1
  BY DEF Ends, CdcTypeOK
<1>2. Committed' = Committed /\ seen'[c] = seen[c]  BY DEF Committed, writeVars, clientVars
<1>3. seen'[c] <= Committed'  BY <1>2 DEF ClientSound
<1> QED  BY <1>1, <1>3, SoundOff

LEMMA ClientStep ==
  ASSUME CdcTypeOK, TxSound, PollSound, NEW c \in Client, ClientSound(c),
         NEW d \in Client, Connect(d) \/ Stream(d) \/ Breaks(d)
  PROVE  ClientSound(c)'
<1>1. CASE d = c
  BY <1>1, SoundConnect, SoundRead, SoundWrite, SoundDone, SoundLive, SoundEnds
  DEF Stream, StreamStops, Breaks
<1>2. CASE d # c
  <2>1. /\ mode'[c] = mode[c] /\ page'[c] = page[c] /\ more'[c] = more[c] /\ sent'[c] = sent[c]
        /\ live'[c] = live[c] /\ luck'[c] = luck[c] /\ seen'[c] = seen[c]
    BY <1>2 DEF CdcTypeOK, Connect, Stream, ReplayRead, ReplayWrite, ReplayDone, LiveWrite,
       StreamStops, Breaks, Ends, Writes, clientVars
  <2>2. UNCHANGED <<writeVars, cursor>>
    BY DEF Connect, Stream, ReplayRead, ReplayWrite, ReplayDone, LiveWrite, StreamStops, Breaks,
       pollVars
  <2>3. TxSound' /\ Kept  BY <2>2, TxUnmoved DEF writeVars
  <2> QED  BY <2>1, <2>2, <2>3, ClientFrame
<1> QED  BY <1>1, <1>2

LEMMA ClientsStep ==
  ASSUME CdcTypeOK, TxSound, PollSound, NEW c \in Client, ClientSound(c), Next
  PROVE  ClientSound(c)'
<1>1. TxSound' /\ (Kept \/ Grown)  BY TxStep
<1>2. CASE UNCHANGED <<cursor, streamVars, clientVars>>
  BY <1>1, <1>2, ClientFrame DEF streamVars, clientVars
<1>3. CASE Publish
  BY <1>3, SoundPublish
<1>4. CASE \E d \in Client : Connect(d) \/ Stream(d) \/ Breaks(d)
  BY <1>4, ClientStep
<1>5. CASE DaemonRestarts
  <2>1. /\ mode'[c] = "off" /\ page'[c] = {} /\ ~more'[c] /\ live'[c] = {} /\ luck'[c] = MaxLuck + 1
        /\ seen'[c] = seen[c]
    BY <1>5 DEF DaemonRestarts, clientVars
  <2>2. seen[c] \in Nat /\ Committed \in Nat /\ Committed' \in Nat /\ Committed <= Committed'
    BY <1>1, Numbers, LogAfter DEF TxSound
  <2>3. seen[c] <= Committed  BY DEF ClientSound
  <2>4. seen'[c] <= Committed'  BY <2>1, <2>2, <2>3
  <2> QED  BY <2>1, <2>4, SoundOff
<1> QED
  BY <1>2, <1>3, <1>4, <1>5 DEF Next, Commit, Rollback, Insert, DeleteSession, PollRead, pollVars

-----------------------------------------------------------------------------
(* The invariant.                                                          *)

LEMMA InvInit == Init => Inv
<1> SUFFICES ASSUME Init PROVE Inv  OBVIOUS
<1>1. CdcTypeOK
  <2>1. MaxLuck + 1 \in 0..MaxLuck + 1 /\ 0 \in 0..MaxFaults  BY CdcAssumption DEF CdcAssumption
  <2>2. \A c \in Client : Cardinality(live[c]) <= LiveBuffer  BY EmptyCount DEF Init
  <2>3. (CHOOSE x \in Session : TRUE) \in Session  BY CdcAssumption DEF CdcAssumption
  <2>4. about \in [RowSeq -> Session]  BY <2>3 DEF Init
  <2> QED  BY <2>1, <2>2, <2>4 DEF Init, CdcTypeOK
<1>2. Committed = 0
  <2>1. UNION {tx[w] : w \in Writer} = {}  BY DEF Init
  <2> QED  BY <2>1 DEF Committed, Init
<1>3. TxSound  BY <1>2, CdcAssumption DEF Init, TxSound, CdcAssumption
<1>4. PollSound  BY <1>2 DEF Init, PollSound
<1>5. PageSound /\ LiveSound  BY <1>2 DEF Init, PageSound, LiveSound, Subscribed
<1> QED  BY <1>1, <1>3, <1>4, <1>5 DEF Inv

LEMMA TypesNext ==
  ASSUME CdcTypeOK, TxSound, Next
  PROVE  CdcTypeOK'
<1>1. CASE \E w \in Writer : Commit(w) \/ Rollback(w) \/ \E x \in Session : Insert(w, x)
  BY <1>1, TypesWrite
<1>2. CASE \E x \in Session : DeleteSession(x)
  BY <1>2 DEF DeleteSession, CdcTypeOK, pollVars, streamVars, clientVars
<1>3. CASE PollRead
  BY <1>3, EventsAreRows DEF PollRead, CdcTypeOK, writeVars, streamVars, clientVars
<1>4. CASE Publish
  BY <1>4, TypesPublish
<1>5. CASE \E c \in Client : Connect(c) \/ Stream(c) \/ Breaks(c)
  BY <1>5, TypesClient
<1>6. CASE DaemonRestarts
  <2>1. last' \in Nat  BY <1>6 DEF DaemonRestarts, TxSound, Committed
  <2>2. cursor' \in Nat
    <3>1. CASE log = {}  BY <1>6, <3>1 DEF DaemonRestarts
    <3>2. CASE log # {}
      <4>1. log \subseteq Nat  BY Numbers
      <4>2. Greatest(log) \in log  BY <3>2, <4>1, GreatestIn DEF TxSound
      <4> QED  BY <1>6, <3>2, <4>1, <4>2 DEF DaemonRestarts
    <3> QED  BY <3>1, <3>2
  <2>3. MaxLuck + 1 \in 0..MaxLuck + 1 /\ faults' \in 0..MaxFaults
    BY <1>6, CdcAssumption DEF CdcAssumption, DaemonRestarts, Fault, CdcTypeOK
  <2>4. \A c \in Client : Cardinality(live'[c]) <= LiveBuffer
    BY <1>6, EmptyCount DEF DaemonRestarts
  <2> QED  BY <1>6, <2>1, <2>2, <2>3, <2>4 DEF DaemonRestarts, CdcTypeOK, clientVars
<1> QED  BY <1>1, <1>2, <1>3, <1>4, <1>5, <1>6 DEF Next

LEMMA InvStutter == Inv /\ UNCHANGED vars => Inv'
<1> SUFFICES ASSUME Inv, UNCHANGED vars PROVE Inv'  OBVIOUS
<1> USE DEF vars, writeVars, pollVars, streamVars, clientVars
<1>1. CdcTypeOK'  BY DEF Inv, CdcTypeOK
<1>2. Committed' = Committed  BY DEF Committed
<1>3. TxSound'  BY <1>2 DEF Inv, TxSound, Alone
<1>4. PollSound'  BY <1>2 DEF Inv, PollSound
<1>5. PageSound'  BY <1>2 DEF Inv, PageSound, Subscribed
<1>6. LiveSound'  BY <1>2 DEF Inv, LiveSound, Subscribed, Cancelled, Holds
<1> QED  BY <1>1, <1>3, <1>4, <1>5, <1>6 DEF Inv

LEMMA InvStep == Inv /\ [Next]_vars => Inv'
<1>1. CASE UNCHANGED vars  BY <1>1, InvStutter
<1>2. ASSUME Inv, Next PROVE Inv'
  <2>1. CdcTypeOK /\ TxSound /\ PollSound /\ \A c \in Client : ClientSound(c)
    BY <1>2, ClientParts DEF Inv
  <2>2. \A c \in Client : ClientSound(c)'  BY <1>2, <2>1, ClientsStep
  <2>3. PageSound' /\ LiveSound'  BY <2>2 DEF PageSound, LiveSound, ClientSound
  <2> QED  BY <1>2, <2>1, <2>3, TypesNext, TxStep, PollStep DEF Inv
<1> QED  BY <1>1, <1>2

\* The properties and their strengthenings hold in every reachable state.
THEOREM InvHolds == Spec => []Inv
  BY InvInit, InvStep, PTL DEF Spec

\* The types of log, transactions, poller and streams hold, and no live buffer
\* grows beyond its size (httpd/events.go, eventsLiveBuffer).
THEOREM CdcTypesHold == Spec => []CdcTypeOK
  BY InvHolds, PTL DEF Inv

-----------------------------------------------------------------------------
(* The refinement.                                                         *)

LEMMA QuietIsDrop ==
  ASSUME Inv, Next, UNCHANGED clientVars
  PROVE  Feed!Drop \/ Feed!Append
<1>1. Kept \/ Grown  BY TxStep DEF Inv
<1> QED  BY <1>1 DEF Kept, Grown, Feed!Drop, Feed!Append, clientVars

LEMMA WriteReceives ==
  ASSUME Inv, NEW c \in Client, NEW s \in RowSeq, Writes(c, s), UNCHANGED writeVars,
         sent[c] = seen[c], s > sent[c], s <= Committed,
         \A t \in log : sent[c] < t => s <= t
  PROVE  Feed!Receive(c)
<1>1. Committed' = Committed /\ log' = log  BY DEF Committed, writeVars
<1>2. seen' = [seen EXCEPT ![c] = s] /\ got' = [got EXCEPT ![c] = @ \cup {s}]
  BY DEF Writes
<1>3. s \in Nat /\ seen[c] \in Nat /\ Committed \in Nat /\ log \subseteq Nat
  BY RowNumber, Numbers DEF Inv, TxSound
<1>4. s \in (seen[c] + 1)..Committed  BY <1>3
<1>5. \A t \in log : t > seen[c] => t >= s  BY <1>3
<1> QED  BY <1>1, <1>2, <1>4, <1>5 DEF Feed!Receive

LEMMA ClientIsFeed ==
  ASSUME Inv, NEW c \in Client, Connect(c) \/ Stream(c) \/ Breaks(c)
  PROVE  Feed!FeedNext \/ UNCHANGED Feed!feedVars
<1>1. CdcTypeOK /\ TxSound /\ PollSound /\ ClientSound(c)  BY ClientParts DEF Inv
<1>2. Next  BY DEF Next
<1>3. CASE UNCHANGED clientVars
  BY <1>2, <1>3, QuietIsDrop DEF Feed!FeedNext
<1>4. CASE Connect(c)
  <2>1. UNCHANGED writeVars  BY <1>4 DEF Connect
  <2>2. Committed' = Committed /\ log' = log  BY <2>1 DEF Committed, writeVars
  <2>3. PICK after \in {0, seen[c]} :
          /\ seen' = [seen EXCEPT ![c] = after]
          /\ got' = IF after = 0 THEN [got EXCEPT ![c] = {}] ELSE got
    BY <1>4 DEF Connect
  <2>4. CASE after = 0
    BY <2>2, <2>3, <2>4 DEF Feed!FromStart, Feed!FeedNext
  <2>5. CASE after # 0
    <3>1. seen' = seen /\ got' = got  BY <1>1, <2>3, <2>5 DEF CdcTypeOK
    <3> QED  BY <2>2, <3>1 DEF Feed!feedVars
  <2> QED  BY <2>4, <2>5
<1>5. CASE ReplayWrite(c)
  <2> DEFINE s == Least(page[c])
  <2>1. page[c] # {} /\ Writes(c, s) /\ UNCHANGED writeVars /\ Subscribed(c)
    BY <1>5 DEF ReplayWrite, Subscribed
  <2>2. page[c] \subseteq Nat /\ log \subseteq Nat /\ sent[c] \in Nat /\ page[c] \in SUBSET RowSeq
    BY <1>1, Numbers DEF CdcTypeOK
  <2>3. s \in page[c] /\ s \in Nat /\ \A t \in page[c] : s <= t  BY <2>1, <2>2, LeastIn
  <2> HIDE DEF s
  <2>4. sent[c] = seen[c] /\ s > sent[c] /\ s <= Committed
    BY <1>1, <2>1, <2>2, <2>3 DEF ClientSound
  <2>5. \A t \in log : sent[c] < t => s <= t
    <3> TAKE t \in log
    <3> HAVE sent[c] < t
    <3> SUFFICES ASSUME t < s PROVE FALSE  BY <2>2, <2>3
    <3>1. t \in page[c]  BY <1>1, <2>3 DEF ClientSound
    <3> QED  BY <2>2, <2>3, <3>1
  <2>6. Feed!Receive(c)  BY <2>1, <2>2, <2>3, <2>4, <2>5, WriteReceives
  <2> QED  BY <2>6 DEF Feed!FeedNext
<1>6. CASE LiveWrite(c)
  <2> DEFINE s == Least(live[c])
  <2>1. live[c] # {} /\ Writes(c, s) /\ UNCHANGED writeVars /\ Subscribed(c)
    BY <1>6 DEF LiveWrite, Subscribed
  <2>2. live[c] \subseteq Nat /\ sent[c] \in Nat /\ live[c] \in SUBSET RowSeq /\ cursor \in Nat
    BY <1>1, Numbers
  <2>3. s \in live[c] /\ s \in Nat  BY <2>1, <2>2, LeastIn
  <2>4. \A t \in log : sent[c] < t => s <= t  BY <1>1, <1>6, LiveNext
  <2> HIDE DEF s
  <2>5. sent[c] = seen[c] /\ s <= Committed
    <3>1. s <= cursor /\ cursor <= Committed /\ Committed \in Nat
      BY <1>1, <2>3 DEF ClientSound, PollSound, TxSound
    <3> QED  BY <1>1, <2>1, <2>2, <2>3, <3>1 DEF ClientSound
  <2>6. CASE s > sent[c]
    <3>1. Feed!Receive(c)  BY <2>1, <2>2, <2>3, <2>4, <2>5, <2>6, WriteReceives
    <3> QED  BY <3>1 DEF Feed!FeedNext
  <2>7. CASE ~(s > sent[c])
    <3>1. UNCHANGED clientVars
      BY <1>1, <2>1, <2>7 DEF Writes, CdcTypeOK, clientVars
    <3> QED  BY <1>3, <3>1
  <2> QED  BY <2>6, <2>7
<1> QED
  BY <1>3, <1>4, <1>5, <1>6 DEF Stream, ReplayRead, ReplayDone, StreamStops, Breaks

LEMMA StepIsFeed == Inv /\ [Next]_vars => [Feed!FeedNext]_(Feed!feedVars)
<1> SUFFICES ASSUME Inv, [Next]_vars PROVE Feed!FeedNext \/ UNCHANGED Feed!feedVars
  OBVIOUS
<1>1. CASE UNCHANGED vars
  BY <1>1 DEF vars, writeVars, clientVars, Feed!feedVars, Committed
<1>2. CASE Next /\ UNCHANGED clientVars
  BY <1>2, QuietIsDrop DEF Feed!FeedNext
<1>3. CASE \E c \in Client : Connect(c) \/ Stream(c) \/ Breaks(c)
  BY <1>3, ClientIsFeed
<1> QED
  BY <1>1, <1>2, <1>3 DEF Next, Commit, Rollback, Insert, DeleteSession, PollRead, Publish, DaemonRestarts

\* The event stream implements the feed: through transactions, the poller, the
\* bounded buffers, breaks and restarts a client receives the changes in the
\* order of their commits, and none that is still in the log is passed over.
THEOREM CdcImplementsFeed == Spec => ImplementsFeed
<1>1. Init => Feed!FeedInit
  <2> SUFFICES ASSUME Init PROVE Feed!FeedInit  OBVIOUS
  <2>1. UNION {tx[w] : w \in Writer} = {}  BY DEF Init
  <2>2. Committed = 0  BY <2>1 DEF Committed, Init
  <2> QED  BY <2>2 DEF Init, Feed!FeedInit
<1> QED  BY <1>1, StepIsFeed, InvHolds, PTL DEF Spec, ImplementsFeed, Feed!FeedSpec

LEMMA MissedStep ==
  ASSUME Inv, NothingMissed, Feed!FeedNext \/ UNCHANGED Feed!feedVars
  PROVE  NothingMissed'
<1>1. Committed \in Nat /\ log \subseteq Nat /\ (\A c \in Client : seen[c] \in Nat /\ seen[c] <= Committed)
      /\ seen \in [Client -> Nat] /\ got \in [Client -> SUBSET RowSeq]
  BY Numbers DEF Inv, TxSound, PageSound, CdcTypeOK
<1>2. CASE Feed!Append
  <2>1. /\ log' = log \cup ((Committed + 1)..Committed') /\ seen' = seen /\ got' = got
    BY <1>2 DEF Feed!Append
  <2>2. \A c \in Client : \A t \in log' : t <= seen[c] => t \in log
    BY <1>1, <2>1
  <2> QED  BY <2>1, <2>2 DEF NothingMissed, Feed!NothingMissed
<1>3. CASE Feed!Drop
  BY <1>3 DEF Feed!Drop, NothingMissed, Feed!NothingMissed
<1>4. ASSUME NEW c \in Client, Feed!Receive(c) PROVE NothingMissed'
  <2>1. PICK s \in (seen[c] + 1)..Committed :
          /\ \A t \in log : t > seen[c] => t >= s
          /\ seen' = [seen EXCEPT ![c] = s]
          /\ got' = [got EXCEPT ![c] = @ \cup {s}]
          /\ UNCHANGED log
    BY <1>4 DEF Feed!Receive
  <2>2. ASSUME NEW d \in Client, NEW t \in log, t <= seen'[d] PROVE t \in got'[d]
    <3>1. CASE d # c
      BY <1>1, <2>1, <2>2, <3>1 DEF NothingMissed, Feed!NothingMissed
    <3>2. CASE d = c
      <4>1. seen'[d] = s /\ got'[d] = got[d] \cup {s} /\ s \in Nat /\ t \in Nat
        BY <1>1, <2>1, <3>2
      <4>2. CASE t <= seen[c]
        BY <3>2, <4>1, <4>2 DEF NothingMissed, Feed!NothingMissed
      <4>3. CASE t > seen[c]
        <5>1. t = s  BY <2>1, <2>2, <4>1, <4>3
        <5> QED  BY <4>1, <5>1
      <4> QED  BY <1>1, <4>1, <4>2, <4>3
    <3> QED  BY <3>1, <3>2
  <2> QED  BY <2>1, <2>2 DEF NothingMissed, Feed!NothingMissed
<1>5. ASSUME NEW c \in Client, Feed!FromStart(c) PROVE NothingMissed'
  <2>1. /\ seen' = [seen EXCEPT ![c] = 0] /\ got' = [got EXCEPT ![c] = {}] /\ log' = log
    BY <1>5 DEF Feed!FromStart
  <2>2. \A t \in log : t >= 1
    <3>1. \A t \in log : t \in RowSeq  BY DEF Inv, CdcTypeOK
    <3> QED  BY <3>1, RowNumber
  <2>3. ASSUME NEW d \in Client, NEW t \in log, t <= seen'[d] PROVE t \in got'[d]
    <3>1. CASE d # c
      BY <1>1, <2>1, <2>3, <3>1 DEF NothingMissed, Feed!NothingMissed
    <3>2. CASE d = c
      <4>1. seen'[d] = 0 /\ t \in Nat /\ t >= 1  BY <1>1, <2>1, <2>2, <3>2
      <4> QED  BY <2>3, <4>1
    <3> QED  BY <3>1, <3>2
  <2> QED  BY <2>1, <2>3 DEF NothingMissed, Feed!NothingMissed
<1>6. CASE UNCHANGED Feed!feedVars
  BY <1>6 DEF Feed!feedVars, NothingMissed, Feed!NothingMissed
<1> QED  BY <1>2, <1>3, <1>4, <1>5, <1>6 DEF Feed!FeedNext

\* A client whose last event id is n has received every change up to n that is
\* still in the log, so reconnecting with it (parseEventsAfter) misses nothing.
THEOREM CdcMissesNothing == Spec => []NothingMissed
<1>1. Init => NothingMissed
  BY DEF Init, NothingMissed, Feed!NothingMissed
<1>2. Inv /\ NothingMissed /\ [Next]_vars => NothingMissed'
  BY StepIsFeed, MissedStep
<1> QED  BY <1>1, <1>2, InvHolds, PTL DEF Spec
=============================================================================
