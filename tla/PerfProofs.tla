----------------------------- MODULE PerfProofs -----------------------------
(***************************************************************************)
(* Proofs about Perf, for any number of servers, models, observations,     *)
(* faults and starts and any capacity.  The order: what is in the table    *)
(* was measured before what the writer inserts, that before what is        *)
(* queued, and that before what a worker still has to give to the sink.    *)
(* The trim: it leaves the newest rows of each key.  The restart: a window *)
(* that was read from the table stays at least as new as the table.        *)
(***************************************************************************)
EXTENDS Perf, FiniteSetTheorems, SequenceTheorems, WellFoundedInduction, TLAPS

Measured == [key : Keys, n : Nat]

\* Types, and that a worker only records observations of its own server.
OrderTypes ==
    /\ accepted \in Nat
    /\ lastId \in Nat
    /\ sinking \in [Servers -> Seq(Measured)]
    /\ \A s \in Servers : /\ Len(sinking[s]) \in {0, 1}
                          /\ Len(sinking[s]) = 1 => sinking[s][1].key[1] = s
    /\ inserting \in Seq(Measured)
    /\ writer = "inserting" => Len(inserting) = 1
    /\ queue \in Seq(Measured)
    /\ written \subseteq [id : Nat, key : Keys, n : Nat]

\* Nothing is newer than the last observation accepted, no id newer than the
\* last one given.
Bounded ==
    /\ \A r \in written : r.id <= lastId /\ r.n <= accepted
    /\ \A i \in 1..Len(inserting) : inserting[i].n <= accepted
    /\ \A i \in 1..Len(queue) : queue[i].n <= accepted
    /\ \A s \in Servers : \A i \in 1..Len(sinking[s]) : sinking[s][i].n <= accepted

\* Two observations of a key are in the order in which they were made.
Earlier(a, b) == a.key = b.key => a.n < b.n

RowsFirst ==
    \A r \in written :
        /\ \A i \in 1..Len(inserting) : Earlier(r, inserting[i])
        /\ \A i \in 1..Len(queue) : Earlier(r, queue[i])
        /\ \A s \in Servers : \A i \in 1..Len(sinking[s]) : Earlier(r, sinking[s][i])

InsertingNext ==
    \A h \in 1..Len(inserting) :
        /\ \A i \in 1..Len(queue) : Earlier(inserting[h], queue[i])
        /\ \A s \in Servers : \A i \in 1..Len(sinking[s]) : Earlier(inserting[h], sinking[s][i])

QueueNext ==
    \A h \in 1..Len(queue) :
        /\ \A i \in 1..Len(queue) : h < i => Earlier(queue[h], queue[i])
        /\ \A s \in Servers : \A i \in 1..Len(sinking[s]) : Earlier(queue[h], sinking[s][i])

OrderInv ==
    /\ OrderTypes
    /\ Bounded
    /\ RowsInOrder
    /\ RowsFirst
    /\ InsertingNext
    /\ QueueNext

-----------------------------------------------------------------------------

\* Nothing is recorded, queued or written at the first start.
LEMMA OrderInit == PerfInit => OrderInv
<1>1. ASSUME PerfInit PROVE OrderTypes
  BY <1>1, PerfAssumption DEF PerfInit, OrderTypes, Measured
<1>2. ASSUME PerfInit PROVE Bounded /\ RowsInOrder /\ RowsFirst /\ InsertingNext /\ QueueNext
  BY <1>2 DEF PerfInit, Bounded, RowsInOrder, RowsFirst, InsertingNext, QueueNext
<1> QED
  BY <1>1, <1>2 DEF OrderInv

\* A step that changes none of the variables of the order keeps it.
LEMMA OrderUntouched ==
    ASSUME OrderInv, writer' = "inserting" => writer = "inserting",
           UNCHANGED <<sinking, inserting, queue, lastId, accepted, written>>
    PROVE  OrderInv'
<1>1. OrderTypes' BY DEF OrderInv, OrderTypes
<1>2. Bounded' BY DEF OrderInv, Bounded
<1>3. RowsInOrder' BY DEF OrderInv, RowsInOrder
<1>4. RowsFirst' BY DEF OrderInv, RowsFirst, Earlier
<1>5. InsertingNext' BY DEF OrderInv, InsertingNext, Earlier
<1>6. QueueNext' BY DEF OrderInv, QueueNext, Earlier
<1> QED BY <1>1, <1>2, <1>3, <1>4, <1>5, <1>6 DEF OrderInv

\* The numbers of the observations under way are numbers.
LEMMA Numbers ==
    ASSUME OrderTypes
    PROVE  /\ \A i \in 1..Len(inserting) : inserting[i].n \in Nat
           /\ \A i \in 1..Len(queue) : queue[i].n \in Nat
           /\ \A s \in Servers : \A i \in 1..Len(sinking[s]) : sinking[s][i].n \in Nat
           /\ \A r \in written : r.n \in Nat /\ r.id \in Nat
<1>1. ASSUME NEW q \in Seq(Measured), NEW i \in 1..Len(q) PROVE q[i].n \in Nat
  <2>1. q[i] \in Measured OBVIOUS
  <2> QED BY <2>1 DEF Measured
<1> QED BY <1>1 DEF OrderTypes

\* An observation that is accepted is newer than everything there is.
LEMMA OrderRecord ==
    ASSUME OrderInv, NEW s \in Servers, NEW m \in Models, NEW valid \in BOOLEAN,
           NEW verdict \in Verdicts, RecordPerf(s, m, valid, verdict)
    PROVE  OrderInv'
<1>1. CASE ~valid
  <2>1. UNCHANGED <<sinking, writer, inserting, queue, lastId, accepted, written>>
    BY <1>1 DEF RecordPerf, Record
  <2> QED BY <2>1, OrderUntouched
<1>2. CASE valid
  <2> DEFINE o == [key |-> <<s, m>>, n |-> accepted + 1]
  <2>1. /\ accepted' = accepted + 1
        /\ sinking' = [sinking EXCEPT ![s] = <<o>>]
        /\ UNCHANGED <<writer, inserting, queue, lastId, written>>
    BY <1>2 DEF RecordPerf, Record
  <2>2. accepted \in Nat /\ sinking \in [Servers -> Seq(Measured)] /\ o \in Measured
    <3>1. <<s, m>> \in Keys BY DEF Keys
    <3>2. accepted \in Nat /\ sinking \in [Servers -> Seq(Measured)]
      BY DEF OrderInv, OrderTypes
    <3>3. accepted + 1 \in Nat BY <3>2
    <3>4. \A k \in Keys, n \in Nat : [key |-> k, n |-> n] \in Measured
      BY DEF Measured
    <3>5. o \in Measured BY <3>1, <3>3, <3>4
    <3> QED BY <3>2, <3>5
  <2>3. /\ sinking'[s] = <<o>>
        /\ \A t \in Servers : t # s => sinking'[t] = sinking[t]
    BY <2>1, <2>2
  <2> HIDE DEF o
  <2>4. Len(sinking'[s]) = 1 /\ sinking'[s][1] = o /\ <<o>> \in Seq(Measured)
    BY <2>2, <2>3
  <2>5. o.key[1] = s /\ o.n = accepted + 1
    BY DEF o
  <2>6. OrderTypes'
    <3>1. sinking' \in [Servers -> Seq(Measured)]
      BY <2>1, <2>2, <2>4
    <3>2. \A t \in Servers : /\ Len(sinking'[t]) \in {0, 1}
                             /\ Len(sinking'[t]) = 1 => sinking'[t][1].key[1] = t
      BY <2>3, <2>4, <2>5 DEF OrderInv, OrderTypes
    <3> QED BY <2>1, <3>1, <3>2 DEF OrderInv, OrderTypes
  <2>7. Bounded'
    <3>1. \A r \in written : r.id <= lastId /\ r.n <= accepted + 1
      BY <2>2 DEF OrderInv, OrderTypes, Bounded
    <3>2. \A i \in 1..Len(inserting) : inserting[i].n <= accepted + 1
      BY <2>2, Numbers DEF OrderInv, Bounded
    <3>3. \A i \in 1..Len(queue) : queue[i].n <= accepted + 1
      BY <2>2, Numbers DEF OrderInv, Bounded
    <3>4. ASSUME NEW t \in Servers, NEW i \in 1..Len(sinking'[t])
          PROVE  sinking'[t][i].n <= accepted + 1
      <4>1. CASE t = s
        BY <2>2, <2>4, <2>5, <4>1
      <4>2. CASE t # s
        BY <2>2, <2>3, <4>2, Numbers DEF OrderInv, Bounded
      <4> QED BY <4>1, <4>2
    <3> QED BY <2>1, <3>1, <3>2, <3>3, <3>4 DEF Bounded
  <2>8. RowsInOrder'
    BY <2>1 DEF OrderInv, RowsInOrder
  <2>9. RowsFirst'
    <3>1. ASSUME NEW r \in written, NEW t \in Servers, NEW i \in 1..Len(sinking'[t])
          PROVE  Earlier(r, sinking'[t][i])
      <4>1. CASE t = s
        BY <2>2, <2>4, <2>5, <4>1 DEF OrderInv, OrderTypes, Bounded, Earlier
      <4>2. CASE t # s
        BY <2>3, <4>2 DEF OrderInv, RowsFirst
      <4> QED BY <4>1, <4>2
    <3> QED BY <2>1, <3>1 DEF OrderInv, RowsFirst, Earlier
  <2>10. InsertingNext'
    <3>1. ASSUME NEW h \in 1..Len(inserting), NEW t \in Servers, NEW i \in 1..Len(sinking'[t])
          PROVE  Earlier(inserting[h], sinking'[t][i])
      <4>1. CASE t = s
        BY <2>2, <2>4, <2>5, <4>1, Numbers DEF OrderInv, Bounded, Earlier
      <4>2. CASE t # s
        BY <2>3, <4>2 DEF OrderInv, InsertingNext
      <4> QED BY <4>1, <4>2
    <3> QED BY <2>1, <3>1 DEF OrderInv, InsertingNext, Earlier
  <2>11. QueueNext'
    <3>1. ASSUME NEW h \in 1..Len(queue), NEW t \in Servers, NEW i \in 1..Len(sinking'[t])
          PROVE  Earlier(queue[h], sinking'[t][i])
      <4>1. CASE t = s
        BY <2>2, <2>4, <2>5, <4>1, Numbers DEF OrderInv, Bounded, Earlier
      <4>2. CASE t # s
        BY <2>3, <4>2 DEF OrderInv, QueueNext
      <4> QED BY <4>1, <4>2
    <3> QED BY <2>1, <3>1 DEF OrderInv, QueueNext, Earlier
  <2> QED BY <2>6, <2>7, <2>8, <2>9, <2>10, <2>11 DEF OrderInv
<1> QED BY <1>1, <1>2

\* The sink puts it behind everything of its key; or drops it.
LEMMA OrderEnqueue ==
    ASSUME OrderInv, NEW s \in Servers, Enqueue(s)
    PROVE  OrderInv'
<1> DEFINE o == sinking[s][1]
<1>1. /\ Len(sinking[s]) = 1
      /\ sinking' = [sinking EXCEPT ![s] = <<>>]
      /\ UNCHANGED <<writer, inserting, lastId, accepted, written>>
      /\ queue' = Append(queue, o) \/ queue' = queue
  <2>1. Len(sinking[s]) = 1
    BY DEF Enqueue, OrderInv, OrderTypes
  <2> QED BY <2>1 DEF Enqueue
<1>2. sinking \in [Servers -> Seq(Measured)] /\ queue \in Seq(Measured)
  BY DEF OrderInv, OrderTypes
<1>3. o \in Measured
  <2>1. sinking[s] \in Seq(Measured) BY <1>2
  <2>2. Len(sinking[s]) = 1 BY <1>1
  <2> QED BY <2>1, <2>2
<1>4. /\ Len(sinking'[s]) = 0
      /\ \A t \in Servers : t # s => sinking'[t] = sinking[t]
  BY <1>1, <1>2
<1>5. \A t \in Servers : \A i \in 1..Len(sinking'[t]) :
          t # s /\ i \in 1..Len(sinking[t]) /\ sinking'[t][i] = sinking[t][i]
  BY <1>4
<1>6. \A i \in 1..Len(queue') :
          \/ i \in 1..Len(queue) /\ queue'[i] = queue[i]
          \/ i = Len(queue) + 1 /\ Len(queue') = i /\ queue'[i] = o
  BY <1>1, <1>2, <1>3
<1>7. /\ \A r \in written : Earlier(r, o)
      /\ \A h \in 1..Len(inserting) : Earlier(inserting[h], o)
      /\ \A h \in 1..Len(queue) : Earlier(queue[h], o)
      /\ o.n <= accepted
  BY <1>1 DEF OrderInv, RowsFirst, InsertingNext, QueueNext, Bounded
<1>8. \A t \in Servers : \A i \in 1..Len(sinking[t]) : t # s => o.key # sinking[t][i].key
  BY <1>1 DEF OrderInv, OrderTypes
<1> HIDE DEF o
<1>9. OrderTypes'
  <2>1. sinking' \in [Servers -> Seq(Measured)]
    BY <1>1, <1>2
  <2>2. \A t \in Servers : /\ Len(sinking'[t]) \in {0, 1}
                           /\ Len(sinking'[t]) = 1 => sinking'[t][1].key[1] = t
    BY <1>4 DEF OrderInv, OrderTypes
  <2>3. queue' \in Seq(Measured)
    BY <1>1, <1>2, <1>3
  <2> QED BY <1>1, <2>1, <2>2, <2>3 DEF OrderInv, OrderTypes
<1>10. Bounded'
  <2>1. \A i \in 1..Len(queue') : queue'[i].n <= accepted
    BY <1>6, <1>7 DEF OrderInv, Bounded
  <2>2. \A t \in Servers : \A i \in 1..Len(sinking'[t]) : sinking'[t][i].n <= accepted
    BY <1>5 DEF OrderInv, Bounded
  <2> QED BY <1>1, <2>1, <2>2 DEF OrderInv, Bounded
<1>11. RowsInOrder'
  BY <1>1 DEF OrderInv, RowsInOrder
<1>12. RowsFirst'
  <2>1. ASSUME NEW r \in written, NEW i \in 1..Len(queue') PROVE Earlier(r, queue'[i])
    BY <1>6, <1>7 DEF OrderInv, RowsFirst
  <2>2. ASSUME NEW r \in written, NEW t \in Servers, NEW i \in 1..Len(sinking'[t])
        PROVE  Earlier(r, sinking'[t][i])
    BY <1>5 DEF OrderInv, RowsFirst
  <2> QED BY <1>1, <2>1, <2>2 DEF OrderInv, RowsFirst, Earlier
<1>13. InsertingNext'
  <2>1. ASSUME NEW h \in 1..Len(inserting), NEW i \in 1..Len(queue')
        PROVE  Earlier(inserting[h], queue'[i])
    BY <1>6, <1>7 DEF OrderInv, InsertingNext
  <2>2. ASSUME NEW h \in 1..Len(inserting), NEW t \in Servers, NEW i \in 1..Len(sinking'[t])
        PROVE  Earlier(inserting[h], sinking'[t][i])
    BY <1>5 DEF OrderInv, InsertingNext
  <2> QED BY <1>1, <2>1, <2>2 DEF OrderInv, InsertingNext, Earlier
<1>14. QueueNext'
  <2>1. ASSUME NEW h \in 1..Len(queue'), NEW i \in 1..Len(queue'), h < i
        PROVE  Earlier(queue'[h], queue'[i])
    <3>1. h \in 1..Len(queue) /\ queue'[h] = queue[h]
      BY <1>2, <1>6, <2>1
    <3> QED BY <1>6, <1>7, <2>1, <3>1 DEF OrderInv, QueueNext
  <2>2. ASSUME NEW h \in 1..Len(queue'), NEW t \in Servers, NEW i \in 1..Len(sinking'[t])
        PROVE  Earlier(queue'[h], sinking'[t][i])
    <3>1. CASE h \in 1..Len(queue) /\ queue'[h] = queue[h]
      BY <1>5, <3>1 DEF OrderInv, QueueNext
    <3>2. CASE queue'[h] = o
      BY <1>5, <1>8, <3>2 DEF Earlier
    <3> QED BY <1>6, <3>1, <3>2
  <2> QED BY <2>1, <2>2 DEF QueueNext, Earlier
<1> QED BY <1>9, <1>10, <1>11, <1>12, <1>13, <1>14 DEF OrderInv

\* The writer takes the oldest of the queue.
LEMMA OrderReceive ==
    ASSUME OrderInv, Receive
    PROVE  OrderInv'
<1>1. /\ queue \in Seq(Measured)
      /\ queue # <<>>
      /\ inserting' = <<queue[1]>>
      /\ queue' = Tail(queue)
      /\ UNCHANGED <<sinking, lastId, accepted, written>>
  BY DEF OrderInv, OrderTypes, Receive
<1>2. Len(queue) >= 1 /\ queue[1] \in Measured
  BY <1>1
<1>3. /\ queue' \in Seq(Measured)
      /\ \A i \in 1..Len(queue') : i + 1 \in 1..Len(queue) /\ queue'[i] = queue[i + 1]
  BY <1>1, <1>2
<1>4. /\ inserting' \in Seq(Measured) /\ Len(inserting') = 1
      /\ \A i \in 1..Len(inserting') : inserting'[i] = queue[1]
  BY <1>1, <1>2
<1>5. 1 \in 1..Len(queue)
  BY <1>1, <1>2
<1>6. OrderTypes'
  BY <1>1, <1>3, <1>4 DEF OrderInv, OrderTypes
<1>7. Bounded'
  BY <1>1, <1>3, <1>4, <1>5 DEF OrderInv, Bounded
<1>8. RowsInOrder'
  BY <1>1 DEF OrderInv, RowsInOrder
<1>9. RowsFirst'
  BY <1>1, <1>3, <1>4, <1>5 DEF OrderInv, RowsFirst, Earlier
<1>10. InsertingNext'
  BY <1>1, <1>3, <1>4, <1>5 DEF OrderInv, InsertingNext, QueueNext, Earlier
<1>11. QueueNext'
  BY <1>1, <1>3 DEF OrderInv, QueueNext, Earlier
<1> QED BY <1>6, <1>7, <1>8, <1>9, <1>10, <1>11 DEF OrderInv

\* The row that is inserted is newer than the rows of its key, and older than
\* what is queued.
LEMMA OrderInsert ==
    ASSUME OrderInv, Insert
    PROVE  OrderInv'
<1> DEFINE row == [id |-> lastId + 1, key |-> inserting[1].key, n |-> inserting[1].n]
<1>1. /\ Len(inserting) = 1 /\ inserting' = <<>>
      /\ written' = written \cup {row}
      /\ lastId' = lastId + 1
      /\ UNCHANGED <<sinking, queue, accepted>>
      /\ writer' = "waiting"
  BY DEF OrderInv, OrderTypes, Insert
<1>2. lastId \in Nat /\ inserting[1] \in Measured
  BY <1>1 DEF OrderInv, OrderTypes
<1>3. row \in [id : Nat, key : Keys, n : Nat]
  BY <1>2 DEF Measured
<1>4. /\ row.id = lastId + 1 /\ row.n <= accepted
      /\ \A r \in written : r.id \in Nat /\ r.id <= lastId /\ Earlier(r, row)
      /\ \A i \in 1..Len(queue) : Earlier(row, queue[i])
      /\ \A s \in Servers : \A i \in 1..Len(sinking[s]) : Earlier(row, sinking[s][i])
  BY <1>1, Numbers DEF OrderInv, Bounded, RowsFirst, InsertingNext, Earlier
<1> HIDE DEF row
<1>5. OrderTypes'
  BY <1>1, <1>2, <1>3 DEF OrderInv, OrderTypes
<1>6. Bounded'
  BY <1>1, <1>2, <1>4 DEF OrderInv, Bounded
<1>7. RowsInOrder'
  <2>1. ASSUME NEW r \in written', NEW q \in written', r.key = q.key, r.id < q.id
        PROVE  r.n < q.n
    <3>1. r # row
      BY <1>1, <1>2, <1>4, <2>1
    <3>2. r \in written BY <1>1, <3>1
    <3>3. CASE q = row BY <1>4, <2>1, <3>2, <3>3 DEF Earlier
    <3>4. CASE q \in written BY <2>1, <3>2, <3>4 DEF OrderInv, RowsInOrder
    <3> QED BY <1>1, <3>3, <3>4
  <2> QED BY <2>1 DEF RowsInOrder
<1>8. RowsFirst'
  BY <1>1, <1>4 DEF OrderInv, RowsFirst, Earlier
<1>9. InsertingNext'
  BY <1>1 DEF InsertingNext
<1>10. QueueNext'
  BY <1>1 DEF OrderInv, QueueNext, Earlier
<1> QED BY <1>5, <1>6, <1>7, <1>8, <1>9, <1>10 DEF OrderInv

\* An insert that fails loses only what it had taken.
LEMMA OrderInsertFails ==
    ASSUME OrderInv, InsertFails
    PROVE  OrderInv'
<1>1. /\ inserting' = <<>> /\ writer' = "waiting"
      /\ UNCHANGED <<sinking, queue, lastId, accepted, written>>
  BY DEF InsertFails
<1>2. OrderTypes' BY <1>1 DEF OrderInv, OrderTypes
<1>3. Bounded' BY <1>1 DEF OrderInv, Bounded
<1>4. RowsInOrder' BY <1>1 DEF OrderInv, RowsInOrder
<1>5. RowsFirst' BY <1>1 DEF OrderInv, RowsFirst, Earlier
<1>6. InsertingNext' BY <1>1 DEF InsertingNext
<1>7. QueueNext' BY <1>1 DEF OrderInv, QueueNext, Earlier
<1> QED BY <1>2, <1>3, <1>4, <1>5, <1>6, <1>7 DEF OrderInv

\* A process that ends leaves only the rows.
LEMMA OrderEnd ==
    ASSUME OrderInv, End
    PROVE  OrderInv'
<1>1. /\ inserting' = <<>> /\ queue' = <<>> /\ writer' = "gone"
      /\ sinking' = [s \in Servers |-> <<>>]
      /\ UNCHANGED <<lastId, accepted, written>>
  BY DEF End
<1>2. OrderTypes' BY <1>1 DEF OrderInv, OrderTypes
<1>3. Bounded' BY <1>1 DEF OrderInv, Bounded
<1>4. RowsInOrder' BY <1>1 DEF OrderInv, RowsInOrder
<1>5. RowsFirst' BY <1>1 DEF RowsFirst
<1>6. InsertingNext' BY <1>1 DEF InsertingNext
<1>7. QueueNext' BY <1>1 DEF QueueNext
<1> QED BY <1>2, <1>3, <1>4, <1>5, <1>6, <1>7 DEF OrderInv

\* One step per action.
LEMMA OrderNext == OrderInv /\ [PerfNext]_perfVars => OrderInv'
<1> SUFFICES ASSUME OrderInv, [PerfNext]_perfVars PROVE OrderInv'
  OBVIOUS
<1>1. ASSUME NEW s \in Servers, NEW m \in Models, NEW valid \in BOOLEAN,
             NEW verdict \in Verdicts, RecordPerf(s, m, valid, verdict)
      PROVE  OrderInv'
  BY <1>1, OrderRecord
<1>2. ASSUME NEW s \in Servers, Enqueue(s) PROVE OrderInv'
  BY <1>2, OrderEnqueue
<1>3. CASE Receive BY <1>3, OrderReceive
<1>4. CASE Insert BY <1>4, OrderInsert
<1>5. CASE InsertFails BY <1>5, OrderInsertFails
<1>6. CASE WriterReturns BY <1>6, OrderUntouched DEF WriterReturns
<1>7. CASE Maintain BY <1>7, OrderUntouched DEF Maintain
<1>8. ASSUME NEW trims \in BOOLEAN, NEW loads \in BOOLEAN, Start(trims, loads)
      PROVE  OrderInv'
  BY <1>8, OrderUntouched DEF Start
<1>9. CASE Stop BY <1>9, OrderUntouched DEF Stop
<1>10. CASE Exit BY <1>10, OrderEnd DEF Exit
<1>11. CASE Kill BY <1>11, OrderEnd DEF Kill
<1>12. CASE UNCHANGED perfVars BY <1>12, OrderUntouched DEF perfVars
<1> QED
  BY <1>1, <1>2, <1>3, <1>4, <1>5, <1>6, <1>7, <1>8, <1>9, <1>10, <1>11, <1>12
  DEF PerfNext

\* For any number of servers, models, observations, faults and restarts and any
\* capacity of window and queue, the rows of perf_observations of a key are in
\* the order of the measurements and none is written twice, although Record
\* calls the sink after its unlock and the queue drops what it cannot hold.
THEOREM TableKeepsOrder == PerfSpec => []RowsInOrder
<1>1. PerfInit => OrderInv BY OrderInit
<1>2. OrderInv /\ [PerfNext]_perfVars => OrderInv' BY OrderNext
<1>3. OrderInv => RowsInOrder BY DEF OrderInv
<1> QED BY <1>1, <1>2, <1>3, PTL DEF PerfSpec

-----------------------------------------------------------------------------
(* What the trim leaves.                                                    *)

Rows == [id : Nat, key : Keys, n : Nat]

\* Of numbers with a bound one is the greatest.
LEMMA GreatestExists ==
    ASSUME NEW I \in SUBSET Nat, I # {}, NEW b \in Nat, \A i \in I : i <= b
    PROVE  \E g \in I : \A i \in I : i <= g
<1> DEFINE R == {p \in Nat \X Nat : p[1] < p[2]}
           J == {b - i : i \in I}
<1>1. IsWellFoundedOn(R, Nat)
  BY NatLessThanWellFounded DEF OpToRel
<1>2. \A x, y \in Nat : <<y, x>> \in R <=> y < x
  OBVIOUS
<1>3. J \subseteq Nat /\ J # {}
  OBVIOUS
<1> HIDE DEF R
<1>4. PICK x \in J : \A y \in J : ~(<<y, x>> \in R)
  BY <1>1, <1>3, WFMin
<1> USE DEF J
<1>5. PICK g \in I : x = b - g
  BY <1>4
<1>6. ASSUME NEW i \in I
      PROVE  i <= g
  <2>1. b - i \in Nat /\ x \in Nat /\ i \in Nat /\ g \in Nat
    BY <1>3, <1>4, <1>6
  <2>2. ~(b - i < x)
    BY <1>2, <1>4, <1>6, <2>1
  <2> QED
    BY <1>5, <2>1, <2>2
<1> QED
  BY <1>6

\* Trim never counts a row as old because of rows that go with it: a row with
\* WindowCap newer ones of its key before the trim has as many after it.
LEMMA TrimKeepsNewest ==
    ASSUME NEW T \in SUBSET Rows, IsFiniteSet(T), NEW b \in Nat,
           \A q \in T : q.id <= b, NEW r \in Rows,
           Cardinality({q \in T : q.key = r.key /\ q.id > r.id}) >= WindowCap
    PROVE  Cardinality({q \in Trimmed(T) : q.key = r.key /\ q.id > r.id}) >= WindowCap
<1> DEFINE Above(S, x) == {q \in S : q.key = x.key /\ q.id > x.id}
           D == Above(T, r) \ Trimmed(T)
<1>0. WindowCap \in Nat
  BY PerfAssumption
<1>1. /\ Trimmed(T) \subseteq T
      /\ \A x \in T : x \notin Trimmed(T) => ~(Cardinality(Above(T, x)) < WindowCap)
  BY DEF Trimmed
<1>2. \A q \in Rows : q.id \in Nat
  BY DEF Rows
<1>3. \A S \in SUBSET T : IsFiniteSet(S) /\ Cardinality(S) \in Nat
  BY FS_Subset, FS_CardinalityType
<1>4. CASE D = {}
  <2>1. Above(Trimmed(T), r) = Above(T, r)
    BY <1>1, <1>4
  <2> QED
    BY <2>1
<1>5. CASE D # {}
  <2>1. PICK I : I = {q.id : q \in D}
    OBVIOUS
  <2>2. I \in SUBSET Nat /\ I # {} /\ \A i \in I : i <= b
    BY <1>2, <1>5, <2>1
  <2>3. PICK g \in I : \A i \in I : i <= g
    BY <2>2, GreatestExists
  <2>4. PICK d \in D : d.id = g
    BY <2>1, <2>3
  <2>5. \A q \in D : q.id <= d.id
    BY <2>1, <2>3, <2>4
  <2>6. /\ d \in T /\ d \notin Trimmed(T) /\ d.key = r.key /\ d.id > r.id
    BY <2>4
  <2>7. ~(Cardinality(Above(T, d)) < WindowCap)
    BY <1>1, <2>6
  <2>8. Above(T, d) \subseteq Above(Trimmed(T), r)
    <3> SUFFICES ASSUME NEW q \in T, q.key = d.key, q.id > d.id
                 PROVE  q \in Trimmed(T) /\ q.key = r.key /\ q.id > r.id
      OBVIOUS
    <3>1. q.id \in Nat /\ d.id \in Nat /\ r.id \in Nat
      BY <1>2, <2>6
    <3>2. q.key = r.key /\ q.id > r.id
      BY <2>6, <3>1
    <3>3. q \notin D
      BY <2>5, <3>1
    <3> QED
      BY <3>2, <3>3
  <2>9. Above(Trimmed(T), r) \in SUBSET T /\ Above(T, d) \in SUBSET T
    BY <1>1
  <2> HIDE DEF Above, D
  <2>10. Cardinality(Above(T, d)) <= Cardinality(Above(Trimmed(T), r))
    BY <1>3, <2>8, <2>9, FS_Subset
  <2>11. Cardinality(Above(Trimmed(T), r)) >= WindowCap
    BY <1>0, <1>3, <2>7, <2>9, <2>10
  <2> QED
    BY <2>11 DEF Above
<1> QED
  BY <1>4, <1>5

\* The table is what is left of what was written, and an id names one row.
TableInv ==
    /\ table \subseteq written
    /\ IsFiniteSet(written)
    /\ \A r, q \in written : r.id = q.id => r = q
    /\ NewestKept

LEMMA TableTrims ==
    ASSUME OrderInv, TableInv, written' = written,
           table' = table \/ table' = Trimmed(table)
    PROVE  TableInv'
<1>1. CASE table' = table
  BY <1>1 DEF TableInv, NewestKept
<1>2. CASE table' = Trimmed(table)
  <2>1. /\ table \in SUBSET Rows /\ written \subseteq Rows /\ IsFiniteSet(table)
        /\ lastId \in Nat /\ \A q \in table : q.id <= lastId
    BY FS_Subset DEF TableInv, OrderInv, OrderTypes, Bounded, Rows
  <2>2. Trimmed(table) \subseteq table
    BY DEF Trimmed
  <2>3. ASSUME NEW r \in written \ Trimmed(table)
        PROVE  Cardinality({q \in Trimmed(table) : q.key = r.key /\ q.id > r.id})
                  >= WindowCap
    <3>1. Cardinality({q \in table : q.key = r.key /\ q.id > r.id}) >= WindowCap
      <4>1. CASE r \notin table
        BY <2>3, <4>1 DEF TableInv, NewestKept
      <4>2. CASE r \in table
        <5>1. ~(Cardinality({q \in table : q.key = r.key /\ q.id > r.id}) < WindowCap)
          BY <2>3, <4>2 DEF Trimmed
        <5>2. Cardinality({q \in table : q.key = r.key /\ q.id > r.id}) \in Nat
          BY <2>1, FS_Subset, FS_CardinalityType
        <5> QED
          BY <5>1, <5>2, PerfAssumption
      <4> QED
        BY <4>1, <4>2
    <3> QED
      BY <2>1, <3>1, TrimKeepsNewest
  <2>4. NewestKept'
    BY <1>2, <2>3 DEF NewestKept
  <2> QED
    BY <1>2, <2>2, <2>4 DEF TableInv
<1> QED
  BY <1>1, <1>2

LEMMA TableGrows ==
    ASSUME OrderInv, TableInv, Insert
    PROVE  TableInv'
<1> DEFINE row == [id |-> lastId + 1, key |-> inserting[1].key, n |-> inserting[1].n]
<1>1. table' = table \cup {row} /\ written' = written \cup {row}
  BY DEF Insert
<1>2. /\ lastId \in Nat /\ row.id = lastId + 1
      /\ \A r \in written : r.id \in Nat /\ r.id <= lastId
  BY DEF OrderInv, OrderTypes, Bounded
<1> HIDE DEF row
<1>3. \A r, q \in written' : r.id = q.id => r = q
  BY <1>1, <1>2 DEF TableInv
<1>4. IsFiniteSet(written') /\ IsFiniteSet(table')
  <2>1. IsFiniteSet(written) /\ IsFiniteSet(table)
    BY FS_Subset DEF TableInv
  <2> QED
    BY <1>1, <2>1, FS_AddElement
<1>5. ASSUME NEW r \in written' \ table'
      PROVE  Cardinality({q \in table' : q.key = r.key /\ q.id > r.id}) >= WindowCap
  <2> DEFINE A == {q \in table : q.key = r.key /\ q.id > r.id}
             B == {q \in table' : q.key = r.key /\ q.id > r.id}
  <2>1. r \in written \ table
    BY <1>1
  <2>2. Cardinality(A) >= WindowCap
    BY <2>1 DEF TableInv, NewestKept
  <2>3. A \subseteq B /\ B \subseteq table'
    BY <1>1
  <2> HIDE DEF A, B
  <2>4. IsFiniteSet(B)
    BY <1>4, <2>3, FS_Subset
  <2>5. Cardinality(A) <= Cardinality(B) /\ Cardinality(B) \in Nat
        /\ Cardinality(A) \in Nat
    BY <2>3, <2>4, FS_Subset, FS_CardinalityType
  <2>6. Cardinality(B) >= WindowCap
    BY <2>2, <2>5, PerfAssumption
  <2> QED
    BY <2>6 DEF B
<1> QED
  BY <1>1, <1>3, <1>4, <1>5 DEF TableInv, NewestKept

LEMMA TableNext ==
    ASSUME OrderInv, TableInv, [PerfNext]_perfVars
    PROVE  TableInv'
<1>1. CASE Insert
  BY <1>1, TableGrows
<1>2. ASSUME NEW trims \in BOOLEAN, NEW loads \in BOOLEAN, Start(trims, loads)
      PROVE  TableInv'
  BY <1>2, TableTrims DEF Start
<1>3. CASE Maintain
  BY <1>3, TableTrims DEF Maintain
<1>4. CASE UNCHANGED <<table, written>>
  BY <1>4, TableTrims
<1> QED
  BY <1>1, <1>2, <1>3, <1>4
  DEF PerfNext, perfVars, RecordPerf, Enqueue, Receive, InsertFails, WriterReturns,
      Stop, Exit, Kill, End

LEMMA TableInit == PerfInit => TableInv
BY FS_EmptySet DEF PerfInit, TableInv, NewestKept

\* For any number of observations, restarts and trims, and any capacity of the
\* window: a row that is not in perf_observations any more had WindowCap newer
\* rows of its key when it went, and it still has them there, although each
\* trim counts the rows as they are and not as they were written.
THEOREM NewestRowsStay == PerfSpec => []NewestKept
<1>1. PerfInit => OrderInv /\ TableInv
  BY OrderInit, TableInit
<1>2. OrderInv /\ TableInv /\ [PerfNext]_perfVars => (OrderInv /\ TableInv)'
  BY OrderNext, TableNext
<1>3. TableInv => NewestKept
  BY DEF TableInv
<1> QED
  BY <1>1, <1>2, <1>3, PTL DEF PerfSpec

-----------------------------------------------------------------------------
(* What a window holds.                                                     *)

Increasing(w) == \A i, j \in 1..Len(w) : i < j => w[i] < w[j]

\* The observation n is in the window w, or older than all of a full window.
Covers(w, n) ==
    \/ \E i \in 1..Len(w) : w[i] = n
    \/ Len(w) = WindowCap /\ n < w[1]

LEMMA NewestFacts ==
    ASSUME NEW w \in Seq(Nat), Increasing(w)
    PROVE  /\ Newest(w) \in Seq(Nat) /\ Len(Newest(w)) <= WindowCap
           /\ Increasing(Newest(w))
           /\ \A i \in 1..Len(Newest(w)) : \E j \in 1..Len(w) : Newest(w)[i] = w[j]
           /\ \A i \in 1..Len(w) : Covers(Newest(w), w[i])
<1>0. WindowCap \in Nat \ {0} /\ Len(w) \in Nat /\ \A i \in 1..Len(w) : w[i] \in Nat
  BY PerfAssumption
<1>1. CASE Len(w) <= WindowCap
  <2>1. Newest(w) = w
    BY <1>0, <1>1 DEF Newest
  <2> QED
    BY <1>0, <1>1, <2>1 DEF Covers
<1>2. CASE Len(w) > WindowCap
  <2>0. \A c, l \in Nat : l > c /\ c > 0 =>
           l - c \in Nat /\ l - c > 0 /\ l - c < l /\ l - (l - c + 1) + 1 = c
             /\ l - c + 1 <= l
    OBVIOUS
  <2>1. PICK d : d = Len(w) - WindowCap
    OBVIOUS
  <2>2. /\ d \in Nat /\ d > 0 /\ d < Len(w) /\ d + 1 <= Len(w)
        /\ Len(w) - (d + 1) + 1 = WindowCap
    BY <1>0, <1>2, <2>0, <2>1
  <2>3. PICK v : v = SubSeq(w, d + 1, Len(w))
    OBVIOUS
  <2>4. Newest(w) = v
    BY <1>0, <1>2, <2>1, <2>3 DEF Newest
  <2>a. \A i \in d + 1 .. Len(w) : w[i] \in Nat
    BY <1>0, <2>2
  <2>b. /\ SubSeq(w, d + 1, Len(w)) \in Seq(Nat)
        /\ Len(SubSeq(w, d + 1, Len(w)))
             = IF d + 1 <= Len(w) THEN Len(w) - (d + 1) + 1 ELSE 0
        /\ \A i \in 1 .. Len(w) - (d + 1) + 1 :
             SubSeq(w, d + 1, Len(w))[i] = w[(d + 1) + i - 1]
    BY <1>0, <2>2, <2>a, SubSeqProperties
  <2>c. /\ Len(v) = WindowCap /\ v \in Seq(Nat)
        /\ \A i \in 1..WindowCap : v[i] = w[(d + 1) + i - 1]
    BY <2>2, <2>3, <2>b
  <2>d. \A i \in 1..WindowCap : (d + 1) + i - 1 = d + i
    BY <1>0, <2>2
  <2>e. \A i \in 1..WindowCap : v[i] = w[d + i]
    BY <2>c, <2>d
  <2>5. \A i \in 1..WindowCap : d + i \in 1..Len(w)
    <3>1. Len(w) = d + WindowCap
      BY <1>0, <2>1
    <3> QED
      BY <1>0, <2>2, <3>1
  <2>6. Increasing(v)
    <3> SUFFICES ASSUME NEW i \in 1..WindowCap, NEW j \in 1..WindowCap, i < j
                 PROVE  v[i] < v[j]
      BY <2>c DEF Increasing
    <3>1. d + i \in 1..Len(w) /\ d + j \in 1..Len(w) /\ d + i < d + j
      BY <1>0, <2>2, <2>5
    <3>2. w[d + i] < w[d + j]
      BY <3>1 DEF Increasing
    <3> QED
      BY <2>e, <3>2
  <2>7. ASSUME NEW i \in 1..Len(w)
        PROVE  Covers(v, w[i])
    <3>1. CASE i > d
      <4>1. i - d \in 1..WindowCap /\ d + (i - d) = i
        BY <1>0, <2>1, <2>2, <3>1
      <4>2. v[i - d] = w[i]
        BY <2>e, <4>1
      <4> QED
        BY <2>c, <4>1, <4>2 DEF Covers
    <3>2. CASE i <= d
      <4>1. i < d + 1 /\ d + 1 \in 1..Len(w) /\ 1 \in 1..WindowCap
        BY <1>0, <2>2, <3>2
      <4>2. w[i] < w[d + 1] /\ v[1] = w[d + 1]
        BY <2>e, <4>1 DEF Increasing
      <4> QED
        BY <2>c, <4>2 DEF Covers
    <3> QED
      BY <2>2, <3>1, <3>2
  <2>8. Len(v) <= WindowCap
    BY <1>0, <2>c
  <2>9. \A i \in 1..Len(v) : \E j \in 1..Len(w) : v[i] = w[j]
    BY <2>c, <2>e, <2>5
  <2> QED
    BY <2>4, <2>c, <2>6, <2>7, <2>8, <2>9
<1> QED
  BY <1>0, <1>1, <1>2

\* Record: the newest observation enters, and what the window held or had
\* already let go stays held or let go.
LEMMA RecordedWindow ==
    ASSUME NEW w \in Seq(Nat), Increasing(w), Len(w) <= WindowCap,
           NEW n \in Nat, \A i \in 1..Len(w) : w[i] < n
    PROVE  /\ Newest(Append(w, n)) \in Seq(Nat)
           /\ Len(Newest(Append(w, n))) <= WindowCap
           /\ Increasing(Newest(Append(w, n)))
           /\ \A i \in 1..Len(Newest(Append(w, n))) : Newest(Append(w, n))[i] <= n
           /\ Covers(Newest(Append(w, n)), n)
           /\ \A x \in Nat : Covers(w, x) => Covers(Newest(Append(w, n)), x)
<1>0. WindowCap \in Nat \ {0} /\ Len(w) \in Nat /\ \A i \in 1..Len(w) : w[i] \in Nat
  BY PerfAssumption
<1>1. PICK u : u = Append(w, n)
  OBVIOUS
<1>2. /\ u \in Seq(Nat) /\ Len(u) = Len(w) + 1 /\ u[Len(w) + 1] = n
      /\ \A i \in 1..Len(w) : u[i] = w[i]
  BY <1>0, <1>1
<1>a. \A i \in 1..Len(u) : i \in 1..Len(w) \/ i = Len(w) + 1
  BY <1>0, <1>2
<1>3. Increasing(u) /\ \A i \in 1..Len(u) : u[i] <= n
  <2>1. ASSUME NEW i \in 1..Len(u), NEW j \in 1..Len(u), i < j
        PROVE  u[i] < u[j]
    <3>1. i \in 1..Len(w)
      BY <1>0, <1>2, <2>1
    <3>2. CASE j \in 1..Len(w)
      BY <1>2, <2>1, <3>1, <3>2 DEF Increasing
    <3>3. CASE j = Len(w) + 1
      BY <1>2, <3>1, <3>3
    <3> QED
      BY <1>a, <3>2, <3>3
  <2>2. ASSUME NEW i \in 1..Len(u)
        PROVE  u[i] <= n
    <3>1. CASE i \in 1..Len(w)
      <4>1. u[i] = w[i] /\ w[i] \in Nat /\ w[i] < n
        BY <1>0, <1>2, <3>1
      <4> QED
        BY <4>1
    <3>2. CASE i = Len(w) + 1
      BY <1>2, <3>2
    <3> QED
      BY <1>a, <3>1, <3>2
  <2> QED
    BY <2>1, <2>2 DEF Increasing
<1>4. PICK v : v = Newest(u)
  OBVIOUS
<1>5. /\ v \in Seq(Nat) /\ Len(v) <= WindowCap /\ Increasing(v)
      /\ \A i \in 1..Len(v) : \E j \in 1..Len(u) : v[i] = u[j]
      /\ \A i \in 1..Len(u) : Covers(v, u[i])
  BY <1>2, <1>3, <1>4, NewestFacts
<1>6. \A i \in 1..Len(v) : v[i] <= n
  BY <1>3, <1>5
<1>7. Covers(v, n)
  <2>1. Len(w) + 1 \in 1..Len(u)
    BY <1>0, <1>2
  <2> QED
    BY <1>2, <1>5, <2>1
<1>8. ASSUME NEW x \in Nat, Covers(w, x)
      PROVE  Covers(v, x)
  <2>1. CASE \E i \in 1..Len(w) : w[i] = x
    <3>1. PICK i \in 1..Len(w) : w[i] = x
      BY <2>1
    <3>2. i \in 1..Len(u) /\ u[i] = x
      BY <1>0, <1>2, <3>1
    <3> QED
      BY <1>5, <3>2
  <2>2. CASE Len(w) = WindowCap /\ x < w[1]
    <3>1. v = SubSeq(u, 2, WindowCap + 1)
      BY <1>0, <1>2, <1>4, <2>2 DEF Newest
    <3>2. Len(v) = WindowCap /\ v[1] = u[2]
      BY <1>0, <1>2, <2>2, <3>1
    <3>3. u[1] = w[1] /\ u[1] < u[2] /\ u[2] \in Nat /\ w[1] \in Nat
      BY <1>0, <1>2, <1>3, <2>2 DEF Increasing
    <3> QED
      BY <2>2, <3>2, <3>3 DEF Covers
  <2> QED
    BY <1>8, <2>1, <2>2 DEF Covers
<1> QED
  BY <1>1, <1>4, <1>5, <1>6, <1>7, <1>8

\* LoadAll gives the observations of a key, all of them, in the order of the
\* ids.
LEMMA LoadAllFacts ==
    ASSUME NEW T \in SUBSET Rows, IsFiniteSet(T), NEW k \in Keys,
           \A r, q \in T : r.id = q.id => r = q,
           \A r, q \in T : (r.key = q.key /\ r.id < q.id) => r.n < q.n
    PROVE  /\ LoadAll(T, k) \in Seq(Nat) /\ Increasing(LoadAll(T, k))
           /\ \A i \in 1..Len(LoadAll(T, k)) : \E r \in T : LoadAll(T, k)[i] = r.n
           /\ \A r \in T : r.key = k =>
                 \E i \in 1..Len(LoadAll(T, k)) : LoadAll(T, k)[i] = r.n
<1>1. PICK mine : mine = {r \in T : r.key = k}
  OBVIOUS
<1>2. /\ mine \subseteq T /\ IsFiniteSet(mine)
      /\ \A r \in mine : r.id \in Nat /\ r.n \in Nat
  BY <1>1, FS_Subset DEF Rows
<1>3. PICK N \in Nat : N = Cardinality(mine)
  BY <1>2, FS_CardinalityType
<1>4. PICK place : place = [r \in mine |-> Cardinality({q \in mine : q.id <= r.id})]
  OBVIOUS
<1>5. \A S \in SUBSET mine : IsFiniteSet(S) /\ Cardinality(S) \in Nat
                             /\ Cardinality(S) <= N
  BY <1>2, <1>3, FS_Subset, FS_CardinalityType
<1>6. ASSUME NEW r \in mine
      PROVE  place[r] \in 1..N
  <2>1. PICK S : S = {q \in mine : q.id <= r.id}
    OBVIOUS
  <2>2. S \in SUBSET mine /\ r \in S
    BY <1>2, <2>1
  <2>3. Cardinality(S) # 0
    BY <1>5, <2>2, FS_EmptySet
  <2>4. place[r] = Cardinality(S)
    BY <1>4, <2>1
  <2> QED
    BY <1>5, <2>2, <2>3, <2>4
<1>7. ASSUME NEW r \in mine, NEW q \in mine, r.id < q.id
      PROVE  place[r] < place[q]
  <2>1. PICK S : S = {x \in mine : x.id <= r.id}
    OBVIOUS
  <2>2. PICK U : U = {x \in mine : x.id <= q.id}
    OBVIOUS
  <2>3. S \in SUBSET U /\ U \in SUBSET mine /\ q \in U /\ q \notin S
    BY <1>2, <1>7, <2>1, <2>2
  <2>4. Cardinality(S) <= Cardinality(U) /\ Cardinality(S) # Cardinality(U)
    <3>1. S # U
      BY <2>3
    <3> QED
      BY <1>5, <2>3, <3>1, FS_Subset
  <2>5. place[r] = Cardinality(S) /\ place[q] = Cardinality(U)
    BY <1>4, <2>1, <2>2
  <2> QED
    BY <1>5, <2>3, <2>4, <2>5
<1>8. \A r, q \in mine : place[r] = place[q] => r = q
  <2> SUFFICES ASSUME NEW r \in mine, NEW q \in mine, place[r] = place[q]
               PROVE  r.id = q.id
    BY <1>2
  <2>1. place[r] \in Nat /\ place[q] \in Nat /\ r.id \in Nat /\ q.id \in Nat
    BY <1>2, <1>3, <1>6
  <2>2. ~(r.id < q.id) /\ ~(q.id < r.id)
    BY <1>7, <2>1
  <2> QED
    BY <2>1, <2>2
<1>9. ASSUME NEW i \in 1..N
      PROVE  \E r \in mine : place[r] = i
  <2> SUFFICES ASSUME \A r \in mine : place[r] # i
               PROVE  FALSE
    OBVIOUS
  <2>1. PICK U : U = (1..N) \ {i}
    OBVIOUS
  <2>2. IsFiniteSet(1..N) /\ Cardinality(1..N) = N
    BY <1>3, <1>9, FS_Interval
  <2>3. IsFiniteSet(U) /\ Cardinality(U) = N - 1
    BY <2>1, <2>2, FS_RemoveElement
  <2>4. place \in [mine -> U]
    BY <1>4, <1>6, <2>1
  <2>5. Cardinality(U) < Cardinality(mine)
    BY <1>3, <2>3
  <2>6. \E r, q \in mine : r # q /\ place[r] = place[q]
    BY <1>2, <2>3, <2>4, <2>5, FS_PigeonHole
  <2> QED
    BY <1>8, <2>6
<1>10. PICK w : w = LoadAll(T, k)
  OBVIOUS
<1>11. /\ w = [i \in 1..N |-> w[i]]
       /\ \A i \in 1..N : w[i] = (CHOOSE r \in mine : place[r] = i).n
  <2>1. w = [i \in 1..Cardinality(mine) |->
               (CHOOSE r \in mine : Cardinality({q \in mine : q.id <= r.id}) = i).n]
    BY <1>1, <1>10 DEF LoadAll
  <2>2. \A i \in 1..N :
           w[i] = (CHOOSE r \in mine : Cardinality({q \in mine : q.id <= r.id}) = i).n
    BY <1>3, <2>1
  <2>3. w = [i \in 1..N |-> w[i]]
    BY <1>3, <2>1
  <2>4. ASSUME NEW i \in 1..N
        PROVE  (CHOOSE r \in mine : Cardinality({q \in mine : q.id <= r.id}) = i)
                 = (CHOOSE r \in mine : place[r] = i)
    BY <1>4
  <2>5. ASSUME NEW i \in 1..N
        PROVE  w[i] = (CHOOSE r \in mine : place[r] = i).n
    BY <2>2, <2>4
  <2> QED
    BY <2>3, <2>5
<1>12. ASSUME NEW i \in 1..N
       PROVE  \E r \in mine : place[r] = i /\ w[i] = r.n
  <2>1. PICK c : c = (CHOOSE r \in mine : place[r] = i)
    OBVIOUS
  <2>2. c \in mine /\ place[c] = i
    BY <1>9, <2>1
  <2>3. w[i] = c.n
    BY <1>11, <2>1
  <2> QED
    BY <2>2, <2>3
<1>13. w \in Seq(Nat) /\ Len(w) = N
  <2>1. \A i \in 1..N : w[i] \in Nat
    BY <1>2, <1>12
  <2>2. w = [i \in 1..N |-> w[i]]
    BY <1>11
  <2> QED
    BY <1>3, <2>1, <2>2
<1>14. ASSUME NEW i \in 1..N, NEW j \in 1..N, i < j
       PROVE  w[i] < w[j]
  <2>1. PICK r \in mine : place[r] = i /\ w[i] = r.n
    BY <1>12
  <2>2. PICK q \in mine : place[q] = j /\ w[j] = q.n
    BY <1>12
  <2>3. r.id \in Nat /\ q.id \in Nat
    BY <1>2
  <2>4. ~(q.id < r.id) /\ q.id # r.id
    BY <1>2, <1>7, <1>14, <2>1, <2>2
  <2>5. r.id < q.id /\ r.key = q.key
    BY <1>1, <2>3, <2>4
  <2> QED
    BY <1>2, <2>1, <2>2, <2>5
<1>15. ASSUME NEW r \in T, r.key = k
       PROVE  \E i \in 1..N : w[i] = r.n
  <2>1. r \in mine /\ place[r] \in 1..N
    BY <1>1, <1>6, <1>15
  <2>2. PICK q \in mine : place[q] = place[r] /\ w[place[r]] = q.n
    BY <1>12, <2>1
  <2>3. q = r
    BY <1>8, <2>1, <2>2
  <2> QED
    BY <2>1, <2>2, <2>3
<1>16. Increasing(w)
  BY <1>13, <1>14 DEF Increasing
<1>17. \A i \in 1..Len(w) : \E r \in T : w[i] = r.n
  BY <1>2, <1>12, <1>13
<1> QED
  BY <1>10, <1>13, <1>15, <1>16, <1>17

\* A window is in the order of the measurements and within its capacity.
WindowTypes ==
    /\ bySlot \in [Keys -> Seq(Nat)]
    /\ \A k \in Keys :
         /\ Len(bySlot[k]) <= WindowCap /\ Increasing(bySlot[k])
         /\ \A i \in 1..Len(bySlot[k]) : bySlot[k][i] <= accepted

\* Nothing is under way in a process that does not run.
DownInv ==
    ~up => /\ writer = "gone" /\ inserting = <<>> /\ queue = <<>>
           /\ \A s \in Servers : sinking[s] = <<>>

\* The tracker knows the observation o.
Known(o) == Covers(bySlot[o.key], o.n)

\* What the table holds now, and what it will hold when the writer has caught
\* up, is known to the tracker.
CoverInv ==
    (up /\ restored) =>
        /\ \A r \in table : Known(r)
        /\ \A i \in 1..Len(inserting) : Known(inserting[i])
        /\ \A i \in 1..Len(queue) : Known(queue[i])
        /\ \A s \in Servers : \A i \in 1..Len(sinking[s]) : Known(sinking[s][i])

WindowInv == WindowTypes /\ DownInv /\ CoverInv

LEMMA WindowInit == PerfInit => WindowInv
<1> SUFFICES ASSUME PerfInit
             PROVE  WindowInv
  OBVIOUS
<1>1. <<>> \in Seq(Nat) /\ Len(<<>>) = 0 /\ WindowCap \in Nat
  BY PerfAssumption
<1> QED
  BY <1>1 DEF PerfInit, WindowInv, WindowTypes, DownInv, CoverInv, Increasing

\* Whatever is under way or written is the observation of a key.
LEMMA KeysOfAll ==
    ASSUME OrderInv, TableInv
    PROVE  /\ \A r \in table : r.key \in Keys /\ r.n \in Nat
           /\ \A i \in 1..Len(inserting) : inserting[i].key \in Keys /\ inserting[i].n \in Nat
           /\ \A i \in 1..Len(queue) : queue[i].key \in Keys /\ queue[i].n \in Nat
           /\ \A s \in Servers : \A i \in 1..Len(sinking[s]) :
                 sinking[s][i].key \in Keys /\ sinking[s][i].n \in Nat
<1>1. ASSUME NEW q \in Seq(Measured), NEW i \in 1..Len(q)
      PROVE  q[i].key \in Keys /\ q[i].n \in Nat
  <2>1. q[i] \in Measured
    OBVIOUS
  <2> QED
    BY <2>1 DEF Measured
<1> QED
  BY <1>1 DEF OrderInv, OrderTypes, TableInv

LEMMA WindowRecord ==
    ASSUME OrderInv, TableInv, WindowInv, NEW s \in Servers, NEW m \in Models,
           NEW valid \in BOOLEAN, NEW verdict \in Verdicts,
           RecordPerf(s, m, valid, verdict)
    PROVE  WindowInv'
<1>1. CASE ~valid
  BY <1>1 DEF RecordPerf, Record, WindowInv, WindowTypes, DownInv, CoverInv, Known
<1>2. CASE valid
  <2>1. PICK k \in Keys : k = <<s, m>>
    BY DEF Keys
  <2>2. PICK n : n = accepted + 1
    OBVIOUS
  <2>3. PICK w : w = bySlot[k]
    OBVIOUS
  <2>4. PICK v : v = Newest(Append(w, n))
    OBVIOUS
  <2>5. /\ up /\ accepted' = n /\ bySlot' = [bySlot EXCEPT ![k] = v]
        /\ sinking' = [sinking EXCEPT ![s] = <<[key |-> k, n |-> n]>>]
        /\ UNCHANGED <<up, writer, inserting, queue, table, restored>>
    BY <1>2, <2>1, <2>2, <2>3, <2>4 DEF RecordPerf, Record
  <2>6. /\ accepted \in Nat /\ n \in Nat /\ bySlot \in [Keys -> Seq(Nat)]
        /\ w \in Seq(Nat) /\ Increasing(w) /\ Len(w) <= WindowCap
        /\ \A i \in 1..Len(w) : w[i] \in Nat /\ w[i] < n
    <3>1. accepted \in Nat /\ bySlot \in [Keys -> Seq(Nat)]
      BY DEF OrderInv, OrderTypes, WindowInv, WindowTypes
    <3>2. w \in Seq(Nat) /\ \A i \in 1..Len(w) : w[i] \in Nat /\ w[i] <= accepted
      BY <2>3, <3>1 DEF WindowInv, WindowTypes
    <3>3. \A x, a \in Nat : x <= a => x < a + 1
      OBVIOUS
    <3> QED
      BY <2>2, <2>3, <3>1, <3>2, <3>3 DEF WindowInv, WindowTypes
  <2>7. /\ v \in Seq(Nat) /\ Len(v) <= WindowCap /\ Increasing(v)
        /\ \A i \in 1..Len(v) : v[i] <= n
        /\ Covers(v, n)
        /\ \A x \in Nat : Covers(w, x) => Covers(v, x)
    BY <2>4, <2>6, RecordedWindow
  <2>8. bySlot'[k] = v /\ \A l \in Keys \ {k} : bySlot'[l] = bySlot[l]
    BY <2>5, <2>6
  <2>9. WindowTypes'
    <3>1. bySlot' \in [Keys -> Seq(Nat)]
      BY <2>5, <2>6, <2>7
    <3>2. ASSUME NEW l \in Keys
          PROVE  /\ Len(bySlot'[l]) <= WindowCap /\ Increasing(bySlot'[l])
                 /\ \A i \in 1..Len(bySlot'[l]) : bySlot'[l][i] <= n
      <4>1. CASE l = k
        BY <2>7, <2>8, <4>1
      <4>2. CASE l # k
        <5>1. bySlot'[l] = bySlot[l] /\ bySlot[l] \in Seq(Nat)
          BY <2>6, <2>8, <4>2
        <5>2. \A i \in 1..Len(bySlot[l]) : bySlot[l][i] \in Nat /\ bySlot[l][i] <= accepted
          BY <5>1 DEF WindowInv, WindowTypes
        <5>3. \A x, a \in Nat : x <= a => x <= a + 1
          OBVIOUS
        <5> QED
          BY <2>2, <2>6, <5>1, <5>2, <5>3 DEF WindowInv, WindowTypes
      <4> QED
        BY <4>1, <4>2
    <3> QED
      BY <2>5, <3>1, <3>2 DEF WindowTypes, Increasing
  <2>10. DownInv'
    BY <2>5 DEF DownInv
  <2>11. ASSUME NEW o, o.key \in Keys, o.n \in Nat, Known(o)
         PROVE  Covers(bySlot'[o.key], o.n)
    BY <2>3, <2>7, <2>8, <2>11 DEF Known
  <2>12. CoverInv'
    <3> SUFFICES ASSUME restored
                 PROVE  /\ \A r \in table : Covers(bySlot'[r.key], r.n)
                        /\ \A i \in 1..Len(inserting) :
                              Covers(bySlot'[inserting[i].key], inserting[i].n)
                        /\ \A i \in 1..Len(queue) :
                              Covers(bySlot'[queue[i].key], queue[i].n)
                        /\ \A t \in Servers : \A i \in 1..Len(sinking'[t]) :
                              Covers(bySlot'[sinking'[t][i].key], sinking'[t][i].n)
      BY <2>5 DEF CoverInv, Known, Covers
    <3>1. /\ \A r \in table : Known(r)
          /\ \A i \in 1..Len(inserting) : Known(inserting[i])
          /\ \A i \in 1..Len(queue) : Known(queue[i])
          /\ \A t \in Servers : \A i \in 1..Len(sinking[t]) : Known(sinking[t][i])
      BY <2>5 DEF WindowInv, CoverInv
    <3>2. /\ \A r \in table : r.key \in Keys /\ r.n \in Nat
          /\ \A i \in 1..Len(inserting) : inserting[i].key \in Keys /\ inserting[i].n \in Nat
          /\ \A i \in 1..Len(queue) : queue[i].key \in Keys /\ queue[i].n \in Nat
          /\ \A t \in Servers : \A i \in 1..Len(sinking[t]) :
                sinking[t][i].key \in Keys /\ sinking[t][i].n \in Nat
      BY KeysOfAll
    <3>3. ASSUME NEW t \in Servers, NEW i \in 1..Len(sinking'[t])
          PROVE  Covers(bySlot'[sinking'[t][i].key], sinking'[t][i].n)
      <4>1. CASE t = s
        <5>1. sinking'[s] = <<[key |-> k, n |-> n]>>
          BY <2>5 DEF OrderInv, OrderTypes
        <5>2. i = 1 /\ sinking'[s][i].key = k /\ sinking'[s][i].n = n
          BY <3>3, <4>1, <5>1
        <5> QED
          BY <2>7, <2>8, <4>1, <5>2
      <4>2. CASE t # s
        <5>1. sinking'[t] = sinking[t]
          BY <2>5, <4>2 DEF OrderInv, OrderTypes
        <5> QED
          BY <2>11, <3>1, <3>2, <3>3, <5>1
      <4> QED
        BY <4>1, <4>2
    <3> QED
      BY <2>11, <3>1, <3>2, <3>3
  <2> QED
    BY <2>9, <2>10, <2>12 DEF WindowInv
<1> QED
  BY <1>1, <1>2

\* An observation on its way to the table keeps its number and its key.
LEMMA WindowPassesOn ==
    ASSUME OrderInv, TableInv, WindowInv,
           \/ \E s \in Servers : Enqueue(s)
           \/ Receive \/ Insert \/ InsertFails \/ WriterReturns
    PROVE  WindowInv'
<1>0. up
  BY DEF WindowInv, DownInv, Enqueue, Receive, Insert, InsertFails, WriterReturns
<1>1. UNCHANGED <<up, bySlot, accepted, restored>>
  BY DEF Enqueue, Receive, Insert, InsertFails, WriterReturns
<1>2. WindowTypes' /\ DownInv'
  BY <1>0, <1>1 DEF WindowInv, WindowTypes, DownInv, Increasing
<1>3. ASSUME restored
      PROVE  /\ \A r \in table' : Known(r)
             /\ \A i \in 1..Len(inserting') : Known(inserting'[i])
             /\ \A i \in 1..Len(queue') : Known(queue'[i])
             /\ \A s \in Servers : \A i \in 1..Len(sinking'[s]) : Known(sinking'[s][i])
  <2>1. /\ \A r \in table : Known(r)
        /\ \A i \in 1..Len(inserting) : Known(inserting[i])
        /\ \A i \in 1..Len(queue) : Known(queue[i])
        /\ \A s \in Servers : \A i \in 1..Len(sinking[s]) : Known(sinking[s][i])
    BY <1>0, <1>3 DEF WindowInv, CoverInv
  <2>2. ASSUME NEW s \in Servers, Enqueue(s)
        PROVE  /\ UNCHANGED <<table, inserting>>
               /\ \A i \in 1..Len(queue') : Known(queue'[i])
               /\ \A t \in Servers : \A i \in 1..Len(sinking'[t]) : Known(sinking'[t][i])
    <3>1. /\ sinking \in [Servers -> Seq(Measured)] /\ Len(sinking[s]) = 1
          /\ queue \in Seq(Measured) /\ sinking[s] \in Seq(Measured)
          /\ 1 \in 1..Len(sinking[s])
      <4>1. sinking[s] \in Seq(Measured) /\ Len(sinking[s]) \in {0, 1}
            /\ sinking[s] # <<>>
        BY <2>2 DEF OrderInv, OrderTypes, Enqueue
      <4> QED
        BY <4>1 DEF OrderInv, OrderTypes
    <3>2. PICK o : o = sinking[s][1]
      OBVIOUS
    <3>3. Known(o)
      BY <2>1, <3>1, <3>2
    <3>4. o \in Measured
      <4>1. sinking[s][1] \in Measured
        BY <3>1, ElementOfSeq, Zenon
      <4> QED
        BY <3>2, <4>1, Zenon
    <3>5. queue' = queue \/ queue' = Append(queue, o)
      BY <2>2, <3>2 DEF Enqueue
    <3>6. ASSUME NEW i \in 1..Len(queue')
          PROVE  Known(queue'[i])
      <4>1. queue'[i] = o \/ (i \in 1..Len(queue) /\ queue'[i] = queue[i])
        BY <3>1, <3>4, <3>5, <3>6
      <4> QED
        BY <2>1, <3>3, <4>1
    <3>7. ASSUME NEW t \in Servers, NEW i \in 1..Len(sinking'[t])
          PROVE  Known(sinking'[t][i])
      <4>1. sinking'[t] = <<>> \/ sinking'[t] = sinking[t]
        BY <2>2, <3>1 DEF Enqueue
      <4> QED
        BY <2>1, <3>7, <4>1
    <3> QED
      BY <2>2, <3>6, <3>7 DEF Enqueue
  <2>3. CASE Receive
    <3>1. /\ queue \in Seq(Measured) /\ queue # <<>> /\ queue' = Tail(queue)
          /\ inserting' = <<Head(queue)>> /\ UNCHANGED <<table, sinking>>
      BY <2>3 DEF OrderInv, OrderTypes, Receive
    <3>2. /\ Len(queue) >= 1 /\ Head(queue) = queue[1]
          /\ Len(queue') = Len(queue) - 1
          /\ \A i \in 1..Len(queue') : i + 1 \in 1..Len(queue) /\ queue'[i] = queue[i + 1]
      BY <3>1
    <3>3. Known(queue[1]) /\ \A i \in 1..Len(queue') : Known(queue'[i])
      BY <2>1, <3>1, <3>2
    <3>4. \A i \in 1..Len(inserting') : inserting'[i] = queue[1]
      BY <3>1, <3>2
    <3> QED
      BY <2>1, <3>1, <3>3, <3>4
  <2>4. CASE Insert
    <3>1. Len(inserting) = 1 /\ inserting' = <<>> /\ UNCHANGED <<queue, sinking>>
      BY <2>4 DEF OrderInv, OrderTypes, Insert
    <3>2. Known(inserting[1])
      BY <2>1, <3>1
    <3>3. \A r \in table' : r \in table \/ (r.key = inserting[1].key /\ r.n = inserting[1].n)
      BY <2>4 DEF Insert
    <3>4. \A r \in table' : Known(r)
      BY <2>1, <3>2, <3>3 DEF Known
    <3> QED
      BY <2>1, <3>1, <3>4
  <2>5. CASE InsertFails \/ WriterReturns
    BY <2>1, <2>5 DEF InsertFails, WriterReturns
  <2>6. CASE \E s \in Servers : Enqueue(s)
    BY <2>1, <2>2, <2>6
  <2> QED
    BY <2>3, <2>4, <2>5, <2>6
<1>4. CoverInv'
  BY <1>0, <1>1, <1>3 DEF CoverInv, Known
<1> QED
  BY <1>2, <1>4 DEF WindowInv

\* The start reads the table as the trim has left it.
LEMMA WindowStart ==
    ASSUME OrderInv, TableInv, TableInv', WindowInv,
           NEW trims \in BOOLEAN, NEW loads \in BOOLEAN, Start(trims, loads)
    PROVE  WindowInv'
<1>1. /\ ~up /\ up' /\ restored' = loads
      /\ bySlot' = [k \in Keys |-> IF loads THEN Newest(LoadAll(table', k)) ELSE <<>>]
      /\ UNCHANGED <<sinking, inserting, queue, accepted, written>>
  BY DEF Start
<1>2. /\ inserting' = <<>> /\ queue' = <<>> /\ \A s \in Servers : sinking'[s] = <<>>
  BY <1>1 DEF WindowInv, DownInv
<1>3. accepted \in Nat /\ WindowCap \in Nat
  BY PerfAssumption DEF OrderInv, OrderTypes
<1>4. DownInv'
  BY <1>1 DEF DownInv
<1>5. CASE ~loads
  <2>1. \A k \in Keys : bySlot'[k] = <<>>
    BY <1>1, <1>5
  <2>2. <<>> \in Seq(Nat) /\ Len(<<>>) = 0 /\ bySlot' \in [Keys -> Seq(Nat)]
    BY <1>1, <1>5
  <2>3. WindowTypes'
    BY <1>3, <2>1, <2>2 DEF WindowTypes, Increasing
  <2>4. CoverInv'
    BY <1>1, <1>5 DEF CoverInv
  <2> QED
    BY <1>4, <2>3, <2>4 DEF WindowInv
<1>6. CASE loads
  <2>1. PICK T : T = table'
    OBVIOUS
  <2>2. T \subseteq written /\ IsFiniteSet(T)
    BY <1>1, <2>1, FS_Subset DEF TableInv
  <2>3. /\ T \in SUBSET Rows
        /\ \A r, q \in T : r.id = q.id => r = q
        /\ \A r, q \in T : (r.key = q.key /\ r.id < q.id) => r.n < q.n
        /\ \A r \in T : r.n <= accepted
    BY <2>2 DEF OrderInv, OrderTypes, Bounded, RowsInOrder, TableInv, Rows
  <2>4. ASSUME NEW k \in Keys
        PROVE  /\ bySlot'[k] \in Seq(Nat) /\ Len(bySlot'[k]) <= WindowCap
               /\ Increasing(bySlot'[k])
               /\ \A i \in 1..Len(bySlot'[k]) : bySlot'[k][i] <= accepted
               /\ \A r \in T : r.key = k => Covers(bySlot'[k], r.n)
    <3>1. PICK w : w = LoadAll(T, k)
      OBVIOUS
    <3>2. /\ w \in Seq(Nat) /\ Increasing(w)
          /\ \A i \in 1..Len(w) : \E r \in T : w[i] = r.n
          /\ \A r \in T : r.key = k => \E i \in 1..Len(w) : w[i] = r.n
      BY <2>2, <2>3, <3>1, LoadAllFacts
    <3>3. bySlot'[k] = Newest(w)
      BY <1>1, <1>6, <2>1, <3>1
    <3>4. /\ Newest(w) \in Seq(Nat) /\ Len(Newest(w)) <= WindowCap
          /\ Increasing(Newest(w))
          /\ \A i \in 1..Len(Newest(w)) : \E j \in 1..Len(w) : Newest(w)[i] = w[j]
          /\ \A i \in 1..Len(w) : Covers(Newest(w), w[i])
      BY <3>2, NewestFacts
    <3>5. \A i \in 1..Len(Newest(w)) : Newest(w)[i] <= accepted
      BY <2>3, <3>2, <3>4
    <3>6. \A r \in T : r.key = k => Covers(Newest(w), r.n)
      BY <3>2, <3>4
    <3> QED
      BY <3>3, <3>4, <3>5, <3>6
  <2>5. bySlot' \in [Keys -> Seq(Nat)]
    BY <1>1, <2>4
  <2>6. WindowTypes'
    BY <1>1, <2>4, <2>5 DEF WindowTypes, Increasing
  <2>7. CoverInv'
    <3>1. \A r \in T : Covers(bySlot'[r.key], r.n)
      BY <2>3, <2>4 DEF Rows
    <3> QED
      BY <1>2, <2>1, <3>1 DEF CoverInv, Known, Covers
  <2> QED
    BY <1>4, <2>6, <2>7 DEF WindowInv
<1> QED
  BY <1>5, <1>6

LEMMA WindowEnd ==
    ASSUME OrderInv, WindowInv, End
    PROVE  WindowInv'
<1>1. <<>> \in Seq(Nat) /\ Len(<<>>) = 0 /\ WindowCap \in Nat /\ accepted \in Nat
  BY PerfAssumption DEF OrderInv, OrderTypes
<1>2. /\ ~up' /\ accepted' = accepted /\ bySlot' = [k \in Keys |-> <<>>]
      /\ inserting' = <<>> /\ queue' = <<>> /\ writer' = "gone"
      /\ sinking' = [s \in Servers |-> <<>>]
  BY DEF End
<1>3. \A k \in Keys : bySlot'[k] = <<>>
  BY <1>2
<1>4. bySlot' \in [Keys -> Seq(Nat)]
  BY <1>1, <1>2
<1> QED
  BY <1>1, <1>2, <1>3, <1>4 DEF WindowInv, WindowTypes, DownInv, CoverInv, Increasing

LEMMA WindowNext ==
    ASSUME OrderInv, TableInv, TableInv', WindowInv, [PerfNext]_perfVars
    PROVE  WindowInv'
<1>1. ASSUME NEW s \in Servers, NEW m \in Models, NEW valid \in BOOLEAN,
             NEW verdict \in Verdicts, RecordPerf(s, m, valid, verdict)
      PROVE  WindowInv'
  BY <1>1, WindowRecord
<1>2. CASE (\E s \in Servers : Enqueue(s)) \/ Receive \/ Insert \/ InsertFails
             \/ WriterReturns
  BY <1>2, WindowPassesOn
<1>3. CASE Maintain
  <2>1. table' \subseteq table
    BY <1>3 DEF Maintain, Trimmed
  <2> QED
    BY <1>3, <2>1 DEF Maintain, WindowInv, WindowTypes, DownInv, CoverInv, Known,
                      Increasing
<1>4. ASSUME NEW trims \in BOOLEAN, NEW loads \in BOOLEAN, Start(trims, loads)
      PROVE  WindowInv'
  BY <1>4, WindowStart
<1>5. CASE Stop \/ UNCHANGED perfVars
  BY <1>5 DEF Stop, perfVars, WindowInv, WindowTypes, DownInv, CoverInv, Known, Increasing
<1>6. CASE Exit \/ Kill
  BY <1>6, WindowEnd DEF Exit, Kill
<1> QED
  BY <1>1, <1>2, <1>3, <1>4, <1>5, <1>6 DEF PerfNext

\* For any capacities, faults, kills and restarts: a process that has read the
\* table at its start knows in its windows the newest rows of each key at any
\* time, in the order of the measurements, although it reads them once and its
\* writer adds rows long after Record has put them into the windows.
THEOREM RestoredWindowsCoverTable == PerfSpec => []WindowCoversTable
<1>1. PerfInit => OrderInv /\ TableInv /\ WindowInv
  BY OrderInit, TableInit, WindowInit
<1>2. OrderInv /\ TableInv /\ WindowInv /\ [PerfNext]_perfVars
        => (OrderInv /\ TableInv /\ WindowInv)'
  BY OrderNext, TableNext, WindowNext
<1>3. OrderInv /\ TableInv /\ WindowInv => WindowCoversTable
  <2> SUFFICES ASSUME OrderInv, TableInv, WindowInv
               PROVE  WindowCoversTable
    OBVIOUS
  <2>1. \A r \in table : r.key \in Keys
    BY DEF TableInv, OrderInv, OrderTypes
  <2> QED
    BY <2>1 DEF WindowCoversTable, WindowInv, WindowTypes, CoverInv, Known, Covers,
                Increasing
<1> QED
  BY <1>1, <1>2, <1>3, PTL DEF PerfSpec

=============================================================================
