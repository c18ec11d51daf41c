-------------------------------- MODULE Perf --------------------------------
(***************************************************************************)
(* The performance observations: the tracker's windows in memory           *)
(* (core/perf.go), the sink that copies an accepted observation to the     *)
(* bounded queue of the single writer (storage/perf.go), the table         *)
(* perf_observations, and the start and maintenance of both (cmd/serve.go).*)
(*                                                                         *)
(* An observation is its number: the n-th that Record has accepted since   *)
(* the database was created, whatever the process.  Tokens, durations and  *)
(* the regression over them are left out; of a prediction only whether the *)
(* window is long enough to make one is kept.  A worker serves one request *)
(* at a time, so a server has at most one call of the sink under way.      *)
(***************************************************************************)
EXTENDS Naturals, Sequences, FiniteSets

CONSTANTS
    Servers, Models,   \* a key of the tracker is a server and a model: the
                       \* endpoint, its third part, is a part of the model here
    WindowCap,         \* PerfMaxObservations, 1000 in the code
    MinSamples,        \* perfMinSamples, 3 in the code
    QueueCap,          \* perfEnqueueCap, 1024 in the code
    MaxRecords,        \* bound: observations accepted
    MaxFaults,         \* bound: failed statements of the database
    MaxStarts          \* bound: starts of the daemon

ASSUME PerfAssumption ==
    /\ WindowCap \in Nat \ {0}
    /\ MinSamples \in Nat \ {0}
    /\ QueueCap \in Nat \ {0}
    /\ MaxRecords \in Nat
    /\ MaxFaults \in Nat
    /\ MaxStarts \in Nat

VARIABLES
    up,        \* the process runs, from the start of its workers on
    ctxDone,   \* its context is cancelled: it is shutting down
    bySlot,    \* PerfTracker.bySlot: the window of each key
    sinking,   \* what a worker has recorded and not yet given to the sink, a
               \* sequence of at most one observation per server
    slow,      \* ServerInfo.LastSlow
    writer,    \* PerfStore.Run: "gone", "waiting" or "inserting"
    inserting, \* the observation it has taken, a sequence of at most one
    queue,     \* PerfStore.ch
    table,     \* perf_observations: a set of rows with their ids
    lastId,    \* the AUTOINCREMENT counter of the table
    accepted,  \* the number of observations Record has accepted
    faults,    \* the number of failed statements
    starts,    \* the number of starts
    restored,  \* this process has read the table at its start
    written,   \* every row the table has ever held
    lost       \* the observations that will never be written

perfVars == <<up, ctxDone, bySlot, sinking, slow, writer, inserting, queue,
              table, lastId, accepted, faults, starts, restored, written, lost>>

Keys == Servers \X Models
Verdicts == {"slow", "normal", "none"}

PerfInit ==
    /\ up = FALSE /\ ctxDone = FALSE /\ restored = FALSE
    /\ bySlot = [k \in Keys |-> <<>>]
    /\ sinking = [s \in Servers |-> <<>>]
    /\ slow = [s \in Servers |-> FALSE]
    /\ writer = "gone" /\ inserting = <<>> /\ queue = <<>>
    /\ table = {} /\ lastId = 0 /\ written = {} /\ lost = {}
    /\ accepted = 0 /\ faults = 0 /\ starts = 0

-----------------------------------------------------------------------------
(* The tracker. *)

\* Mutant of Newest: the oldest stay.
Oldest(obs) ==
    IF Len(obs) > WindowCap THEN SubSeq(obs, 1, WindowCap) ELSE obs

\* The ring buffer: of a window that has grown, the newest WindowCap stay.
Newest(obs) ==
    IF Len(obs) > WindowCap
    THEN SubSeq(obs, Len(obs) - WindowCap + 1, Len(obs))
    ELSE obs

\* Predict has no answer for a key that has too few samples.  With enough of them
\* the data decides: the verdict on a request is "slow" when it took at least
\* twice the predicted time, "normal" when it did not, and "none" when the
\* coefficients give a prediction of 0.
HasPrediction(k) == Len(bySlot[k]) >= MinSamples

\* updateSlowFlag: without a prediction the flag is left alone.
UpdateSlowFlag(s, k, verdict) ==
    slow' = IF HasPrediction(k) /\ verdict # "none"
            THEN [slow EXCEPT ![s] = (verdict = "slow")]
            ELSE slow

\* Record, under the lock: an observation without time or without output is
\* ignored, any other enters the window of its key.
Record(s, k, valid) ==
    IF valid
    THEN /\ accepted < MaxRecords
         /\ accepted' = accepted + 1
         /\ bySlot' = [bySlot EXCEPT ![k] = Newest(Append(@, accepted + 1))]
         /\ sinking' = [sinking EXCEPT ![s] = <<[key |-> k, n |-> accepted + 1]>>]
    ELSE UNCHANGED <<accepted, bySlot, sinking>>

\* recordPerf, at the end of a request that succeeded.  The prediction is made
\* before the observation is recorded; nobody else writes to the server's keys
\* between the two.
RecordPerf(s, m, valid, verdict) ==
    /\ up
    /\ sinking[s] = <<>>
    /\ UpdateSlowFlag(s, <<s, m>>, verdict)
    /\ Record(s, <<s, m>>, valid)
    /\ UNCHANGED <<up, ctxDone, writer, inserting, queue, table, lastId, faults,
                   starts, restored, written, lost>>

\* Enqueue, the sink, which Record calls after the unlock.  The send does not
\* block: when the queue is full the observation is dropped.
Enqueue(s) ==
    /\ up
    /\ sinking[s] # <<>>
    /\ sinking' = [sinking EXCEPT ![s] = <<>>]
    /\ IF Len(queue) < QueueCap
       THEN /\ queue' = Append(queue, sinking[s][1])
            /\ UNCHANGED lost
       ELSE /\ lost' = lost \cup {sinking[s][1].n}
            /\ UNCHANGED queue
    /\ UNCHANGED <<up, ctxDone, bySlot, slow, writer, inserting, table, lastId,
                   accepted, faults, starts, restored, written>>

-----------------------------------------------------------------------------
(* The writer. *)

\* Run receives.  With a cancelled context and a queue that is not empty the
\* select may still choose the queue.
Receive ==
    /\ writer = "waiting"
    /\ queue # <<>>
    /\ writer' = "inserting"
    /\ inserting' = <<Head(queue)>>
    /\ queue' = Tail(queue)
    /\ UNCHANGED <<up, ctxDone, bySlot, sinking, slow, table, lastId, accepted,
                   faults, starts, restored, written, lost>>

\* insert succeeds.  Its own context outlives the cancellation.
Insert ==
    /\ writer = "inserting"
    /\ LET row == [id |-> lastId + 1, key |-> inserting[1].key, n |-> inserting[1].n]
       IN  /\ table' = table \cup {row}
           /\ written' = written \cup {row}
    /\ lastId' = lastId + 1
    /\ writer' = "waiting"
    /\ inserting' = <<>>
    /\ UNCHANGED <<up, ctxDone, bySlot, sinking, slow, queue, accepted, faults,
                   starts, restored, lost>>

\* Mutant of InsertFails: the error ends the writer.
InsertFailsAndReturns ==
    /\ writer = "inserting"
    /\ faults < MaxFaults
    /\ faults' = faults + 1
    /\ lost' = lost \cup {inserting[1].n}
    /\ writer' = "gone"
    /\ inserting' = <<>>
    /\ UNCHANGED <<up, ctxDone, bySlot, sinking, slow, queue, table, lastId,
                   accepted, starts, restored, written>>

\* insert fails: a line in the log, and the writer goes on.
InsertFails ==
    /\ writer = "inserting"
    /\ faults < MaxFaults
    /\ faults' = faults + 1
    /\ lost' = lost \cup {inserting[1].n}
    /\ writer' = "waiting"
    /\ inserting' = <<>>
    /\ UNCHANGED <<up, ctxDone, bySlot, sinking, slow, queue, table, lastId,
                   accepted, starts, restored, written>>

\* Run returns; what is left in the queue stays there.
WriterReturns ==
    /\ ctxDone
    /\ writer = "waiting"
    /\ writer' = "gone"
    /\ UNCHANGED <<up, ctxDone, bySlot, sinking, slow, inserting, queue, table,
                   lastId, accepted, faults, starts, restored, written, lost>>

-----------------------------------------------------------------------------
(* Maintenance, start and end. *)

\* Mutant of Trimmed: the oldest rows stay.
TrimmedToOldest(rows) ==
    {r \in rows : Cardinality({q \in rows : q.key = r.key /\ q.id < r.id}) < WindowCap}

\* Trim: a row goes when WindowCap rows of its key have a greater id.
Trimmed(rows) ==
    {r \in rows : Cardinality({q \in rows : q.key = r.key /\ q.id > r.id}) < WindowCap}

\* LoadAll: the observations of a key, ORDER BY id ASC.
LoadAll(rows, k) ==
    LET mine == {r \in rows : r.key = k}
        Place(r) == Cardinality({q \in mine : q.id <= r.id})
    IN  [i \in 1..Cardinality(mine) |-> (CHOOSE r \in mine : Place(r) = i).n]

\* runMaintenance trims the table every hour.  A statement that fails changes
\* nothing and is tried again an hour later.
Maintain ==
    /\ up /\ ~ctxDone
    /\ Trimmed(table) # table
    /\ table' = Trimmed(table)
    /\ UNCHANGED <<up, ctxDone, bySlot, sinking, slow, writer, inserting, queue,
                   lastId, accepted, faults, starts, restored, written, lost>>

\* Mutant of Start: the sink is set before Load, and Load calls it.
StartSinksLoaded(trims, loads) ==
    /\ ~up
    /\ starts < MaxStarts
    /\ faults + (IF trims THEN 0 ELSE 1) + (IF loads THEN 0 ELSE 1) <= MaxFaults
    /\ faults' = faults + (IF trims THEN 0 ELSE 1) + (IF loads THEN 0 ELSE 1)
    /\ starts' = starts + 1
    /\ up' = TRUE
    /\ writer' = "waiting"
    /\ restored' = loads
    /\ table' = IF trims THEN Trimmed(table) ELSE table
    /\ bySlot' = [k \in Keys |-> IF loads THEN Newest(LoadAll(table', k)) ELSE <<>>]
    /\ IF loads /\ table' # {}
       THEN \E r \in table' : queue' = <<[key |-> r.key, n |-> r.n]>>
       ELSE UNCHANGED queue
    /\ UNCHANGED <<ctxDone, sinking, slow, inserting, lastId, accepted, written, lost>>

\* The end of the start of the daemon: Trim, LoadAll with Load for each key, SetSink,
\* then the writer and the workers.  Load does not call the sink.  When Trim or
\* LoadAll fails the daemon starts all the same.
Start(trims, loads) ==
    /\ ~up
    /\ starts < MaxStarts
    /\ faults + (IF trims THEN 0 ELSE 1) + (IF loads THEN 0 ELSE 1) <= MaxFaults
    /\ faults' = faults + (IF trims THEN 0 ELSE 1) + (IF loads THEN 0 ELSE 1)
    /\ starts' = starts + 1
    /\ up' = TRUE
    /\ writer' = "waiting"
    /\ restored' = loads
    /\ table' = IF trims THEN Trimmed(table) ELSE table
    /\ bySlot' = [k \in Keys |-> IF loads THEN Newest(LoadAll(table', k)) ELSE <<>>]
    /\ UNCHANGED <<ctxDone, sinking, slow, inserting, queue, lastId, accepted,
                   written, lost>>

\* The context is cancelled: shutdown begins.
Stop ==
    /\ up /\ ~ctxDone
    /\ ctxDone' = TRUE
    /\ UNCHANGED <<up, bySlot, sinking, slow, writer, inserting, queue, table,
                   lastId, accepted, faults, starts, restored, written, lost>>

\* The end of the process: what was only in memory is gone.
End ==
    /\ up' = FALSE /\ ctxDone' = FALSE /\ restored' = FALSE
    /\ bySlot' = [k \in Keys |-> <<>>]
    /\ sinking' = [s \in Servers |-> <<>>]
    /\ slow' = [s \in Servers |-> FALSE]
    /\ writer' = "gone" /\ inserting' = <<>> /\ queue' = <<>>
    /\ lost' = lost \cup {n \in 1..accepted : \A r \in written : r.n # n}
    /\ UNCHANGED <<table, lastId, accepted, faults, starts, written>>

\* After the cancellation serve waits for the workers, and not for the writer.
Exit ==
    /\ up /\ ctxDone
    /\ \A s \in Servers : sinking[s] = <<>>
    /\ End

\* The process is killed.
Kill ==
    /\ up
    /\ End

PerfNext ==
    \/ \E s \in Servers, m \in Models, valid \in BOOLEAN, verdict \in Verdicts :
          RecordPerf(s, m, valid, verdict)
    \/ \E s \in Servers : Enqueue(s)
    \/ Receive
    \/ Insert
    \/ InsertFails
    \/ WriterReturns
    \/ Maintain
    \/ \E trims, loads \in BOOLEAN : Start(trims, loads)
    \/ Stop
    \/ Exit
    \/ Kill

\* A goroutine that can go on does: a worker inside Record and the writer, and a
\* process that is told to stop ends.  Nothing is owed by requests, faults,
\* starts and kills.
PerfSpec ==
    /\ PerfInit
    /\ [][PerfNext]_perfVars
    /\ \A s \in Servers : WF_perfVars(Enqueue(s))
    /\ WF_perfVars(Receive)
    /\ WF_perfVars(Insert)
    /\ WF_perfVars(Exit)

-----------------------------------------------------------------------------
(* Properties. *)

\* The table tells the order of the measurements: of two rows of a key the one
\* with the greater id is the later observation, and no observation is there
\* twice, over any number of restarts, failures and drops.  (Record calls the
\* sink after the unlock, and Load must not call it.)
RowsInOrder ==
    \A r, q \in written : (r.key = q.key /\ r.id < q.id) => r.n < q.n

\* A window never holds more than WindowCap observations, in the order they were
\* made, restored ones first; and a process that has read the table knows at any
\* time the newest rows of each key, the ones it read and the ones its own writer
\* has added since: a row that is not in the window is older than everything in
\* a full window.
WindowCoversTable ==
    /\ \A k \in Keys :
          /\ Len(bySlot[k]) <= WindowCap
          /\ \A i, j \in 1..Len(bySlot[k]) : i < j => bySlot[k][i] < bySlot[k][j]
    /\ (up /\ restored) =>
          \A r \in table :
              \/ \E i \in 1..Len(bySlot[r.key]) : bySlot[r.key][i] = r.n
              \/ /\ Len(bySlot[r.key]) = WindowCap
                 /\ r.n < bySlot[r.key][1]

\* The trim, at a start and every hour, takes no row from the newest WindowCap
\* that were ever written for the key, so that a restart can fill the window.
NewestKept ==
    \A r \in written \ table :
        Cardinality({q \in table : q.key = r.key /\ q.id > r.id}) >= WindowCap

\* Every accepted observation is written, or lost for one of the reasons the
\* code accepts: the queue was full, the insert failed, the process ended.
EventuallySettled ==
    \A n \in 1..MaxRecords :
        accepted >= n ~> (n \in lost \/ \E r \in written : r.n = n)

=============================================================================
