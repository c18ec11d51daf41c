------------------------------ MODULE Exchange ------------------------------
(***************************************************************************)
(* A request from the HTTP handler's side (internal/api): ServeHTTP of the  *)
(* OpenAI and the Anthropic endpoint, the Run closure each gives to Submit, *)
(* the plain and the streamed relay of the backend's answer, the row of the *)
(* request in the history and the tail of a running generation.  The        *)
(* scheduler is its promise, module Submission.  The daemon may crash and   *)
(* start again at any time, a client may leave, a write to the database may *)
(* fail.  Tokens, timings and the text of bodies are left out.              *)
(***************************************************************************)
EXTENDS Submission, FiniteSets

CONSTANTS
    Formats,   \* wire formats, a subset of {"openai", "anthropic"}
    Faults     \* what may go wrong, a subset of {"db", "crash", "gone"}

ASSUME FormatsAssumption == Formats \subseteq {"openai", "anthropic"}
ASSUME FaultsAssumption == Faults \subseteq {"db", "crash", "gone"}

VARIABLES
    at,        \* where the handler is
    client,    \* the format the client speaks
    stream,    \* the request asks for a stream
    backend,   \* the format of the server of this attempt
    gone,      \* the request context is done
    header,    \* the status line the client was sent
    from,      \* attempts the client has bytes of; 0 is the body of writeError
    whole,     \* the backend's answer was read to its proper end
    tail,      \* LiveTail has text of this request
    row,       \* status of the request in the history table
    missed,    \* the last write of this row has failed
    down       \* the daemon is not running

handlerVars == <<at, client, stream, backend, gone, header, from, whole, tail>>
storeVars == <<row, missed>>
exchangeVars == <<submissionVars, handlerVars, storeVars, down>>

Terminal == {"completed", "failed", "cancelled"}
Live == {"submit", "forward", "relay", "finish"}

ExchangeInit ==
    /\ SubmissionInit
    /\ at = [j \in Jobs |-> "idle"]
    /\ client \in [Jobs -> Formats]
    /\ stream \in [Jobs -> BOOLEAN]
    /\ backend = client
    /\ gone = [j \in Jobs |-> FALSE]
    /\ header = [j \in Jobs |-> "none"]
    /\ from = [j \in Jobs |-> {}]
    /\ whole = [j \in Jobs |-> FALSE]
    /\ tail = [j \in Jobs |-> FALSE]
    /\ row = [j \in Jobs |-> "none"]
    /\ missed = [j \in Jobs |-> FALSE]
    /\ down = FALSE

At(j, here, there) == at[j] = here /\ at' = [at EXCEPT ![j] = there]

\* persistRecord: an upsert on a context of its own; a failure is only logged.
Persist(j, status) ==
    \/ /\ row' = [row EXCEPT ![j] = status]
       /\ missed' = [missed EXCEPT ![j] = FALSE]
    \/ /\ "db" \in Faults
       /\ missed' = [missed EXCEPT ![j] = TRUE]
       /\ UNCHANGED row

\* WriteHeader: only the first call counts.
WriteHeader(j, status) ==
    header' = [header EXCEPT ![j] = IF @ = "none" THEN status ELSE @]

\* Bytes of attempt n, or the error body for n = 0, go to the client.
WriteBytes(j, n) == from' = [from EXCEPT ![j] = @ \cup {n}]

\* A stream whose backend speaks another format than its client.
Translated(j) == stream[j] /\ client[j] # backend[j]

-----------------------------------------------------------------------------
(* ServeHTTP.                                                              *)

\* An unreadable or incomplete request: 400 and no record.
Reject(j) ==
    /\ ~down
    /\ At(j, "idle", "done")
    /\ WriteHeader(j, "error")
    /\ WriteBytes(j, 0)
    /\ UNCHANGED <<submissionVars, client, stream, backend, gone, whole, tail,
                   storeVars, down>>

\* The record is written as pending and Submit is called.
ReceiveRequest(j) ==
    /\ ~down
    /\ At(j, "idle", "submit")
    /\ Accept(j)
    /\ Persist(j, "pending")
    /\ UNCHANGED <<client, stream, backend, gone, header, from, whole, tail,
                   down>>

\* A worker calls Run with a server of format f.
CallRun(j, f) ==
    /\ At(j, "submit", "forward")
    /\ StartRun(j)
    /\ Persist(j, "running")
    /\ backend' = [backend EXCEPT ![j] = f]
    /\ whole' = [whole EXCEPT ![j] = FALSE]
    /\ UNCHANGED <<client, stream, gone, header, from, tail, down>>

\* Mutant of PersistAttempt: the row stays as it is between attempts.
PersistNoRetry(j, started) == UNCHANGED storeVars

\* An error that may be retried takes the row back to pending.
PersistAttempt(j, started) ==
    IF started THEN UNCHANGED storeVars ELSE Persist(j, "pending")

\* LiveTail.Delete, deferred by runStream.
DropTail(j) == tail' = [tail EXCEPT ![j] = FALSE]

\* The end of the Run closure.
LeaveRun(j, here, ok, started) ==
    /\ At(j, here, "submit")
    /\ EndRun(j, ok, started)
    /\ PersistAttempt(j, started)
    /\ DropTail(j)
    /\ UNCHANGED <<client, stream, backend, gone, down>>

\* Submit has returned, with an error for a served request only when its context
\* is done; an error is written only to a client that was sent nothing yet.
SubmitReturns(j, ok) ==
    /\ At(j, "submit", "finish")
    /\ ok \/ phase[j] = "open" \/ gone[j]
    /\ ReturnFrom(j, ok)
    /\ IF ok \/ sent[j] THEN UNCHANGED <<header, from>>
       ELSE WriteHeader(j, "error") /\ WriteBytes(j, 0)
    /\ UNCHANGED <<client, stream, backend, gone, whole, tail, storeVars, down>>

\* The final state of the record.
Finish(j) ==
    /\ At(j, "finish", "done")
    /\ Persist(j, IF answer[j].ok THEN "completed" ELSE "failed")
    /\ UNCHANGED <<submissionVars, client, stream, backend, gone, header, from,
                   whole, tail, down>>

-----------------------------------------------------------------------------
(* The attempt: runNonStream, runStream, runStreamWithTranslator and        *)
(* runStreamFromAnthropicBackend.                                           *)

\* Mutant of ForwardFails: the status line goes out before the body is read
\* and translated.
ForwardFailsLate(j) ==
    /\ LeaveRun(j, "forward", FALSE, FALSE)
    /\ WriteHeader(j, "ok")
    /\ UNCHANGED <<from, whole>>

\* No usable answer: the request cannot be translated, Forward fails, the
\* status is not 2xx, or a plain body cannot be read or translated.
ForwardFails(j) ==
    /\ LeaveRun(j, "forward", FALSE, FALSE)
    /\ UNCHANGED <<header, from, whole>>

\* The OpenAI endpoint copies the header of an Anthropic backend, its
\* Content-Length included, before a body it has translated.
LengthMayDiffer(j) == client[j] = "openai" /\ backend[j] # client[j]

\* runNonStream: the body was read to its end and is written in one piece.  The
\* write may fail when the client has left; it fails, with nothing written,
\* when the translated body is longer than the length announced.
AnswerPlain(j) ==
    /\ ~stream[j]
    /\ WriteHeader(j, "ok")
    /\ whole' = [whole EXCEPT ![j] = TRUE]
    /\ \/ /\ LeaveRun(j, "forward", TRUE, TRUE)
          /\ WriteBytes(j, tries[j]) \/ (gone[j] /\ UNCHANGED from)
       \/ /\ gone[j] \/ LengthMayDiffer(j)
          /\ LeaveRun(j, "forward", FALSE, TRUE)
          /\ (gone[j] /\ WriteBytes(j, tries[j])) \/ UNCHANGED from

\* The status line of a stream goes out before its first line is read.
BeginRelay(j) ==
    /\ stream[j]
    /\ At(j, "forward", "relay")
    /\ WriteHeader(j, "ok")
    /\ UNCHANGED <<submissionVars, client, stream, backend, gone, from, whole,
                   tail, storeVars, down>>

\* A line goes to the client, or the translator makes nothing of it; the loop
\* goes on while the client is there.
RelayLine(j) ==
    /\ ~gone[j]
    /\ At(j, "relay", "relay")
    /\ \/ WriteBytes(j, tries[j])
       \/ Translated(j) /\ UNCHANGED from
    /\ \/ /\ client[j] = "openai" /\ ~Translated(j)
          /\ tail' = [tail EXCEPT ![j] = TRUE]
       \/ UNCHANGED tail
    /\ UNCHANGED <<submissionVars, client, stream, backend, gone, header,
                   whole, storeVars, down>>

\* The write fails, or the context is found done after a line.
RelayCut(j) ==
    /\ gone[j]
    /\ LeaveRun(j, "relay", FALSE, TRUE)
    /\ from' \in {from, [from EXCEPT ![j] = @ \cup {tries[j]}]}
    /\ UNCHANGED <<header, whole>>

\* The stream's own end: [DONE] or message_stop, or the connection is closed
\* properly.  A translator adds its closing events.
RelayEnds(j) ==
    /\ whole' = [whole EXCEPT ![j] = TRUE]
    /\ LeaveRun(j, "relay", TRUE, TRUE)
    /\ from' \in {from, [from EXCEPT ![j] = @ \cup {tries[j]}]}
    /\ UNCHANGED header

\* Mutants of BreakIsHidden and BreakIsStarted: scanner.Err is not looked at
\* by the plain relays either, and every break is taken for an early one.
BreakIsAlwaysHidden(j) == TRUE
BreakIsNeverStarted(j) == FALSE

\* The translating loops do not look at scanner.Err.
BreakIsHidden(j) == Translated(j)

\* responseStarted of the plain relays: a line of this attempt was written.
BreakIsStarted(j) == tries[j] \in from[j]

\* The connection to the backend breaks.  A translator writes its closing
\* events, whose errors are ignored, and the attempt is a success.
RelayBreaks(j) ==
    /\ \/ /\ BreakIsHidden(j)
          /\ LeaveRun(j, "relay", TRUE, TRUE)
          /\ WriteBytes(j, tries[j]) \/ (gone[j] /\ UNCHANGED from)
       \/ /\ ~BreakIsHidden(j)
          /\ \E started \in BOOLEAN : /\ started <=> BreakIsStarted(j)
                                     /\ LeaveRun(j, "relay", FALSE, started)
          /\ UNCHANGED from
    /\ UNCHANGED <<header, whole>>

-----------------------------------------------------------------------------
(* The environment and the daemon.                                         *)

ClientLeaves(j) ==
    /\ "gone" \in Faults
    /\ at[j] \in Live
    /\ ~gone[j]
    /\ gone' = [gone EXCEPT ![j] = TRUE]
    /\ UNCHANGED <<submissionVars, at, client, stream, backend, header, from,
                   whole, tail, storeVars, down>>

\* The process ends: handlers, Submit and the tails are gone.
Crash ==
    /\ "crash" \in Faults
    /\ ~down
    /\ down' = TRUE
    /\ at' = [j \in Jobs |-> IF at[j] \in Live THEN "dead" ELSE at[j]]
    /\ phase' = [j \in Jobs |-> IF at[j] \in Live THEN "ended" ELSE phase[j]]
    /\ tail' = [j \in Jobs |-> FALSE]
    /\ UNCHANGED <<tries, sent, answer, client, stream, backend, gone, header,
                   from, whole, storeVars>>

\* Mutants of Stale: running rows are forgotten; every row is cancelled.
StalePending == {"pending"}
StaleEvery == {"pending", "running", "completed", "failed"}

\* The rows CancelStale closes.
Stale == {"pending", "running"}

\* runDaemon: CancelStale closes what the last process left open, before the
\* first request is accepted; a failure is only logged.
Start ==
    /\ down
    /\ down' = FALSE
    /\ \/ /\ row' = [j \in Jobs |-> IF row[j] \in Stale
                                    THEN "cancelled" ELSE row[j]]
          /\ UNCHANGED missed
       \/ /\ "db" \in Faults
          /\ missed' = [j \in Jobs |-> IF at[j] = "dead" THEN TRUE ELSE missed[j]]
          /\ UNCHANGED row
    /\ UNCHANGED <<submissionVars, handlerVars>>

\* Retention deletes by age alone, whatever the row's status.
DeleteOlderThan(j) ==
    /\ ~down
    /\ row[j] # "none"
    /\ row' = [row EXCEPT ![j] = "none"]
    /\ UNCHANGED <<submissionVars, handlerVars, missed, down>>

RunStep(j) ==
    \/ ForwardFails(j) \/ AnswerPlain(j) \/ BeginRelay(j)
    \/ RelayLine(j) \/ RelayCut(j) \/ RelayEnds(j) \/ RelayBreaks(j)

ExchangeNext ==
    \/ \E j \in Jobs :
         \/ Reject(j) \/ ReceiveRequest(j) \/ Finish(j) \/ RunStep(j)
         \/ \E f \in Formats : CallRun(j, f)
         \/ \E ok \in BOOLEAN : SubmitReturns(j, ok)
         \/ ClientLeaves(j) \/ DeleteOlderThan(j)
    \/ Crash \/ Start

ExchangeSpec == ExchangeInit /\ [][ExchangeNext]_exchangeVars

-----------------------------------------------------------------------------
(* Properties.                                                             *)

\* Type invariant.
ExchangeTypeOK ==
    /\ phase \in [Jobs -> Phases]
    /\ tries \in [Jobs -> 0 .. MaxAttempts]
    /\ sent \in [Jobs -> BOOLEAN]
    /\ answer \in [Jobs -> [ok : BOOLEAN, started : BOOLEAN]]
    /\ at \in [Jobs -> Live \cup {"idle", "done", "dead"}]
    /\ client \in [Jobs -> Formats]
    /\ stream \in [Jobs -> BOOLEAN]
    /\ backend \in [Jobs -> Formats]
    /\ gone \in [Jobs -> BOOLEAN]
    /\ header \in [Jobs -> {"none", "ok", "error"}]
    /\ from \in [Jobs -> SUBSET (0 .. MaxAttempts)]
    /\ whole \in [Jobs -> BOOLEAN]
    /\ tail \in [Jobs -> BOOLEAN]
    /\ row \in [Jobs -> Terminal \cup {"none", "pending", "running"}]
    /\ missed \in [Jobs -> BOOLEAN]
    /\ down \in BOOLEAN

\* No retry after the first byte, to the client's eyes: what it has of the
\* backends comes from one attempt, over all retries and failovers, and the
\* body of writeError is sent to a client that has nothing else.  (The error
\* event that INV-6 and API.md ask for after a break is not sent: AbortIsTold.)
OneSource == \A j \in Jobs : \A m, n \in from[j] : m = n

\* INV-4: a request is completed only after the whole answer of the backend was
\* read, where no stream is translated.  (RelayBreaks of a translated stream is
\* reported as a success, against INV-4.)
UntranslatedIsWhole ==
    \A j \in Jobs : (row[j] = "completed" /\ ~Translated(j)) => whole[j]

\* No phantom in the history: an open row belongs to a request the running
\* daemon still works on, unless a write of that row has failed (persistRecord
\* uses its own context, CancelStale cleans up after a crash).
NoPhantomRows ==
    \A j \in Jobs : (~down /\ row[j] \in {"pending", "running"}) =>
                        at[j] \in Live \/ missed[j]

\* Between two attempts the row is not left as running: a row that says so is
\* in an attempt, or its answer has begun and it is about to be closed.
RunningRowIsRunning ==
    \A j \in Jobs : (~down /\ row[j] = "running" /\ ~missed[j]) =>
                        at[j] \in {"forward", "relay"} \/ sent[j]

\* A closed row is never opened or changed again, only deleted.
TerminalIsFinal ==
    [][\A j \in Jobs : row[j] \in Terminal => row'[j] \in {row[j], "none"}]_exchangeVars

\* A request that is not streamed and fails shows its client an error status;
\* a stream has sent its status line before the first line is read.
ErrorIsSeen ==
    \A j \in Jobs : (from[j] = {0} /\ ~stream[j]) => header[j] = "error"

-----------------------------------------------------------------------------
(* What the documents promise and the code does not keep.                  *)

\* API.md 1.8 (stream_aborted) and Test 6.1 of INV-6: a client that is there
\* when its stream breaks after the first line is sent an error event, so that
\* it has more than the lines of one attempt.
AbortIsTold ==
    \A j \in Jobs : (at[j] = "done" /\ stream[j] /\ ~gone[j] /\ sent[j] /\ ~whole[j]
                     /\ ~answer[j].ok) => Cardinality(from[j]) > 1

=============================================================================
