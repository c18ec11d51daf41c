# A TLA+ model of ProxyLM

ProxyLM is a reverse proxy for language-model backends. Clients speak the
OpenAI or the Anthropic protocol; every request is queued, sent to one of the
configured servers, retried or moved to another server when it fails, relayed
to the client, and recorded in a history. A terminal console shows what the
daemon does. This directory models the parts of the program in which several
goroutines act on shared state or a long sequence of events meets a state
machine, checks them with TLC on small instances and proves the central facts
with TLAPS for all instances.

Paths below are relative to the repository; `INV-n` and `FR-n` are the numbers
of `docs/SRS.md`.

## 1. Inventory

| Part | Source | State | Operations | What is hard |
|---|---|---|---|---|
| Server records | `internal/core/models.go` | Healthy, InFlight, CurrentModel (atomics), Models, Queue, series counter (mutex), Notify (channel of capacity 1) | Wake, reads and writes by everybody | written by submitters, the worker and discovery without a common lock |
| Router | `internal/core/router.go` | round-robin counter | Pick by one of three push strategies | reads other goroutines' state; the number of candidates changes between calls |
| Job pool | `internal/core/pool.go` | one shared FIFO, per-job exclusion | Push, PopFor, PopForFairShare, PopForCoverage, Remove, drainAll | pops race with cancellations and with other workers |
| Scheduler | `internal/core/scheduler.go` | result channel per job, attempt counter, worker per server | Submit (push and pull), worker, dispatch, failServerQueue, failPending | cancellation, crash failover, edge-triggered wake-ups, attempt limits, shutdown |
| Discovery | `internal/core/discovery.go` | failure counters, model lists | InitialHealthcheck, pollAll, pollOne | its writes interleave with dispatch's |
| Retry backoff | `internal/core/retry.go` | none | Backoff | state read before the backoff is used after it; growth of the delay |
| HTTP handlers | `internal/api/routes_*.go` | the request record, the response writer | ServeHTTP, the Run closure, runNonStream | the closure runs on a worker's goroutine, several times |
| Streaming | `internal/api/streaming*.go` | whether a byte was written | runStream and two translating relays | errors before and after the first byte, a client that leaves |
| Translation | `internal/api/translate` | state of a stream translator | ProcessLine, Finish, request and response conversions of both directions | order of events, an end at any line, calls of tools and their results over several turns |
| History | `internal/storage/history.go` | table `requests` | Insert (upsert), CancelStale, DeleteOlderThan | failing writes, crash between two writes |
| Perf tracker and store | `internal/core/perf.go`, `internal/storage/perf.go` | a window of observations per server and model, the writer's bounded queue, a table | Record, the sink, the writer, Trim, LoadAll, the slow flag | a full queue, failing inserts, restore after a restart or a kill |
| Live tail | `internal/core/livetail.go` | text per streaming request | Append, Delete | must not outlive the stream |
| IPC hub and client | `internal/ipc` | connections, their bounded queues, the client's connection and delay | register, broadcast, statistics on request, closeAll, reconnect | slow subscribers, lost connections, a request on a connection that is being replaced |
| Terminal UI | `internal/tui` | the last snapshot, cursor, viewport, filter, panes, overlays, timers | one Update per message, key, click and tick | ticks and answers that come late, a list that changes between drawing and key |
| Authentication, configuration | `internal/api/auth.go`, `internal/config` | fixed at start | look-ups | little |
| Command line, service, web UI | `cmd`, `internal/service`, `internal/webui` | none of its own | start-up | little |

How they interact: an HTTP handler calls `Submit` with a `Run` closure and
blocks. A worker calls the closure, which writes to the client's connection;
`Submit` decides about retries from the closure's result. Discovery changes
Healthy and Models of the same server records at any moment. Everybody stops
on one context (`cmd/serve.go`). The history is written by the handler and by
the closure, cleaned at start and by an hourly sweep. When client and backend
speak different protocols the closure translates the request, and the answer
line by line or as a whole. A worker gives what it measured to the perf
tracker, which passes it on to the single writer of the table. The hub reads
servers and history once a second and sends a snapshot to every console.

What makes each part correct:

- **Scheduler**: a job is never lost, duplicated or run by two workers; `Submit`
  does not return while a worker may still write to the client; attempts are
  bounded (INV-5); no retry after the first byte (INV-6); every request is
  answered (INV-7) while a server of its model is healthy (INV-8).
- **Server records**: no wake-up is lost although Notify holds one token.
- **Pool**: work that some server may do has a server awake; no model starves
  under `fair_share_round_robin`; coverage protection does not block for ever.
- **Discovery**: a recovered server's queue is attended; configured model lists
  are never overwritten.
- **Handlers, streaming, history**: a client receives one answer and is told
  when it breaks (INV-6); a row is `completed` only after a whole answer (INV-4);
  the history shows no phantom.
- **Translation**: a client's stream keeps the order of its format wherever the
  backend's ends; over several turns the backend finds its own answers and the
  result of every call again.
- **Perf**: rows keep the order of the measurements over restarts; the window is
  at least as new as the table; the trim takes no row that a restart needs.
- **Hub and console**: a connection that is closed is forgotten; a console comes
  back; what the user asked for is shown, and nothing of another window.
- **Request table**: a click or Enter acts on the row that was drawn; the cursor
  stays in sight.

## 2. Modules

| Module | Models | Extends |
|---|---|---|
| `ServerInfo` | the record of a server, Wake, scans of a list | |
| `Router` | candidates and the push strategies | `ServerInfo` |
| `JobPool` | the pool and the pull strategies | `Router` |
| `Scheduler` | Submit, the workers, the environment; its properties | `JobPool` |
| `Submission` | abstract: what Submit promises its caller | |
| `SchedulerRefinement` | `Scheduler` implements `Submission` | `Scheduler` |
| `Discovery` | pollAll and pollOne | `ServerInfo` |
| `Daemon` | scheduler and discovery on the same servers | `Scheduler`, `Discovery` |
| `Exchange` | handlers, relay, history, live tail, crash and restart, on top of the promise | `Submission` |
| `StreamTranslate` | the two stream translators and the loop that drives them | |
| `Translation` | the conversions of requests and responses, as operators | |
| `Conversation` | several turns between a client and a backend of different formats | `Translation`, `StreamTranslate` |
| `Perf` | tracker, sink, writer, table, start, shutdown, kill | |
| `Hub` | connections of the daemon's publisher | |
| `Console` | the reconnecting client, the timers and the usage overlay of the console | `Hub` |
| `Browser` | the request table of the console | |
| `MCScheduler`, `MCDaemon`, `MCConversation`, `MCBrowser` | values and specifications for TLC | |
| `SchedulerProofs` | lemmas about removing from and searching in queues; theorems: types, every job in one place | `Scheduler` |
| `AttemptProofs` | theorems: the number of attempts, the first byte, the refinement of `Submission` | `SchedulerRefinement`, `SchedulerProofs` |
| `WakeupProofs` | theorems: queues and pool are attended, alone and beside discovery | `AttemptProofs`, `Daemon` |
| `ExchangeProofs`, `PerfProofs`, `ConsoleProofs`, `BrowserProofs` | theorems | `Exchange`, `Perf`, `Console`, `Browser` |
| `ConversationProofs` | lemmas about flattened sequences and the conversions; theorems: streams and conversations | `Conversation` |

So the request path is covered in two halves that meet in `Submission`:
`Scheduler` is shown to implement it, and `Exchange` uses nothing else of the
scheduler.

### State and actions

**Scheduler.** `pc[j]` is the position of the goroutine in `Submit`: `pick`
(the Router's choice, or the compatibility check of `submitDeferred`),
`backoff`, `enqueue` (append under the mutex), `wake` (the send on Notify),
`wait` (the select on `done` and the context) and `drain` (after a cancel, when
a worker has the job). `wpc[s]` is the position of a worker: `sleep` on Notify,
`loop` (about to look for a job), `got`, `run`, `crashed`, `failq`
(failServerQueue), `deliver`, `clear` (the deferred InFlight store), `stopq`,
`drainp`, `stopp` (failPending), `exit`. `done[j]` is the channel of capacity
one. `bytes` and `runs` record what the client has received and how often Run
was called.

An action is what the code does under one lock or with one atomic or channel
operation. Three groups of operations are one step although the code makes
several: a scan over all servers (Pick, anyHealthyCompatible,
pickIdleByPriority), a worker's look at its own server together with the removal
of the job, and the stores of `dispatch` before Run. A client slot has one
request at a time; `resubmit` lets it send another.

A Run is its outcome: `ok`, `fail` (HTTP or translation error, or a panic,
before any byte), `conn` (connection error), `timeout` (`http.Client.Timeout`,
which is a connection error and also matches `context.DeadlineExceeded`),
`ctx`, `cut` (an error after the first byte) and `panicCut`.

**Discovery.** pollOne writes Healthy, then Notify, then Models; each write is
an action (`PollSucceeds`, `PollWakes`, `PollStores`). For a server with
configured models that answers in an unexpected shape the code reads Healthy and
stores it later: `PollShape`, `PollShapeStores`. `PollAll` starts the next sweep
only when the last one is over, as the WaitGroup of pollAll does.

**Exchange.** `at[j]` is the position of the handler: `submit` (blocked in
Submit, between attempts), `forward` and `relay` (in the Run closure), `finish`,
`done`, `dead` (lost in a crash). `from[j]` is the set of attempts whose bytes
the client has, with 0 for the body of writeError, the only error the code
sends. A whole body is refused by its client when that has left, or when it is
a translation longer than the Content-Length copied from the backend
(`LengthMayDiffer`). `row[j]` is the status in the
table; `missed[j]` says that the last write of this row failed, which the code
only logs. `Crash` ends the process at any moment and `Start` runs CancelStale.

**StreamTranslate.** `started`, `blockStarted`, `pendingEvent`, `done` and
`outputTok` are the fields of the translators, `out` is what the client has been
sent. The backend sends lines in any order, text and calls of tools, with noise
and broken data between them, and may end or break at any of them; `due`,
`spoken`, `counted` and `called` record what it said, and `stage` how far its
Anthropic events have come in their order, or that they have gone astray. One
action per kind of line (`Chunk`, `EventLine`, a data line, `Noise` and so on),
`Finish` at the end of the input, `Close` when the relay returns.

**Translation, Conversation.** A message is a role with a content that is a
string, an array of blocks or null, as the code distinguishes them; the
conversions keep the code's names. In `Conversation` the client repeats its
whole message list each turn, in its own format, and the backend answers with
text or calls, plainly or as a stream; `seen` is the request as the backend
gets it. `said` records each answer as the backend gave it, the calls of a
streamed one included; what the client adds to its list is what it received,
and `Carried` says which calls that is. Client and backend are external and do
what the formats allow. `Offers` is what a client may bring along; the theorems
are for any subset of `AllOffers`; `MCConversation` chooses four for TLC.

**Perf.** An observation is its number. `bySlot` is the window per key,
`sinking` what Record has stored under the lock and not yet given to the sink,
`queue` the writer's channel, `table` the rows with their ids. `written` and
`lost` record the fate of every observation. `Start` is Trim, LoadAll, Load and
SetSink; `Kill` may come at any moment, `Exit` waits for the workers and not for
the writer, as serve does.

**Hub, Console.** A connection is a slot with a handler (`registered`,
`greeted`, `reading`), a writer and a queue `out`. `BroadcastSnapshot` closes a
client whose queue is full, `CloseAll` is the shutdown, `Restart` a new hub. The
console's Update handles one message at a time; beside it run the reader inside
Recv, requests under way (`sending`) and timers (`usageTicks` per generation,
`animTicks`). In the composition a frame goes from a queue to Update in one
step.

**Browser.** Bubble Tea calls View after each Update, so each action ends with
`View(...)`, which sets what was drawn and when (`shown`). `Update` computes the
visible rows anew from the clock `now`. The rows are given by their places in
the order (`inOrder`: before the k-th come k - 1 others), which is what the
insertion sort of sortSlice ends with. Heights, offsets and the position of a
click are those of app.go; what a row says is left out.

## 3. Runs

Passing runs (states are distinct states):

| Run | Instance | Checks | States |
|---|---|---|---|
| `push` | `round_robin`, 2 servers, 2 jobs, 2 attempts; ok conn cut; cancel, stop | TypeOK, OnePlace, NoLostWakeup, NoRunAfterBytes, ImplementsSubmission, EndsOrOnDeadServer | 0.3 M |
| `pull_safety` | `deferred_model_then_capable`, same; ok fail conn cut ctx; cancel | AttemptsBounded, ImplementsSubmission | 0.5 M |
| `pull_live` | `preserve_model_coverage`, 2 models; ok fail | PoolAttended, EveryRequestEnds | 81 k |
| `fair_share` | `fair_share_round_robin`, 1 server, 2 models, 2 slots that resubmit, 1 attempt, series limit 2; ok conn; cancel, stop | NoStarvation, CancelledEnds | 0.2 M |
| `daemon` | `model_affinity_least_busy` with discovery, 2 servers (one with configured models), 1 job; ok conn | RecoveryWakes, ServedWhenAllHealthy | 0.35 M |
| `exchange` | 1 request, 3 attempts, both formats, plain and streamed, db crash gone | ExchangeTypeOK, OneSource, UntranslatedIsWhole, NoPhantomRows, RunningRowIsRunning, ErrorIsSeen, TerminalIsFinal | 9 k |
| `translation` | a conversation of 3 answers, 2 calls in one, 4 lines a stream, 1 piece of text, 4 offers, both directions; beside it either translator alone, 2 pieces of text, 10 lines a stream | StreamInOrder, AnswerKept, BackendSeesItsAnswers, CallsAreAnswered, OfferReachesBackend | 0.7 M |
| `perf` | 2 servers, 1 model, window 2, queue 1, 4 observations, 1 fault, 2 starts | RowsInOrder, WindowCoversTable, NewestKept, EventuallySettled | 0.1 M |
| `monitor` | 2 connections, 2 windows, queue 2, 1 fault, 3 generations of the overlay | ConsoleTypeOK, OneTickerEach, DataOfSelectedWindow, ClosedIsForgotten, UsageIsShown, Reconnects | 0.2 M |
| `browser` | 2 servers of which one may go, 3 requests, 6 snapshots, terminal 120 x 16, TTL 2 | ClickShowsDrawn, EnterShowsHighlighted, CursorStaysOnScreen, CursorReturns | 0.1 M |

What they show:

- **OnePlace**: at any moment a job is with its submitter, in the pool, in one
  queue, in one worker's hands, in one grabbed queue or answered. From it
  follow: dispatch never blocks on a full channel, the `default` branches of
  failServerQueue and failPending never drop a result, and Submit never returns
  while a worker holds the job.
- **NoLostWakeup**: append and wake are two steps and Notify is edge-triggered,
  and still a healthy server never sleeps on its queue without a wake to come.
  **RecoveryWakes** is the same with discovery taking servers out and in.
- **ImplementsSubmission**: for its caller Submit is the simple machine of
  `Submission`. The refinement mapping calls a request *running* while a worker
  is in its Run and *served* while a successful result is on its way.
- **EndsOrOnDeadServer**, **EveryRequestEnds**, **CancelledEnds**,
  **NoStarvation**, **ServedWhenAllHealthy**: what must happen does happen
  (EndsOrOnDeadServer until the daemon stops). The
  exceptions in the statements are the real ones of section 6.
- **PoolAttended**: a pool job with an able server has one awake. It is checked
  and proved for servers that stay up; what happens when one does not is in
  section 6.
- **OneSource** and **ErrorIsSeen**: whatever fails, a client receives bytes of
  one attempt or the body of writeError, never of two attempts, and a plain
  request that failed and got that body got an error status with it. That a
  stream which breaks should end with an error event is another matter:
  section 5.
- **UntranslatedIsWhole**: a row of an untranslated request says completed only
  when the backend's body was read to its proper end. It says nothing of how
  much a client that has left received, and translated streams break it
  (section 5).
- **NoPhantomRows**, **RunningRowIsRunning**, **TerminalIsFinal**: what the
  history shows is true of the daemon, or the database has refused a write.
- **StreamInOrder**: what order of events a client can rely on. One of the
  Anthropic format gets message_start, the block, its deltas and the closing
  events in order and once each, for chunks in any order, as soon as there is
  one. One of the OpenAI format gets [DONE] once and last whatever the backend
  sends; role, content and finish are in order, and once, when the backend's own
  intact events are (`stage`). The translator does not put them in order: a
  backend that sends text before message_start or message_delta twice makes its
  client see content before the role or finish twice.
- **AnswerKept**: whatever comes between them, all pieces of text arrive, in
  order, and the tokens recorded are those counted last.
- **BackendSeesItsAnswers**, **CallsAreAnswered**, **OfferReachesBackend**: what
  was translated to the client and comes back in the next request is again what
  the backend said: the text and the calls of an answer given in one piece, the
  text of a streamed one; every call that comes back is followed by its result
  under its id. The calls of a streamed answer do not come back (section 5).
  The system prompt of an Anthropic client is compared with what the code's own
  flattenSystem makes of it, and a null prompt is not among the offers.
- **RowsInOrder**, **WindowCoversTable**, **NewestKept**, **EventuallySettled**:
  the order of the measurements survives the unlocked call of the sink, drops
  and restarts; no row is written twice; what is not written is accounted for.
- **OneTickerEach**, **DataOfSelectedWindow**: late ticks and late answers of an
  overlay that was closed, reopened or switched change nothing.
- **ClosedIsForgotten**, **Reconnects**, **UsageIsShown**: full queues, slow
  writes, breaks of the network and restarts leave no connection behind and the
  console without what it asked for only for a while.
- **ClickShowsDrawn**, **EnterShowsHighlighted**: although the rows are computed
  anew for each key, a click on a line that shows a row and Enter act on the row
  that was drawn, as long as no cancelled row is drawn. A click also needs a
  terminal wide and high enough, and nothing is said of clicks on the border and
  the titles; the row that Enter opens is the one highlighted in the table, which
  the mouse wheel may have scrolled out of the viewport. Section 6 says what
  happens outside these conditions.
- **CursorStaysOnScreen**, **CursorReturns**: a cursor that was moved is in the
  viewport of such a terminal, and one that the list has left behind returns.

Bounds. Two jobs and two servers are the smallest instance in which a job can
be failed over, race with another one in a queue, and be excluded from a server;
two attempts make one retry, three in `exchange`. In `fair_share` a slot that
resubmits at once keeps the loaded model busy while the other one waits.
`rrIdx` is kept modulo a
common multiple of the numbers of candidates (`RRPeriod`), which is exact. The
series counter stops at the limit it is compared with, and `failedPolls` at
`UnhealthyAfter`; `UnhealthyAfter` is 1 in `daemon`, so that a server goes down
within one sweep. Requests do not interact in `Exchange` other than through a
crash, so one request is enough for TLC; the theorems are for any number. Jobs
are interchangeable, and `pull_safety` uses that symmetry. In `translation` the
instance is the sum of two (`MCConversation`): a translator alone is fed ten
lines, which are a whole Anthropic message with its text and a call, and every
kind of line follows every other; inside a conversation four lines make a stream
with text and a call (`Small`), and with three answers the last request contains
two earlier ones, in one piece or streamed, with up to two calls each and their
results. In
`perf` four observations fill a window of two twice over, and a queue of one is
full while the writer inserts; two starts make one restart. In `monitor` two
connections let the hub still hold the old one while the console dials, a queue
of two is full after the greeting, and three generations are an overlay that was
opened, closed and opened again. In `browser` the table has room for fewer lines than the
snapshots have rows, and the clock moves so that some of the finished rows
expire and others do not.

`CHECK_DEADLOCK FALSE` everywhere: when every client has its answer and the
workers sleep, nothing happens, and that is the normal end.

Fairness. Weak fairness of each submitter and of each worker: a goroutine that
can run does run, timers expire, a Run returns because the backend client has a
timeout. Nothing is assumed of clients, of crashes or of Stop. `select` with
several ready cases picks any of them, so no fairness between a result and a
cancel is assumed. In `daemon` weak fairness of discovery stands for the ticker
and for the timeouts of polls. In `perf` it is that of a worker inside Record,
of the writer and of a process that was told to stop. In `monitor` it is that of
handlers, writers, the console's reader, requests under way, the refresh ticker
and a daemon that is being restarted; faults are finitely many and nobody has to
press a key. In `browser` it is that of the tick, which re-arms itself each
second.

## 4. Proofs

All are for every number of servers, clients, models and attempts, every
strategy and every capacity, from the named assumptions of the modules only
(numbers are positive, `NoJob`, `NoModel` and `NoText` are not jobs, models or
texts, kinds and statuses are the listed ones, there is a connection slot). Four theorems have one
hypothesis more, explained below.

| Theorem | States | Rests on |
|---|---|---|
| `TypeCorrect` | `Spec => []TypeOK` | TypeOK is inductive: it says of each worker state whether there is a job, a result, a grabbed queue |
| `JobsNeverLostOrDuplicated` | `Spec => []OnePlace` | inductive with TypeOK and the state of the submitter of each job; the lemmas about queues say what Append, RemoveAt, Head and Tail do to membership and to repetition |
| `AttemptsAreBounded` | `Spec => []AttemptsBounded` | `CountInv`: Run has been called once at most for each counted attempt, and not yet for a fresh one |
| `NoAttemptAfterTheFirstByte` | `Spec => []NoRunAfterBytes`, without `panicCut` | `StartedInv`: wherever a result is, it says whether its attempt has sent a byte |
| `SchedulerKeepsItsPromise` | `Spec => ImplementsSubmission`, without `panicCut` | all four invariants; every step moves one request at most, in one of ten ways (`Moves`), and each way is a step of `Submission` or a stutter |
| `NoWakeupIsLost` | `Spec => []NoLostWakeup` | inductive with TypeOK: only a submitter at `enqueue` adds to a queue, and it goes on to `wake` the same server |
| `PoolWorkIsAttended` | `Spec /\ [][healthy' = healthy]_vars => []PoolAttended` | `BusyInv`: a server that counts as busy has a worker that will look at the pool again |
| `RecoveredServersAreServed` | `DaemonSpec => []RecoveryWakes` | inductive with TypeOK and the positions of the polls |
| `DaemonKeepsItsPromise` | `DaemonSpec => []OnePlace /\ ImplementsSubmission`, without `panicCut` | discovery writes nothing of a request |
| `ExchangeTyped` | `ExchangeSpec => []ExchangeTypeOK` | inductive |
| `OneAnswerPerClient` | `ExchangeSpec => []OneSource` | `SourceInv`: while a retry is possible the client has nothing, and a relay has written only lines of its own attempt |
| `CompletedIsWhole` | `ExchangeSpec => []UntranslatedIsWhole` | `WholeInv`: every way to a completed row comes from a body read from the backend to its end |
| `PlainErrorsAreSeen` | `ExchangeSpec => []ErrorIsSeen` | `FailureInv`: who waits for a plain answer has no status line yet |
| `HistoryHasNoPhantoms` | `ExchangeSpec => []NoPhantomRows` | `RowInv`: who may own an open row, in particular while the daemon is down |
| `RunningRowsAreRunning` | `ExchangeSpec => []RunningRowIsRunning` | `RowInv` |
| `ClosedRowsStayClosed` | `ExchangeSpec => TerminalIsFinal` | `RowInv`: a handler that still writes owns no closed row |
| `EventsComeInOrder` | `StreamSpec => []StreamInOrder` | `BlockInv`, `DoneInv`: what the flags of a translator say of the events it has sent; `OrderInv`: what the stage of the backend says of them |
| `TextIsNeitherLostNorReordered` | `StreamSpec => []AnswerKept` | `TextInv`: the k-th event with text carries the k-th piece; `HeardInv`: a translator remembers what the backend said last |
| `ConversationImplementsStreams` | `ConversationSpec => StreamSpec` | each step of a conversation opens, feeds, closes or leaves a stream, or leaves it alone (`StreamsInside`) |
| `StreamsInOrder`, `StreamedTextKept` | `ConversationSpec => []StreamInOrder`, `... => []AnswerKept` | the three theorems above |
| `AnswersSurviveTheRoundTrip` | `ConversationSpec => []BackendSeesItsAnswers` | `TurnsInv`: in every phase the turns of the list, as it would be sent now, are the answers given, without the calls that were streamed (`Carried`) |
| `EveryCallIsAnswered` | `ConversationSpec => []CallsAreAnswered` | `CallsInv`: every turn of that list is followed by its results; the last is not while the client is writing, and then the client finds its calls under their ids |
| `OffersReachTheBackend` | `ConversationSpec => []OfferReachesBackend` | `SystemInv`: no message of the list is a system message, so the one in front is the client's prompt; `SeenInv` |
| `TableKeepsOrder` | `PerfSpec => []RowsInOrder` | `OrderInv`: of each key, rows are older than what is being inserted, that older than the queue, that older than what is on its way to the sink |
| `NewestRowsStay` | `PerfSpec => []NewestKept` | `TableInv`: the table is what is left of what was written, and an id names one row |
| `RestoredWindowsCoverTable` | `PerfSpec => []WindowCoversTable` | `WindowInv`: the window also knows everything that is still on its way to the table |
| `MonitorTyped` | `MonitorSpec => []ConsoleTypeOK` | inductive |
| `TickersDoNotMultiply` | `MonitorSpec => []OneTickerEach` | `TimerInv`: generations that have not begun have no ticks |
| `NoStaleStatistics` | `MonitorSpec => []DataOfSelectedWindow` | inductive as it stands |
| `OpenConnectionsAreServed` | `MonitorSpec => []OpenIsServed` | `StoppedIsClosed`: a writer is told to stop only when its connection is closed |
| `ClicksHitTheDrawnRow` | `BrowserSpec => ClickShowsDrawn` | `RowsStayInPlace`: where no cancelled row is drawn, time takes rows from the end of the list only |
| `EnterOpensTheDrawnRow` | `BrowserSpec => EnterShowsHighlighted` | `RowsStayInPlace` |
| `CursorIsKeptInSight` | `BrowserSpec => CursorStaysOnScreen` | `BrowserInv`: the viewport holds the lines of the table drawn last, and a terminal of the usual size has room for a row |

Why the strengthenings are needed:

- `AttemptsBounded` and `NoRunAfterBytes` speak of counters that Submit and the
  worker write at different moments, in two loops that count before (push) and
  after (pull) the attempt. Only the invariant of OnePlace tells that there is
  one worker, one result or one channel to look at for a request.
- The mapping of the refinement reads the place of a request (*running* while a
  worker is in its Run, *served* while a successful result is on its way), so
  each step needs that place before and after. `StepMoves` does the work once
  for all strategies: for its requests, a step of Submit, a worker or discovery
  is one of `Moves`, and all others are untouched.
- `OneSource` alone is not inductive: a step that writes a line must know that
  the client has nothing of an earlier attempt, which is a fact about `sent`, the
  handler's position and the attempt counter. `NoPhantomRows` alone is not
  either: CancelStale acts on rows of handlers that are gone, so the invariant has
  to speak of the time between a crash and the next start.
- `AnswerKept` is stated by places: TextUpTo counts the events with text up to a
  place, and appending an event changes the count at the end only. So no
  recursion over the events is needed, in the property or in its proof.
- `BackendSeesItsAnswers` and `CallsAreAnswered` speak of a request, and only
  while the backend has it. `ConversationInv` speaks in every phase of the list
  that would be sent now (`ToldNow`); `SeenInv` says that the request is this
  list. The message that the client adds must come back as
  the turn that was said, with the same ids in both formats (`ComesBack`), so
  each kind of answer has a lemma: text, calls, both, nothing, a stream. What is
  added to the list is converted alone: the request of a longer list is the
  request of the list followed by the conversion of the new messages
  (`ToldGrows`). That is a law of flattened sequences (`FlatMappedConcat`).
  `FlattenSeq` is a recursive function; that it has a value for every sequence
  is proved by induction over a set of numbers (`Counting`, from the minimal
  element that a well-founded relation gives), which needs no operator as a
  parameter.
- `RowsInOrder` speaks of the table only, and a row is appended to it long after
  its number was given: the invariant follows an observation through the worker,
  the queue and the writer. It needs that a worker records only its own server's
  observations, so that two workers that queue in another order than they
  recorded do so for different keys.
- `NewestKept` over the trim: a row that is trimmed has WindowCap rows above it;
  if a row among those were trimmed too, the greatest of them would need
  WindowCap rows above itself. So the rows above the greatest trimmed row all
  stay (`TrimKeepsNewest`).
- `WindowCoversTable` over a restart: LoadAll reads the newest rows of a key, and
  that they fill a window in order without a gap is a count of the rows above
  each (`LoadAllFacts`, with the pigeonhole principle). Afterwards a row appears
  in the table that Record put into the window long before, and perhaps out of
  it again; hence the conjuncts of `CoverInv` about the queue and the workers.
- The rows of `Browser` are computed at two times, by View and by the next
  Update. That a request has the same place in both lists needs a count of the
  requests before it (`RankIsUnique`, `SortedRows`), and that those do not
  disappear before it does: finished requests are sorted by the time at which
  they expire. `CursorIsKeptInSight` is the arithmetic of three clamps, in
  ensureSelected, SetYOffset and SetContent, of which the first two use the
  number of lines drawn and the last the new one (`MovedCursorIsShown`).
- `OpenIsServed` (in `ConsoleProofs`) is in no run, but TLC checked it on the
  instance of `monitor` before it was proved. Handler, writer, ticker and
  shutdown may all close a connection, also one whose writer has not started;
  none stays open without a handler in the map or, once it is read, a writer.
- `OneTickerEach` is not inductive because opening the overlay adds a tick to a
  generation that has to be quiet.

The extra hypotheses, each of which is necessary:

- `"panicCut" \notin Outcomes`: the panic guard of the worker returns a result
  that says the response has not begun (`scheduler.go:471`), so after a panic
  behind the first byte the request is run again. NoRunAfterBytes is false then,
  and so is the promise. Section 6 reports it.
- `[][healthy' = healthy]_vars` in `PoolWorkIsAttended`: the server that was
  woken for a job may die before it looks at the pool, and nobody is woken in its
  place (section 6).

`EventsComeInOrder` and `TextIsNeitherLostNorReordered` are about `StreamSpec`,
the translators with any backend and any number of answers one after the other;
`ConversationImplementsStreams` carries them over to conversations. The run
`translation` checks both.

Only model-checked: everything that must eventually happen (liveness under
fairness is outside the prover), that is EndsOrOnDeadServer, EveryRequestEnds,
NoStarvation, CancelledEnds, ServedWhenAllHealthy, EventuallySettled,
ClosedIsForgotten, UsageIsShown, Reconnects and CursorReturns. Every other
property of the passing runs, each invariant and each action property, is a
theorem; the properties of the violation runs (section 5) are false.

## 5. What the documents promise and the code does not do

Two of these have a run in which TLC finds them.

- `push_stranded` (HealthyServerSuffices): submitPush picks the server, sleeps
  the backoff and appends without looking at Healthy again
  (`scheduler.go:240-266`). If the server crashes in between, the job waits in
  the queue of a dead server although another one is healthy (`docs/SRS.md:405`:
  no request must be "forgotten").
- `stream_abort` (AbortIsTold): a stream that breaks after its first line just
  ends (`streaming.go:133`). INV-6's Test 6.1 (`docs/SRS.md:401`), U-4
  (`docs/SRS.md:513`) and `docs/API.md:369-378` want an event with the error
  `stream_aborted`, then [DONE]. Test 4.1 (`docs/SRS.md:369`) wants it too. No
  code sends one.

The model does what the code does in three more, and a formula that says what the
document says fails in it at once, on the instances of `exchange` and
`translation`:

- The translating relays do not look at `scanner.Err`
  (`streaming_translate.go:92`, `:223`), so a stream that breaks is closed
  properly and recorded as `completed`; INV-4 (`docs/SRS.md:364`) says `failed`.
  UntranslatedIsWhole leaves translated streams out for this.
- For an OpenAI client runNonStream copies the headers of the Anthropic backend,
  its Content-Length included, and then writes a translated body
  (`routes_openai.go:244`). net/http refuses one that is longer, and the client
  gets neither the answer nor an error; FR-56 (`docs/SRS.md:183`) says that the
  response is translated back. (A shorter body is written, recorded as
  completed, and looks cut off to the client.)
- The translators drop the calls of tools in a stream (`translate/stream.go:106`,
  `:209-224`), so the client never sees them. `CHANGELOG.md:106-111` says that
  all four combinations work transparently, with streaming and the format of
  calls. In the model a client that gets no text at all gives up.

## 6. Seen while modelling, with no run of its own

Scheduler, discovery and handlers:

- submitDeferred wakes one idle server (`scheduler.go:339`), and the server it
  chooses still counts as idle until it dispatches, so two requests may wake the
  same one while another sleeps. If that server meets a connection error under
  the first, its worker wakes nobody and sleeps as unhealthy, and the second
  stays in the pool beside a healthy idle server until a later request of its
  model wakes a worker or the dead server comes back. The comment in dispatch
  (`scheduler.go:573`) relies on the pool being common. TLC finds it for
  HealthyServerSuffices in the instance of `push_stranded` with
  `preserve_model_coverage`, MaxAttempts 1 and the outcomes ok and conn.
- The exclusion of a failed server is lifted, or not, before the backoff
  (`scheduler.go:372`). If the only other server crashes meanwhile, nobody may
  take the job.
- A backend timeout matches `context.DeadlineExceeded` and is taken for the
  client's own context, so it is not retried (`scheduler.go:276`); FR-18
  (`docs/SRS.md:112`) says it is.
- A panic after the first byte loses ResponseStarted (`scheduler.go:471`):
  with the outcome `panicCut` NoRunAfterBytes is violated. The passing runs
  leave this outcome out. The panic also skips the write that takes the row back
  to `pending`; `Exchange` has no panics.
- A Submit after the workers have gone waits for its client to leave;
  `ErrSchedulerStopped` is declared and never returned (`scheduler.go:121`).
- submitDeferred returns the result of a cancelled job without its attempt
  number (`scheduler.go:385`), which the history records as attempt 0.
- Two workers can leave the same model at once under
  `preserve_model_coverage`, each relying on the other's CurrentModel
  (`pool.go:239`).
- For a server with configured models pollOne stores Healthy after a read
  (`discovery.go:181`); a crash detected in between is overwritten and the
  worker is not woken. RecoveryWakes and ServedWhenAllHealthy leave these
  servers out.
- pollOne wakes the worker before it stores the new list (`discovery.go:223`).
  With a pull strategy the worker finds nothing and sleeps; the job waits for
  another wake.
- The status line of a stream goes out before its first line
  (`streaming.go:75`), so a stream that fails before any byte ends with status
  200 and an error body. ErrorIsSeen is therefore stated for plain requests.
- A 4xx of a backend is retried like any failure; FR-23 says it is not.

Translation:

- A stream in which no chunk is JSON ends with message_delta and message_stop and
  has no message_start: StreamInOrder leaves it out. finish_reason is dropped;
  stop_reason of a stream is always end_turn.
- Every message_delta of an Anthropic backend becomes a chunk with finish_reason;
  the format allows more than one.
- An OpenAI system or tool message whose content is an array is lost (FR-57,
  `docs/SRS.md:184`), an Anthropic tool_result with array content becomes empty,
  and `"system": null` becomes the system message `<nil>`.
- An Anthropic user message with a tool_result before a text becomes the text
  followed by the tool message.

Perf:

- With a push strategy pickNext has already set CurrentModel, so dispatch never
  sees a reload and the time of loading is never learned (`scheduler.go:605`).
- A comment says that SetSink comes after Load so that nothing is queued again;
  Load never calls the sink. serve does not wait for the writer, so what is
  queued at a shutdown is lost.

Hub and console:

- Recv never returns ErrReconnecting, although `client.go:77-90` says so, and
  the messages that would show "reconnecting" (FR-48) are never produced.
- Commands read Client.conn while Recv replaces it, without a lock; a request on
  the old connection is lost, and the refresh ticker makes up for it.
- A connection registered after closeAll is not closed by the hub. A snapshot
  may be queued before the hello.

Request table:

- Below 100 columns the table has no line of titles, but ensureSelected
  (`app.go:939`) and handleClick (`app.go:443`) count one: a click selects the
  row above, and moving up can hide the cursor. In a low terminal the drawing is
  higher than the screen and its upper lines are cut, so clicks are off.
- Cancelled rows are sorted among the finished ones but never expire; a finished
  row above them that expires moves them until the next drawing.
- handleClick counts the border and the titles as lines of the table: above a
  table scrolled by two lines or more, a click on them selects a row that is
  hidden.
- Page, home and end do not call ensureSelected. The filter does not clamp the
  cursor until the next tick. The mouse acts while an overlay is open.
- The server cursor is clamped only for drawing: after a restart with fewer
  servers Enter and the arrow keys act on an index without a server.

## 7. Not modelled

- Usage, timings, logs and wording decide nothing in what is checked. The
  regression of the perf tracker is floating-point arithmetic; its verdict on a
  request is an input of `Perf`.
- Sampling parameters, images, ids and usage counters in `translate` are passed
  on or dropped.
- `/health`, `/v1/models`, authentication and configuration read what is fixed
  or what others write. `webui` serves embedded files.
- Of the console: colours and texts, the scrolling of the info pane, the tabs and
  pivots of the usage overlay, the request for a snapshot (F5).
- Backends are HTTP calls; their outcomes are inputs.
- The service glue and the command line start things.

## 8. Plan

Done: `ServerInfo`, `Router`, `JobPool`, `Scheduler`, then `Discovery` and
`Daemon`, then `Submission` and `Exchange`, with the theorems of section 4; then
`StreamTranslate`, `Translation` and `Conversation`, `Perf`, `Hub` and `Console`,
`Browser`, and the runs of section 5.

Next: the length of the backoff as a function with its width, and the defaults
and the validation of the configuration as operators over small inputs.

A theorem that would come next is about `Router`: that the round-robin over an
unchanging set of candidates picks each in turn.
