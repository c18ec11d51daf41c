----------------------------- MODULE Scheduler ------------------------------
(***************************************************************************)
(* Submit and the workers (internal/core/scheduler.go).                     *)
(*                                                                         *)
(* One submitter per client slot runs Submit: submitPush with runOnServer  *)
(* for the push strategies, submitDeferred for the pull strategies.  One    *)
(* worker per server takes jobs from the server's queue or from the shared *)
(* pool, runs each once, and sends the result on the job's channel of      *)
(* capacity one.  A step is what the code does under one lock or with one  *)
(* atomic or channel operation; reads of several servers made by one scan  *)
(* (Pick, anyHealthyCompatible, pickIdleByPriority), a worker's look at    *)
(* its own server with the removal of a job, and the stores of dispatch up  *)
(* to the call of Run are one step each.                                   *)
(*                                                                         *)
(* Timings, perf points, the slow flag, the failure counter and the log    *)
(* are left out: they decide nothing here.                                 *)
(***************************************************************************)
EXTENDS JobPool

CONSTANTS
    MaxAttempts,  \* retry.max_attempts
    NoJob,        \* a worker with empty hands
    Outcomes,     \* how a Run may end, a subset of OutcomeKinds
    Events        \* what the environment does, a subset of EventKinds

ASSUME MaxAttemptsAssumption == MaxAttempts \in Nat \ {0}
ASSUME NoJobAssumption == NoJob \notin Jobs

(* How Job.Run ends.  ok: the whole response was written to the client.     *)
(* fail: an HTTP error, a translation error or a panic, before any byte.    *)
(* conn: a connection error.  timeout: http.Client.Timeout before the       *)
(* answer's header, which is a connection error and also matches            *)
(* context.DeadlineExceeded.  ctx: the client went away, or the timeout     *)
(* while the body is read.  cut: an error after the first byte.  panicCut:  *)
(* a panic after the first byte.                                            *)
OutcomeKinds == {"ok", "fail", "conn", "timeout", "cut", "ctx", "panicCut"}
EventKinds == {"cancel", "stop", "resubmit"}

ASSUME OutcomesAssumption == Outcomes \subseteq OutcomeKinds
ASSUME EventsAssumption == Events \subseteq EventKinds

(* The error of a JobResult.  down: failServerQueue.  stopped: failPending. *)
(* noserver: ErrNoServer, which only Submit returns.                        *)
ResultKinds == {"ok", "fail", "conn", "timeout", "cut", "ctx", "down",
                "stopped", "noserver"}

NoServer == 0

VARIABLES
    pc,         \* where the submitter of a job is
    target,     \* the server runOnServer was called with
    total,      \* attempts counted so far by Submit
    done,       \* Job.done, a channel of capacity one
    ret,        \* lastResult, and the value Submit returned at "ended"
    cancelled,  \* the request context of the client is done
    bytes,      \* the client received a byte of a response
    runs,       \* history: how often Run was called for this request
    wpc,        \* where the worker of a server is
    hand,       \* the job the worker took
    wres,       \* how the worker's Run ended
    failing,    \* queue grabbed by failServerQueue or failPending
    stopped     \* the scheduler's context is done

submitVars == <<pc, target, total, done, ret, cancelled, bytes, runs>>
workerVars == <<wpc, hand, wres, failing>>
vars == <<serverVars, rrIdx, poolVars, submitVars, workerVars, stopped>>

Pull == Strategy \in PullStrategies

SubmitStates == {"idle", "pick", "backoff", "enqueue", "wake", "wait",
                 "drain", "ended"}
WorkerStates == {"sleep", "loop", "got", "run", "crashed", "failq", "deliver",
                 "clear", "stopq", "stopp", "drainp", "exit"}

\* A submitter that handed its job over and has not read the result.
Waiting == {"wake", "wait", "drain"}

Empty == [kind |-> "none", server |-> NoServer]
Message(k, s) == [kind |-> k, server |-> s]
Messages == [kind : ResultKinds \cup {"none"}, server : Servers \cup {NoServer}]

NoReturn == [kind |-> "none", started |-> FALSE, attempt |-> 0]
Return(k, b, n) == [kind |-> k, started |-> b, attempt |-> n]
Returns == [kind : ResultKinds \cup {"none"}, started : BOOLEAN,
            attempt : Nat]

\* JobResult.ResponseStarted; a panic loses it (runWithPanicGuard).
ResponseStarted(k) == k \in {"ok", "cut"}

\* errors.Is(err, context.Canceled) or context.DeadlineExceeded.
IsContextError(k) == k \in {"ctx", "timeout", "stopped"}

isConnectionError(k) == k \in {"conn", "timeout"}

\* Mutants of IsFinal: one attempt too many, and a retry of a started response.
IsFinalLate(k, n) ==
    k = "ok" \/ ResponseStarted(k) \/ IsContextError(k) \/ n > MaxAttempts
IsFinalUnlessStarted(k, n) ==
    k = "ok" \/ IsContextError(k) \/ n >= MaxAttempts

\* Submit gives up: success, a started response, the context, or the limit.
IsFinal(k, n) ==
    \/ k = "ok"
    \/ ResponseStarted(k)
    \/ IsContextError(k)
    \/ n >= MaxAttempts

-----------------------------------------------------------------------------
\* InitialHealthcheck is over when the workers start: a server that did not
\* answer is out of routing and has no models.
Init ==
    /\ healthy \in [Servers -> BOOLEAN]
    /\ inFlight = [s \in Servers |-> FALSE]
    /\ currentModel = [s \in Servers |-> NoModel]
    /\ models \in [Servers -> SUBSET Models]
    /\ \A s \in Servers : ~healthy[s] => models[s] = {}
    /\ queue = [s \in Servers |-> <<>>]
    /\ notify = [s \in Servers |-> FALSE]
    /\ lastDispatched = [s \in Servers |-> NoModel]
    /\ consecutive = [s \in Servers |-> 0]
    /\ rrIdx = 0
    /\ pool = <<>>
    /\ jobModel = [j \in Jobs |-> NoModel]
    /\ visited = [j \in Jobs |-> {}]
    /\ pc = [j \in Jobs |-> "idle"]
    /\ target = [j \in Jobs |-> NoServer]
    /\ total = [j \in Jobs |-> 0]
    /\ done = [j \in Jobs |-> Empty]
    /\ ret = [j \in Jobs |-> NoReturn]
    /\ cancelled = [j \in Jobs |-> FALSE]
    /\ bytes = [j \in Jobs |-> FALSE]
    /\ runs = [j \in Jobs |-> 0]
    /\ wpc = [s \in Servers |-> "sleep"]
    /\ hand = [s \in Servers |-> NoJob]
    /\ wres = [s \in Servers |-> "none"]
    /\ failing = [s \in Servers |-> <<>>]
    /\ stopped = FALSE

Goto(j, state) == pc' = [pc EXCEPT ![j] = state]

\* Submit returns to the HTTP handler; its locals and the Job are garbage.
Finish(j, r) ==
    /\ Goto(j, "ended")
    /\ ret' = [ret EXCEPT ![j] = r]
    /\ jobModel' = [jobModel EXCEPT ![j] = NoModel]
    /\ visited' = [visited EXCEPT ![j] = {}]
    /\ target' = [target EXCEPT ![j] = NoServer]
    /\ total' = [total EXCEPT ![j] = 0]
    /\ cancelled' = [cancelled EXCEPT ![j] = FALSE]
    /\ runs' = [runs EXCEPT ![j] = 0]

\* Submit goes on and leaves those as they are.
GoOn(j, state) ==
    /\ Goto(j, state)
    /\ UNCHANGED <<ret, jobModel, visited, target, total, cancelled, runs>>

-----------------------------------------------------------------------------
(* The submitter.                                                          *)

\* A client slot calls Submit with a new Job; with the event "resubmit" it
\* goes on to a next request once the last one has ended.
Submit(j, m) ==
    /\ pc[j] \in {"idle"} \cup (IF "resubmit" \in Events THEN {"ended"} ELSE {})
    /\ Goto(j, "pick")
    /\ jobModel' = [jobModel EXCEPT ![j] = m]
    /\ done' = [done EXCEPT ![j] = Empty]
    /\ ret' = [ret EXCEPT ![j] = NoReturn]
    /\ bytes' = [bytes EXCEPT ![j] = FALSE]
    /\ UNCHANGED <<serverVars, rrIdx, pool, visited, target, total, cancelled,
                   runs, workerVars, stopped>>

\* The client's connection is lost.
ClientCancel(j) ==
    /\ "cancel" \in Events
    /\ pc[j] \notin {"idle", "ended"}
    /\ ~cancelled[j]
    /\ cancelled' = [cancelled EXCEPT ![j] = TRUE]
    /\ UNCHANGED <<serverVars, rrIdx, poolVars, workerVars, stopped,
                   pc, target, total, done, ret, bytes, runs>>

\* submitPush: candidates without the last failed server, or all of them when
\* that leaves none.
PickCandidates(j) ==
    LET others == candidates(jobModel[j], visited[j])
    IN  IF others # {} THEN others ELSE candidates(jobModel[j], {})

\* submitPush: the server is picked before the backoff.
PickServer(j) ==
    /\ ~Pull
    /\ pc[j] = "pick"
    /\ \E s \in Pick(jobModel[j], PickCandidates(j)) :
         target' = [target EXCEPT ![j] = s]
    /\ CountPick
    /\ total' = [total EXCEPT ![j] = @ + 1]
    /\ Goto(j, IF total[j] >= 1 THEN "backoff" ELSE "enqueue")
    /\ UNCHANGED <<serverVars, poolVars, workerVars, stopped,
                   done, ret, cancelled, bytes, runs>>

\* submitPush: no candidate; the last attempt's result, or ErrNoServer.
PickFails(j) ==
    /\ ~Pull
    /\ pc[j] = "pick"
    /\ PickCandidates(j) = {}
    /\ Finish(j, IF total[j] > 0 THEN ret[j] ELSE Return("noserver", FALSE, 0))
    /\ UNCHANGED <<serverVars, rrIdx, pool, workerVars, stopped, done, bytes>>

\* submitDeferred: a model nobody serves is refused at once.
CheckCompatible(j) ==
    /\ Pull
    /\ pc[j] = "pick"
    /\ IF anyHealthyCompatible(jobModel[j], {})
       THEN GoOn(j, "enqueue")
       ELSE Finish(j, Return("noserver", FALSE, 0))
    /\ UNCHANGED <<serverVars, rrIdx, pool, workerVars, stopped, done, bytes>>

BackoffExpires(j) ==
    /\ pc[j] = "backoff"
    /\ GoOn(j, "enqueue")
    /\ UNCHANGED <<serverVars, rrIdx, pool, workerVars, stopped, done, bytes>>

\* The context ends the backoff; submitPush has already counted the attempt.
BackoffCancelled(j) ==
    /\ pc[j] = "backoff"
    /\ cancelled[j]
    /\ Finish(j, Return("ctx", FALSE, total[j]))
    /\ UNCHANGED <<serverVars, rrIdx, pool, workerVars, stopped, done, bytes>>

\* runOnServer: append to the server's queue, under its mutex.
Enqueue(j) ==
    /\ ~Pull
    /\ pc[j] = "enqueue"
    /\ queue' = [queue EXCEPT ![target[j]] = Append(@, j)]
    /\ GoOn(j, "wake")
    /\ UNCHANGED <<healthy, inFlight, currentModel, models, notify,
                   lastDispatched, consecutive, rrIdx, pool, workerVars,
                   stopped, done, bytes>>

WakeTarget(j) ==
    /\ ~Pull
    /\ pc[j] = "wake"
    /\ Wake(target[j])
    /\ GoOn(j, "wait")
    /\ UNCHANGED <<healthy, inFlight, currentModel, models, queue,
                   lastDispatched, consecutive, rrIdx, pool, workerVars,
                   stopped, done, bytes>>

\* submitDeferred: Push on a fresh result channel.
PushPool(j) ==
    /\ Pull
    /\ pc[j] = "enqueue"
    /\ pool' = Append(pool, j)
    /\ done' = [done EXCEPT ![j] = Empty]
    /\ GoOn(j, "wake")
    /\ UNCHANGED <<serverVars, rrIdx, workerVars, stopped, bytes>>

\* submitDeferred: wake the best idle server, or nobody when all are busy.
WakeIdle(j) ==
    /\ Pull
    /\ pc[j] = "wake"
    /\ LET best == pickIdleByPriority(jobModel[j], visited[j])
       IN  notify' = [s \in Servers |-> notify[s] \/ s \in best]
    /\ GoOn(j, "wait")
    /\ UNCHANGED <<healthy, inFlight, currentModel, models, queue,
                   lastDispatched, consecutive, rrIdx, pool, workerVars,
                   stopped, done, bytes>>

\* After a failed attempt on s the next one excludes s only; submitDeferred
\* lifts the exclusion at once when nobody else is left.
NextExclusion(j, s) ==
    IF Pull /\ ~anyHealthyCompatible(jobModel[j], {s}) THEN {} ELSE {s}

\* The result of an attempt arrives.  submitPush handles a result it drained
\* after a cancel in the same way.
Receive(j) ==
    /\ pc[j] \in {"wait"} \cup (IF Pull THEN {} ELSE {"drain"})
    /\ done[j] # Empty
    /\ LET k == done[j].kind
           s == IF Pull THEN done[j].server ELSE target[j]
           n == IF Pull THEN total[j] + 1 ELSE total[j]
           r == Return(k, ResponseStarted(k), n)
       IN  IF IsFinal(k, n) THEN Finish(j, r)
           ELSE /\ Goto(j, IF Pull THEN "backoff" ELSE "pick")
                /\ ret' = [ret EXCEPT ![j] = r]
                /\ total' = [total EXCEPT ![j] = n]
                /\ visited' = [visited EXCEPT ![j] = NextExclusion(j, s)]
                /\ UNCHANGED <<jobModel, target, cancelled, runs>>
    /\ done' = [done EXCEPT ![j] = Empty]
    /\ UNCHANGED <<serverVars, rrIdx, pool, workerVars, stopped, bytes>>

\* The client left while the job is still queued: cancelQueued or pool.Remove
\* takes it out and Submit returns.
CancelQueued(j) ==
    /\ pc[j] = "wait"
    /\ cancelled[j]
    /\ IF Pull
       THEN /\ \E i \in First(Positions(pool, j)) : pool' = RemoveAt(pool, i)
            /\ UNCHANGED queue
       ELSE /\ \E i \in First(Positions(queue[target[j]], j)) :
                 queue' = [queue EXCEPT ![target[j]] = RemoveAt(@, i)]
            /\ UNCHANGED pool
    /\ Finish(j, Return("ctx", FALSE, IF Pull THEN total[j] + 1 ELSE total[j]))
    /\ UNCHANGED <<healthy, inFlight, currentModel, models, notify,
                   lastDispatched, consecutive, rrIdx, workerVars, stopped,
                   done, bytes>>

\* Mutant of CancelTaken: Submit returns while the worker has the job.
CancelTakenReturns(j) ==
    /\ pc[j] = "wait"
    /\ cancelled[j]
    /\ Positions(IF Pull THEN pool ELSE queue[target[j]], j) = {}
    /\ Finish(j, Return("ctx", FALSE, total[j]))
    /\ UNCHANGED <<serverVars, rrIdx, pool, workerVars, stopped, done, bytes>>

\* The client left and the job is not queued any more: wait for the worker.
CancelTaken(j) ==
    /\ pc[j] = "wait"
    /\ cancelled[j]
    /\ Positions(IF Pull THEN pool ELSE queue[target[j]], j) = {}
    /\ GoOn(j, "drain")
    /\ UNCHANGED <<serverVars, rrIdx, pool, workerVars, stopped, done, bytes>>

\* submitDeferred returns ctx.Err() with the worker's result as it came.
ReceiveLate(j) ==
    /\ Pull
    /\ pc[j] = "drain"
    /\ done[j] # Empty
    /\ done' = [done EXCEPT ![j] = Empty]
    /\ Finish(j, Return("ctx", ResponseStarted(done[j].kind), 0))
    /\ UNCHANGED <<serverVars, rrIdx, pool, workerVars, stopped, bytes>>

-----------------------------------------------------------------------------
(* The worker of server s.                                                 *)

WorkerGoto(s, state) == wpc' = [wpc EXCEPT ![s] = state]

\* The scheduler's context is cancelled.
Stop ==
    /\ "stop" \in Events
    /\ ~stopped
    /\ stopped' = TRUE
    /\ UNCHANGED <<serverVars, rrIdx, poolVars, submitVars, workerVars>>

AwakeWorker(s) ==
    /\ wpc[s] = "sleep"
    /\ notify[s]
    /\ notify' = [notify EXCEPT ![s] = FALSE]
    /\ WorkerGoto(s, "loop")
    /\ UNCHANGED <<healthy, inFlight, currentModel, models, queue,
                   lastDispatched, consecutive, rrIdx, poolVars, submitVars,
                   hand, wres, failing, stopped>>

\* pickNext: the oldest job for the loaded model, else the oldest job.
pickNext(s) ==
    LET drain == {i \in DOMAIN queue[s] : jobModel[queue[s][i]] = currentModel[s]}
    IN  IF ~healthy[s] THEN {}
        ELSE First(IF drain # {} THEN drain ELSE DOMAIN queue[s])

PopQueue(s) ==
    /\ ~Pull
    /\ wpc[s] = "loop"
    /\ ~stopped
    /\ \E i \in pickNext(s) :
         /\ hand' = [hand EXCEPT ![s] = queue[s][i]]
         /\ queue' = [queue EXCEPT ![s] = RemoveAt(@, i)]
         /\ currentModel' = [currentModel EXCEPT ![s] = jobModel[queue[s][i]]]
    /\ WorkerGoto(s, "got")
    /\ UNCHANGED <<healthy, inFlight, models, notify, lastDispatched,
                   consecutive, rrIdx, poolVars, submitVars, wres, failing,
                   stopped>>

PopShared(s) ==
    /\ Pull
    /\ wpc[s] = "loop"
    /\ ~stopped
    /\ \E i \in PopPool(s) :
         /\ hand' = [hand EXCEPT ![s] = pool[i]]
         /\ pool' = RemoveAt(pool, i)
    /\ WorkerGoto(s, "got")
    /\ UNCHANGED <<serverVars, rrIdx, jobModel, visited, submitVars, wres,
                   failing, stopped>>

\* Nothing for this server: back to the channel Notify.
PopNothing(s) ==
    /\ wpc[s] = "loop"
    /\ ~stopped
    /\ (IF Pull THEN PopPool(s) ELSE pickNext(s)) = {}
    /\ WorkerGoto(s, "sleep")
    /\ UNCHANGED <<serverVars, rrIdx, poolVars, submitVars, hand, wres,
                   failing, stopped>>

\* The series counter, kept up to the limit it is compared with.
NextConsecutive(s, m) ==
    IF lastDispatched[s] # m THEN 1
    ELSE IF consecutive[s] < MaxConsecutive THEN consecutive[s] + 1
    ELSE consecutive[s]

\* dispatch up to the call of Run.
Dispatch(s) ==
    /\ wpc[s] = "got"
    /\ LET m == jobModel[hand[s]]
       IN  /\ currentModel' = [currentModel EXCEPT ![s] = m]
           /\ lastDispatched' = [lastDispatched EXCEPT ![s] = m]
           /\ consecutive' = [consecutive EXCEPT ![s] = NextConsecutive(s, m)]
    /\ inFlight' = [inFlight EXCEPT ![s] = TRUE]
    /\ runs' = [runs EXCEPT ![hand[s]] = @ + 1]
    /\ WorkerGoto(s, "run")
    /\ UNCHANGED <<healthy, models, queue, notify, rrIdx, poolVars, pc, target,
                   total, done, ret, cancelled, bytes, hand, wres, failing,
                   stopped>>

\* The error a JobResult carries: the panic guard forgets the first byte.
OutcomeKind(o) == IF o = "panicCut" THEN "fail" ELSE o

\* Run returns; a connection error takes a healthy server out of routing.
RunEnds(s, o) ==
    /\ wpc[s] = "run"
    /\ wres' = [wres EXCEPT ![s] = OutcomeKind(o)]
    /\ bytes' = [bytes EXCEPT ![hand[s]] = @ \/ o \in {"ok", "cut", "panicCut"}]
    /\ IF isConnectionError(OutcomeKind(o)) /\ healthy[s]
       THEN /\ healthy' = [healthy EXCEPT ![s] = FALSE]
            /\ WorkerGoto(s, "crashed")
       ELSE /\ WorkerGoto(s, "deliver")
            /\ UNCHANGED healthy
    /\ UNCHANGED <<inFlight, currentModel, models, queue, notify,
                   lastDispatched, consecutive, rrIdx, poolVars, pc, target,
                   total, done, ret, cancelled, runs, hand, failing, stopped>>

\* Mutant of GrabQueue: the grabbed jobs stay in the queue.
CopyQueue(s, state) ==
    /\ failing' = [failing EXCEPT ![s] = queue[s]]
    /\ WorkerGoto(s, state)
    /\ UNCHANGED <<serverVars, rrIdx, poolVars, submitVars, hand, wres, stopped>>

\* failServerQueue and failPending take the whole queue under the mutex.
GrabQueue(s, state) ==
    /\ failing' = [failing EXCEPT ![s] = queue[s]]
    /\ queue' = [queue EXCEPT ![s] = <<>>]
    /\ WorkerGoto(s, state)
    /\ UNCHANGED <<healthy, inFlight, currentModel, models, notify,
                   lastDispatched, consecutive, rrIdx, poolVars, submitVars,
                   hand, wres, stopped>>

FailServerQueue(s) == wpc[s] = "crashed" /\ GrabQueue(s, "failq")

\* The context ends the worker while it sleeps or before it takes a job.
FailPending(s) ==
    /\ wpc[s] \in {"sleep", "loop"}
    /\ stopped
    /\ GrabQueue(s, "stopq")

\* failPending: drainAll empties the shared pool.
DrainPool(s) ==
    /\ wpc[s] = "drainp"
    /\ failing' = [failing EXCEPT ![s] = pool]
    /\ pool' = <<>>
    /\ WorkerGoto(s, "stopp")
    /\ UNCHANGED <<serverVars, rrIdx, jobModel, visited, submitVars, hand,
                   wres, stopped>>

\* What a grabbed job is told.
FailMessage(s) ==
    IF wpc[s] = "failq" THEN Message("down", s) ELSE Message("stopped", NoServer)

\* The send with an empty default branch: a full channel drops the result.
FailNext(s) ==
    /\ wpc[s] \in {"failq", "stopq", "stopp"}
    /\ failing[s] # <<>>
    /\ LET j == Head(failing[s])
       IN  done' = IF done[j] = Empty THEN [done EXCEPT ![j] = FailMessage(s)]
                                      ELSE done
    /\ failing' = [failing EXCEPT ![s] = Tail(@)]
    /\ UNCHANGED <<serverVars, rrIdx, poolVars, pc, target, total, ret,
                   cancelled, bytes, runs, wpc, hand, wres, stopped>>

\* Mutant of AfterFailing: dispatch returns after failServerQueue, and the job
\* that met the connection error is never answered.
AfterFailingReturn(state) ==
    CASE state = "failq" -> "loop"
      [] state = "stopq" -> IF Pull THEN "drainp" ELSE "exit"
      [] OTHER           -> "exit"

AfterFailing(state) ==
    CASE state = "failq" -> "deliver"
      [] state = "stopq" -> IF Pull THEN "drainp" ELSE "exit"
      [] OTHER           -> "exit"

FailingDone(s) ==
    /\ wpc[s] \in {"failq", "stopq", "stopp"}
    /\ failing[s] = <<>>
    /\ WorkerGoto(s, AfterFailing(wpc[s]))
    /\ UNCHANGED <<serverVars, rrIdx, poolVars, submitVars, hand, wres,
                   failing, stopped>>

\* The send that ends dispatch: it blocks while the channel is full.
Deliver(s) ==
    /\ wpc[s] = "deliver"
    /\ done[hand[s]] = Empty
    /\ done' = [done EXCEPT ![hand[s]] = Message(wres[s], s)]
    /\ hand' = [hand EXCEPT ![s] = NoJob]
    /\ wres' = [wres EXCEPT ![s] = "none"]
    /\ WorkerGoto(s, "clear")
    /\ UNCHANGED <<serverVars, rrIdx, poolVars, pc, target, total, ret,
                   cancelled, bytes, runs, failing, stopped>>

\* Mutant of ClearInFlight: one job per token, without a second look.
ClearAndSleep(s) ==
    /\ wpc[s] = "clear"
    /\ inFlight' = [inFlight EXCEPT ![s] = FALSE]
    /\ WorkerGoto(s, "sleep")
    /\ UNCHANGED <<healthy, currentModel, models, queue, notify,
                   lastDispatched, consecutive, rrIdx, poolVars, submitVars,
                   hand, wres, failing, stopped>>

\* The deferred store of dispatch, after the result was sent; the worker then
\* looks for the next job before it sleeps.
ClearInFlight(s) ==
    /\ wpc[s] = "clear"
    /\ inFlight' = [inFlight EXCEPT ![s] = FALSE]
    /\ WorkerGoto(s, "loop")
    /\ UNCHANGED <<healthy, currentModel, models, queue, notify,
                   lastDispatched, consecutive, rrIdx, poolVars, submitVars,
                   hand, wres, failing, stopped>>

-----------------------------------------------------------------------------
\* Steps of the submitter's own goroutine.
SubmitterStep(j) ==
    \/ PickServer(j) \/ PickFails(j) \/ CheckCompatible(j)
    \/ BackoffExpires(j) \/ BackoffCancelled(j)
    \/ Enqueue(j) \/ WakeTarget(j) \/ PushPool(j) \/ WakeIdle(j)
    \/ Receive(j) \/ CancelQueued(j) \/ CancelTaken(j) \/ ReceiveLate(j)

\* Steps of the worker's goroutine.
WorkerStep(s) ==
    \/ AwakeWorker(s) \/ PopQueue(s) \/ PopShared(s) \/ PopNothing(s)
    \/ Dispatch(s) \/ (\E o \in Outcomes : RunEnds(s, o))
    \/ FailServerQueue(s) \/ FailPending(s) \/ DrainPool(s)
    \/ FailNext(s) \/ FailingDone(s) \/ Deliver(s) \/ ClearInFlight(s)

Next ==
    \/ \E j \in Jobs, m \in Models : Submit(j, m)
    \/ \E j \in Jobs : ClientCancel(j)
    \/ Stop
    \/ \E j \in Jobs : SubmitterStep(j)
    \/ \E s \in Servers : WorkerStep(s)

Spec == Init /\ [][Next]_vars

\* Goroutines that can run do run, timers expire and every Run returns (the
\* backend client has a timeout); nothing is assumed of clients or of Stop.
Fairness ==
    /\ \A j \in Jobs : WF_vars(SubmitterStep(j))
    /\ \A s \in Servers : WF_vars(WorkerStep(s))

FairSpec == Spec /\ Fairness

-----------------------------------------------------------------------------
(* Properties.                                                             *)

\* Worker states in which the worker has a job, and those in which its Run
\* has ended.
Holding == {"got", "run", "crashed", "failq", "deliver"}
RunOver == {"crashed", "failq", "deliver"}

\* Submitter states of the push strategies in which a server is picked.
Picked == {"backoff", "enqueue", "wake", "wait", "drain"}

\* Type invariant, with what is meaningful where: a worker has a job exactly
\* from taking it to answering it, and a result once Run has returned; a
\* submitter that is past Pick has a server.
TypeOK ==
    /\ healthy \in [Servers -> BOOLEAN]
    /\ inFlight \in [Servers -> BOOLEAN]
    /\ currentModel \in [Servers -> Models \cup {NoModel}]
    /\ models \in [Servers -> SUBSET Models]
    /\ queue \in [Servers -> Seq(Jobs)]
    /\ notify \in [Servers -> BOOLEAN]
    /\ lastDispatched \in [Servers -> Models \cup {NoModel}]
    /\ consecutive \in [Servers -> Nat]
    /\ rrIdx \in Nat
    /\ pool \in Seq(Jobs)
    /\ jobModel \in [Jobs -> Models \cup {NoModel}]
    /\ visited \in [Jobs -> SUBSET (Servers \cup {NoServer})]
    /\ pc \in [Jobs -> SubmitStates]
    /\ target \in [Jobs -> Servers \cup {NoServer}]
    /\ total \in [Jobs -> Nat]
    /\ done \in [Jobs -> Messages]
    /\ ret \in [Jobs -> Returns]
    /\ cancelled \in [Jobs -> BOOLEAN]
    /\ bytes \in [Jobs -> BOOLEAN]
    /\ runs \in [Jobs -> Nat]
    /\ wpc \in [Servers -> WorkerStates]
    /\ hand \in [Servers -> Jobs \cup {NoJob}]
    /\ wres \in [Servers -> ResultKinds \cup {"none"}]
    /\ failing \in [Servers -> Seq(Jobs)]
    /\ stopped \in BOOLEAN
    /\ \A s \in Servers : wpc[s] \in Holding <=> hand[s] # NoJob
    /\ \A s \in Servers : wpc[s] \in RunOver => wres[s] # "none"
    /\ \A s \in Servers :
         wpc[s] \notin {"failq", "stopq", "stopp"} => failing[s] = <<>>
    /\ ~Pull => \A j \in Jobs : pc[j] \in Picked => target[j] \in Servers

\* Where a job can be.
Places ==
    ({"queue", "hand", "failing"} \X Servers)
        \cup ({"submitter", "pool", "done"} \X {NoServer})

\* The job j is at p and nowhere else: with its own submitter, in the pool,
\* answered, in a server's queue, with a worker, or in a grabbed queue.
IsAt(j, p) ==
    /\ p = <<"submitter", NoServer>> <=> pc[j] \notin Waiting
    /\ p = <<"pool", NoServer>> <=> Contains(pool, j)
    /\ p = <<"done", NoServer>> <=> done[j] # Empty
    /\ \A s \in Servers :
         /\ p = <<"queue", s>> <=> Contains(queue[s], j)
         /\ p = <<"hand", s>> <=> hand[s] = j
         /\ p = <<"failing", s>> <=> Contains(failing[s], j)

\* Every job is in exactly one place, and in no queue twice.  So no result is
\* sent to a full channel (dispatch never blocks on j.done, the default
\* branches of failServerQueue and failPending never drop a result), no job
\* is run by two workers, and Submit never returns while a worker or a queue
\* still has the job, whose Run writes to the client's connection.
OnePlace ==
    /\ \A j \in Jobs : \E p \in Places : IsAt(j, p)
    /\ IsInjective(pool)
    /\ \A s \in Servers : IsInjective(queue[s]) /\ IsInjective(failing[s])

\* A push queue of a running healthy server is never left with its worker
\* asleep: the token is in Notify, or a submitter is about to put it there.
\* (runOnServer appends first and wakes second; Notify is edge-triggered.)
NoLostWakeup ==
    \A s \in Servers :
        (healthy[s] /\ wpc[s] = "sleep" /\ queue[s] # <<>>) =>
            \/ notify[s]
            \/ \E j \in Jobs : pc[j] = "wake" /\ target[j] = s

\* INV-5 (a): a request is never run more than MaxAttempts times, and the
\* attempt that Submit reports is within the limit too.
AttemptsBounded ==
    \A j \in Jobs : runs[j] <= MaxAttempts /\ ret[j].attempt <= MaxAttempts

\* INV-6: Run is not called again for a request whose client has already
\* received a byte.
NoRunAfterBytes ==
    [][\A j \in Jobs : runs'[j] > runs[j] => ~bytes[j]]_vars

Active(j) == pc[j] \notin {"idle", "ended"}

\* The client of a cancelled request is let go, whatever happened to its
\* servers or to the scheduler: Submit always comes back after ctx.Done.
CancelledEnds == \A j \in Jobs : cancelled[j] ~> pc[j] = "ended"

\* A request left behind in the queue of a server that is down.
OnDeadServer(j) == \E s \in Servers : ~healthy[s] /\ Contains(queue[s], j)

\* Push strategies, INV-7: a request is answered unless it is left behind in
\* the queue of a server that is down, or the daemon stops.
EndsOrOnDeadServer ==
    \A j \in Jobs : Active(j) ~> (pc[j] = "ended" \/ OnDeadServer(j) \/ stopped)

\* INV-7: every request is answered.
EveryRequestEnds == \A j \in Jobs : Active(j) ~> pc[j] = "ended"

\* INV-7 with INV-8: as long as some server of the model stays healthy, every
\* request is answered.
HealthyServerSuffices ==
    (<>[](\E s \in Servers : healthy[s] /\ models[s] = Models))
        => EveryRequestEnds

\* Pull strategies: while a job in the pool has a server that may take it,
\* one such server is awake or will be woken (the worker is never stuck idle
\* while compatible work exists).
PoolAttended ==
    \A j \in Jobs :
        LET able == candidates(jobModel[j], visited[j])
        IN  (Contains(pool, j) /\ able # {}) =>
                \/ pc[j] = "wake"
                \/ \E s \in able : notify[s] \/ wpc[s] # "sleep"

\* fair_share_round_robin: a request is dispatched however many requests for
\* another model keep arriving, unless no server is left that could take it.
NoStarvation ==
    \A j \in Jobs :
        pc[j] = "wait" ~> \/ runs[j] > 0 \/ ~Active(j) \/ stopped
                          \/ candidates(jobModel[j], visited[j]) = {}

=============================================================================
