--------------------------- MODULE AttemptProofs ----------------------------
(***************************************************************************)
(* Theorems about the attempts of one request: how many there are, that     *)
(* none follows the first byte, and that Scheduler implements Submission.   *)
(* Every step of the scheduler is first reduced to what it does to the one *)
(* request it concerns.                                                    *)
(***************************************************************************)
EXTENDS SchedulerRefinement, SchedulerProofs

\* The number of the attempt that a request is in: submitPush counts an
\* attempt when it picks the server, submitDeferred when the result arrives.
Attempt(j) == IF Pull THEN total[j] + 1 ELSE total[j]

\* The Run of the attempt has not been called yet.
Fresh(j) ==
    \/ pc[j] \in {"backoff", "enqueue"}
    \/ /\ pc[j] \in Waiting
       /\ done[j] = Empty
       /\ \A s \in Servers : hand[s] = j => wpc[s] = "got"

-----------------------------------------------------------------------------
(* What a step does to one request.                                        *)

\* Its counters, its connection and its last result are as they were.
Keeps(j) ==
    /\ total'[j] = total[j] /\ runs'[j] = runs[j]
    /\ bytes'[j] = bytes[j] /\ ret'[j] = ret[j]

\* The same worker has it as before, on the same side of its Run.
SameHands(j) ==
    \A s \in Servers :
        /\ hand'[s] = j <=> hand[s] = j
        /\ hand[s] = j =>
              /\ wpc'[s] = wpc[s] \/ (wpc[s] \in RunOver /\ wpc'[s] \in RunOver)
              /\ wres'[s] = wres[s]

\* No worker has it, before or after the step.
OffHand(j) == \A s \in Servers : hand[s] # j /\ hand'[s] # j

\* Only the worker of s has it, before and after the step.
InHand(j, s) ==
    /\ hand[s] = j /\ hand'[s] = j
    /\ \A t \in Servers \ {s} : hand[t] # j /\ hand'[t] # j

Unmoved(j) ==
    Keeps(j) /\ pc'[j] = pc[j] /\ done'[j] = done[j] /\ SameHands(j)

\* Submit begins.
Opens(j) ==
    /\ pc[j] \in {"idle", "ended"} /\ pc'[j] = "pick"
    /\ total'[j] = total[j] /\ runs'[j] = runs[j]
    /\ ~bytes'[j] /\ ret'[j] = NoReturn /\ done'[j] = Empty
    /\ OffHand(j)

\* submitPush counts the next attempt.
Counts(j) ==
    /\ ~Pull
    /\ pc[j] = "pick" /\ pc'[j] \in {"backoff", "enqueue"}
    /\ total'[j] = total[j] + 1
    /\ runs'[j] = runs[j] /\ bytes'[j] = bytes[j] /\ ret'[j] = ret[j]
    /\ done'[j] = done[j]
    /\ OffHand(j)

\* Submit goes on without a result, towards its wait or in it.
GoesOn(j) ==
    /\ Keeps(j) /\ done'[j] = done[j] /\ SameHands(j)
    /\ \/ Pull /\ pc[j] = "pick" /\ pc'[j] = "enqueue"
       \/ pc[j] = "backoff" /\ pc'[j] = "enqueue"
       \/ pc[j] = "enqueue" /\ pc'[j] = "wake"
       \/ pc[j] \in Waiting /\ pc'[j] \in Waiting

\* A worker takes it.
IsTaken(j) ==
    /\ Keeps(j) /\ pc'[j] = pc[j] /\ done'[j] = done[j]
    /\ pc[j] \in Waiting /\ done[j] = Empty
    /\ \E s \in Servers :
         /\ hand'[s] = j /\ wpc'[s] = "got" /\ wres'[s] = "none"
         /\ \A t \in Servers \ {s} : hand'[t] # j
    /\ \A s \in Servers : hand[s] # j

\* Its Run is called.
Starts(j) ==
    /\ pc'[j] = pc[j] /\ total'[j] = total[j] /\ bytes'[j] = bytes[j]
    /\ ret'[j] = ret[j] /\ done'[j] = done[j]
    /\ pc[j] \in Waiting /\ done[j] = Empty
    /\ runs'[j] = runs[j] + 1
    /\ \E s \in Servers :
         /\ InHand(j, s)
         /\ wpc[s] = "got" /\ wpc'[s] = "run"
         /\ wres[s] = "none" /\ wres'[s] = "none"

\* Its Run returns with the outcome o.
RunReturns(j, o) ==
    /\ pc'[j] = pc[j] /\ total'[j] = total[j] /\ runs'[j] = runs[j]
    /\ ret'[j] = ret[j] /\ done'[j] = done[j]
    /\ pc[j] \in Waiting /\ done[j] = Empty
    /\ bytes'[j] <=> bytes[j] \/ o \in {"ok", "cut", "panicCut"}
    /\ \E s \in Servers :
         /\ InHand(j, s)
         /\ wpc[s] = "run" /\ wpc'[s] \in RunOver
         /\ wres'[s] = OutcomeKind(o)

\* Its worker sends the result of the Run.
IsAnswered(j) ==
    /\ Keeps(j) /\ pc'[j] = pc[j]
    /\ pc[j] \in Waiting /\ done[j] = Empty
    /\ \E s \in Servers :
         /\ hand[s] = j /\ wpc[s] \in RunOver
         /\ \A t \in Servers \ {s} : hand[t] # j
         /\ done'[j].kind = wres[s]
    /\ \A s \in Servers : hand'[s] # j

\* failServerQueue or failPending answers it; its Run was not called.
IsTold(j) ==
    /\ Keeps(j) /\ pc'[j] = pc[j]
    /\ pc[j] \in Waiting /\ done[j] = Empty
    /\ done'[j].kind \in {"down", "stopped"}
    /\ OffHand(j)

\* Submit gets a result that is not the last word.
Retries(j) ==
    /\ pc[j] \in Waiting /\ done[j] # Empty
    /\ ~IsFinal(done[j].kind, Attempt(j))
    /\ pc'[j] = IF Pull THEN "backoff" ELSE "pick"
    /\ total'[j] = Attempt(j)
    /\ ret'[j] = Return(done[j].kind, ResponseStarted(done[j].kind), Attempt(j))
    /\ runs'[j] = runs[j] /\ bytes'[j] = bytes[j] /\ done'[j] = Empty
    /\ OffHand(j)

\* The results Submit may return with from where it is.
LastWords(j) ==
    {Return(done[j].kind, ResponseStarted(done[j].kind), Attempt(j)),
     Return("ctx", ResponseStarted(done[j].kind), 0)}

EarlyWords(j) ==
    {Return("ctx", FALSE, total[j]), Return("ctx", FALSE, Attempt(j))}

\* Submit returns.
Returned(j) ==
    /\ pc'[j] = "ended" /\ total'[j] = 0 /\ runs'[j] = 0
    /\ bytes'[j] = bytes[j] /\ done'[j] = Empty
    /\ OffHand(j)
    /\ \/ pc[j] \in Waiting /\ done[j] # Empty /\ ret'[j] \in LastWords(j)
       \/ pc[j] \in Picked /\ Fresh(j) /\ ret'[j] \in EarlyWords(j)
       \/ pc[j] = "pick" /\ ret'[j] \in {ret[j], Return("noserver", FALSE, 0)}

Moves(j) ==
    \/ Opens(j) \/ Counts(j) \/ GoesOn(j) \/ IsTaken(j) \/ Starts(j)
    \/ (\E o \in Outcomes : RunReturns(j, o))
    \/ IsAnswered(j) \/ IsTold(j) \/ Retries(j) \/ Returned(j)

\* A step concerns one request at most.
OneMoves ==
    \/ \A k \in Jobs : Unmoved(k)
    \/ \E j \in Jobs : Moves(j) /\ \A k \in Jobs \ {j} : Unmoved(k)

\* A worker has a result only from the end of its Run to its answer.
ResultInv == \A s \in Servers : wpc[s] \notin RunOver => wres[s] = "none"

\* What the place of a job says of its worker and its channel.
LEMMA PlaceFacts ==
    ASSUME OnePlace, NEW j \in Jobs
    PROVE  /\ pc[j] \notin Waiting =>
                done[j] = Empty /\ \A s \in Servers : hand[s] # j
           /\ done[j] # Empty => pc[j] \in Waiting /\ \A s \in Servers : hand[s] # j
           /\ (Contains(pool, j) \/ \E s \in Servers : \/ Contains(queue[s], j)
                                                       \/ Contains(failing[s], j))
                => /\ pc[j] \in Waiting /\ done[j] = Empty
                   /\ \A s \in Servers : hand[s] # j
           /\ \A s \in Servers : hand[s] = j =>
                /\ pc[j] \in Waiting /\ done[j] = Empty
                /\ \A t \in Servers \ {s} : hand[t] # j
<1>1. PICK p \in Places : IsAt(j, p)
  BY DEF OnePlace
<1> QED
  BY <1>1 DEF IsAt

LEMMA ResultStep ==
    ASSUME TypeOK, ResultInv, [Next]_vars
    PROVE  ResultInv'
<1> USE DEF submitVars, workerVars, ResultInv, RunOver
<1>1. CASE UNCHANGED <<wpc, wres>>
  BY <1>1
<1>2. ASSUME NEW s \in Servers, NEW state, state \notin RunOver,
             WorkerGoto(s, state), wpc[s] \notin RunOver, wres' = wres
      PROVE  ResultInv'
  BY <1>2 DEF WorkerGoto, TypeOK
<1>3. ASSUME NEW s \in Servers, NEW o \in Outcomes, RunEnds(s, o)
      PROVE  ResultInv'
  <2>1. /\ wpc'[s] \in RunOver
        /\ \A t \in Servers \ {s} : wpc'[t] = wpc[t] /\ wres'[t] = wres[t]
    BY <1>3 DEF RunEnds, WorkerGoto, TypeOK
  <2> QED
    BY <2>1
<1>4. ASSUME NEW s \in Servers, FailServerQueue(s)
      PROVE  ResultInv'
  BY <1>4 DEF FailServerQueue, GrabQueue, WorkerGoto, TypeOK
<1>5. ASSUME NEW s \in Servers, FailingDone(s)
      PROVE  ResultInv'
  BY <1>5 DEF FailingDone, AfterFailing, WorkerGoto, TypeOK
<1>6. ASSUME NEW s \in Servers, Deliver(s)
      PROVE  ResultInv'
  BY <1>6 DEF Deliver, WorkerGoto, TypeOK
<1>7. ASSUME NEW s \in Servers, WorkerStep(s)
      PROVE  ResultInv'
  BY <1>1, <1>2, <1>3, <1>4, <1>5, <1>6, <1>7
  DEF WorkerStep, AwakeWorker, PopQueue, PopShared, PopNothing, Dispatch,
      FailPending, GrabQueue, DrainPool, FailNext, ClearInFlight
<1> QED
  BY <1>1, <1>7
  DEF Next, vars, Submit, ClientCancel, Stop, SubmitterStep, PickServer, PickFails,
      CheckCompatible, BackoffExpires, BackoffCancelled, Enqueue, WakeTarget,
      PushPool, WakeIdle, Receive, CancelQueued, CancelTaken, ReceiveLate

-----------------------------------------------------------------------------
\* The steps of a submitter that leave the workers alone.
LEMMA SubmitterMoves ==
    ASSUME TypeOK, OnePlace, NEW j \in Jobs,
           SubmitterStep(j) \/ \E m \in Models : Submit(j, m)
    PROVE  OneMoves
<1> USE DEF submitVars, workerVars, Goto
<1>0. /\ hand' = hand /\ wpc' = wpc /\ wres' = wres
  BY DEF Submit, SubmitterStep, PickServer, PickFails,
      CheckCompatible, BackoffExpires, BackoffCancelled, Enqueue, WakeTarget,
      PushPool, WakeIdle, Receive, CancelQueued, CancelTaken, ReceiveLate
<1>1. \A k \in Jobs : SameHands(k)
  BY <1>0 DEF SameHands
<1>2. (\A s \in Servers : hand[s] # j) => OffHand(j)
  BY <1>0 DEF OffHand
<1>3. ASSUME NEW r, Finish(j, r), bytes' = bytes,
             done' = [done EXCEPT ![j] = Empty] \/ (done' = done /\ done[j] = Empty)
      PROVE  /\ \A k \in Jobs \ {j} : Unmoved(k)
             /\ pc'[j] = "ended" /\ total'[j] = 0 /\ runs'[j] = 0
             /\ bytes'[j] = bytes[j] /\ done'[j] = Empty /\ ret'[j] = r
  BY <1>1, <1>3 DEF Finish, Unmoved, Keeps, TypeOK
<1>4. ASSUME NEW state, GoOn(j, state), bytes' = bytes, done' = done
      PROVE  /\ \A k \in Jobs \ {j} : Unmoved(k)
             /\ pc'[j] = state /\ Keeps(j) /\ done'[j] = done[j]
  BY <1>1, <1>4 DEF GoOn, Unmoved, Keeps, TypeOK
<1>5. ASSUME NEW state, GoOn(j, state), bytes' = bytes, done' = done,
             \/ Pull /\ pc[j] = "pick" /\ state = "enqueue"
             \/ pc[j] = "backoff" /\ state = "enqueue"
             \/ pc[j] = "enqueue" /\ state = "wake"
             \/ pc[j] \in Waiting /\ state \in Waiting
      PROVE  OneMoves
  BY <1>1, <1>4, <1>5 DEF OneMoves, Moves, GoesOn
<1>6. ASSUME NEW m \in Models, Submit(j, m)
      PROVE  OneMoves
  <2>1. OffHand(j)
    BY <1>2, <1>6, PlaceFacts DEF Submit, Waiting
  <2>2. Opens(j)
    BY <1>6, <2>1 DEF Submit, Opens, TypeOK
  <2>3. \A k \in Jobs \ {j} : Unmoved(k)
    BY <1>1, <1>6 DEF Submit, Unmoved, Keeps, TypeOK
  <2> QED
    BY <2>2, <2>3 DEF OneMoves, Moves
<1>7. CASE PickServer(j)
  <2>1. OffHand(j)
    BY <1>2, <1>7, PlaceFacts DEF PickServer, Waiting
  <2>2. Counts(j)
    BY <1>7, <2>1 DEF PickServer, Counts, TypeOK
  <2>3. \A k \in Jobs \ {j} : Unmoved(k)
    BY <1>1, <1>7 DEF PickServer, Unmoved, Keeps, TypeOK
  <2> QED
    BY <2>2, <2>3 DEF OneMoves, Moves
<1>8. CASE PickFails(j)
  <2>1. OffHand(j) /\ done[j] = Empty
    BY <1>2, <1>8, PlaceFacts DEF PickFails, Waiting
  <2>2. PICK r \in {ret[j], Return("noserver", FALSE, 0)} : Finish(j, r)
    BY <1>8 DEF PickFails
  <2>3. pc[j] = "pick" /\ bytes' = bytes /\ done' = done
    BY <1>8 DEF PickFails
  <2> QED
    BY <1>3, <2>1, <2>2, <2>3 DEF OneMoves, Moves, Returned
<1>9. CASE CheckCompatible(j)
  <2>1. OffHand(j) /\ done[j] = Empty
    BY <1>2, <1>9, PlaceFacts DEF CheckCompatible, Waiting
  <2>2. Pull /\ pc[j] = "pick" /\ bytes' = bytes /\ done' = done
    BY <1>9 DEF CheckCompatible
  <2>3. CASE GoOn(j, "enqueue")
    BY <1>5, <2>2, <2>3
  <2>4. CASE Finish(j, Return("noserver", FALSE, 0))
    BY <1>3, <2>1, <2>2, <2>4 DEF OneMoves, Moves, Returned
  <2> QED
    BY <1>9, <2>3, <2>4 DEF CheckCompatible
<1>10. CASE BackoffExpires(j)
  BY <1>5, <1>10 DEF BackoffExpires
<1>11. CASE BackoffCancelled(j)
  <2>1. OffHand(j) /\ done[j] = Empty
    BY <1>2, <1>11, PlaceFacts DEF BackoffCancelled, Waiting
  <2>2. pc[j] = "backoff" /\ bytes' = bytes /\ done' = done
        /\ Finish(j, Return("ctx", FALSE, total[j]))
    BY <1>11 DEF BackoffCancelled
  <2>3. pc[j] \in Picked /\ Fresh(j)
    BY <2>2 DEF Picked, Fresh
  <2> QED
    BY <1>3, <2>1, <2>2, <2>3 DEF OneMoves, Moves, Returned, EarlyWords
<1>12. CASE Enqueue(j)
  BY <1>5, <1>12 DEF Enqueue
<1>13. CASE WakeTarget(j)
  BY <1>5, <1>13 DEF WakeTarget, Waiting
<1>14. CASE PushPool(j)
  <2>1. done[j] = Empty
    BY <1>14, PlaceFacts DEF PushPool, Waiting
  <2>2. done' = done
    BY <1>14, <2>1 DEF PushPool, TypeOK
  <2> QED
    BY <1>5, <1>14, <2>2 DEF PushPool
<1>15. CASE WakeIdle(j)
  BY <1>5, <1>15 DEF WakeIdle, Waiting
<1>16. CASE Receive(j)
  <2>1. /\ pc[j] \in Waiting /\ done[j] # Empty /\ OffHand(j)
        /\ done' = [done EXCEPT ![j] = Empty] /\ bytes' = bytes
    BY <1>2, <1>16, PlaceFacts DEF Receive, Waiting
  <2> DEFINE r == Return(done[j].kind, ResponseStarted(done[j].kind), Attempt(j))
  <2>2. CASE IsFinal(done[j].kind, Attempt(j))
    <3>1. Finish(j, r)
      BY <1>16, <2>2 DEF Receive, Attempt
    <3>2. r \in LastWords(j)
      BY DEF LastWords
    <3> HIDE DEF r
    <3> QED
      BY <1>3, <2>1, <3>1, <3>2 DEF OneMoves, Moves, Returned
  <2>3. CASE ~IsFinal(done[j].kind, Attempt(j))
    <3>1. /\ pc' = [pc EXCEPT ![j] = IF Pull THEN "backoff" ELSE "pick"]
          /\ ret' = [ret EXCEPT ![j] = r]
          /\ total' = [total EXCEPT ![j] = Attempt(j)]
          /\ runs' = runs
      BY <1>16, <2>3 DEF Receive, Attempt
    <3> HIDE DEF r
    <3>2. \A k \in Jobs \ {j} : Unmoved(k)
      BY <1>1, <2>1, <3>1 DEF Unmoved, Keeps, TypeOK
    <3>3. /\ pc'[j] = (IF Pull THEN "backoff" ELSE "pick")
          /\ ret'[j] = r /\ total'[j] = Attempt(j) /\ runs'[j] = runs[j]
          /\ bytes'[j] = bytes[j] /\ done'[j] = Empty
      BY <2>1, <3>1 DEF TypeOK
    <3>4. Retries(j)
      BY <2>1, <2>3, <3>3 DEF Retries, r
    <3> QED
      BY <3>2, <3>4 DEF OneMoves, Moves
  <2> QED
    BY <2>2, <2>3
<1>17. CASE CancelQueued(j)
  <2>0. pc[j] = "wait" /\ bytes' = bytes /\ done' = done
    BY <1>17 DEF CancelQueued
  <2>1. Finish(j, Return("ctx", FALSE, Attempt(j)))
    BY <1>17, Zenon DEF CancelQueued, Attempt
  <2>2. Contains(pool, j) \/ \E s \in Servers : Contains(queue[s], j)
    <3>1. CASE Pull
      <4>1. \E i \in Positions(pool, j) : TRUE
        BY <1>17, <3>1, FirstIsElement DEF CancelQueued
      <4> QED
        BY <4>1 DEF Positions, Contains
    <3>2. CASE ~Pull
      <4>1. target[j] \in Servers
        BY <2>0, <3>2 DEF TypeOK, Picked
      <4>2. \E i \in Positions(queue[target[j]], j) : TRUE
        BY <1>17, <3>2, FirstIsElement DEF CancelQueued
      <4> QED
        BY <4>1, <4>2 DEF Positions, Contains
    <3> QED
      BY <3>1, <3>2
  <2>3. done[j] = Empty /\ OffHand(j) /\ \A s \in Servers : hand[s] # j
    BY <1>2, <2>2, PlaceFacts
  <2>4. pc[j] \in Picked /\ Fresh(j)
    BY <2>0, <2>3 DEF Picked, Fresh, Waiting
  <2> QED
    BY <1>3, <2>0, <2>1, <2>3, <2>4 DEF OneMoves, Moves, Returned, EarlyWords
<1>18. CASE CancelTaken(j)
  BY <1>5, <1>18 DEF CancelTaken, Waiting
<1>19. CASE ReceiveLate(j)
  <2>1. /\ pc[j] \in Waiting /\ done[j] # Empty /\ OffHand(j)
        /\ done' = [done EXCEPT ![j] = Empty] /\ bytes' = bytes
        /\ Finish(j, Return("ctx", ResponseStarted(done[j].kind), 0))
    BY <1>2, <1>19, PlaceFacts DEF ReceiveLate, Waiting
  <2> QED
    BY <1>3, <2>1 DEF OneMoves, Moves, Returned, LastWords
<1> QED
  BY <1>6, <1>7, <1>8, <1>9, <1>10, <1>11, <1>12, <1>13, <1>14, <1>15, <1>16,
     <1>17, <1>18, <1>19 DEF SubmitterStep

\* The steps of a worker.
LEMMA WorkerMoves ==
    ASSUME TypeOK, OnePlace, ResultInv, NEW s \in Servers, WorkerStep(s)
    PROVE  OneMoves
<1> USE DEF submitVars, workerVars
<1>1. ASSUME NEW state, WorkerGoto(s, state), UNCHANGED submitVars,
             UNCHANGED <<hand, wres>>,
             hand[s] = NoJob \/ (wpc[s] \in RunOver /\ state \in RunOver)
      PROVE  OneMoves
  <2>1. \A t \in Servers \ {s} : wpc'[t] = wpc[t]
    BY <1>1 DEF WorkerGoto, TypeOK
  <2>2. wpc'[s] = state
    BY <1>1 DEF WorkerGoto, TypeOK
  <2>3. \A k \in Jobs : Unmoved(k)
    BY <1>1, <2>1, <2>2, NoJobAssumption DEF Unmoved, Keeps, SameHands
  <2> QED
    BY <2>3 DEF OneMoves
<1>2. wpc[s] \notin Holding => hand[s] = NoJob
  BY DEF TypeOK
<1>3. ASSUME NEW j \in Jobs, hand[s] = NoJob, WorkerGoto(s, "got"),
             hand' = [hand EXCEPT ![s] = j], UNCHANGED <<submitVars, wres>>,
             Contains(pool, j) \/ Contains(queue[s], j), wpc[s] = "loop"
      PROVE  OneMoves
  <2>1. /\ pc[j] \in Waiting /\ done[j] = Empty
        /\ \A t \in Servers : hand[t] # j
    BY <1>3, PlaceFacts
  <2>2. /\ hand'[s] = j /\ wpc'[s] = "got"
        /\ \A t \in Servers \ {s} : hand'[t] = hand[t] /\ wpc'[t] = wpc[t]
    BY <1>3 DEF WorkerGoto, TypeOK
  <2>3. wres'[s] = "none"
    BY <1>3 DEF ResultInv, RunOver
  <2>4. IsTaken(j)
    BY <1>3, <2>1, <2>2, <2>3 DEF IsTaken, Keeps
  <2>5. \A k \in Jobs \ {j} : Unmoved(k)
    BY <1>3, <2>2, NoJobAssumption DEF Unmoved, Keeps, SameHands
  <2> QED
    BY <2>4, <2>5 DEF OneMoves, Moves
<1>4. CASE AwakeWorker(s)
  BY <1>1, <1>2, <1>4 DEF AwakeWorker, Holding
<1>5. CASE PopQueue(s)
  <2>1. PICK i \in DOMAIN queue[s] : hand' = [hand EXCEPT ![s] = queue[s][i]]
    BY <1>5, PickNextIsPosition DEF PopQueue
  <2>2. queue[s][i] \in Jobs /\ Contains(queue[s], queue[s][i])
    <3>1. queue[s] \in Seq(Jobs) /\ i \in 1 .. Len(queue[s])
      BY <2>1, LenProperties DEF TypeOK
    <3>2. queue[s][i] \in Jobs
      BY <3>1, RemoveAtElements
    <3> QED
      BY <2>1, <3>2 DEF Contains
  <2> QED
    BY <1>2, <1>3, <1>5, <2>1, <2>2 DEF PopQueue, Holding
<1>6. CASE PopShared(s)
  <2>1. PICK i \in DOMAIN pool : hand' = [hand EXCEPT ![s] = pool[i]]
    BY <1>6, PopPoolIsPosition DEF PopShared
  <2>2. pool[i] \in Jobs /\ Contains(pool, pool[i])
    <3>1. pool \in Seq(Jobs) /\ i \in 1 .. Len(pool)
      BY <2>1, LenProperties DEF TypeOK
    <3>2. pool[i] \in Jobs
      BY <3>1, RemoveAtElements
    <3> QED
      BY <2>1, <3>2 DEF Contains
  <2> QED
    BY <1>2, <1>3, <1>6, <2>1, <2>2 DEF PopShared, Holding
<1>7. CASE PopNothing(s)
  BY <1>1, <1>2, <1>7 DEF PopNothing, Holding
<1>8. CASE Dispatch(s)
  <2> PICK j \in Jobs : j = hand[s]
    BY <1>8 DEF Dispatch, TypeOK, Holding
  <2>1. /\ pc[j] \in Waiting /\ done[j] = Empty
        /\ \A t \in Servers \ {s} : hand[t] # j
    BY PlaceFacts
  <2>2. /\ wpc[s] = "got" /\ wpc'[s] = "run"
        /\ \A t \in Servers \ {s} : wpc'[t] = wpc[t]
        /\ runs'[j] = runs[j] + 1 /\ \A k \in Jobs \ {j} : runs'[k] = runs[k]
        /\ UNCHANGED <<pc, total, done, ret, bytes, hand, wres>>
    BY <1>8 DEF Dispatch, WorkerGoto, TypeOK
  <2>3. wres[s] = "none"
    BY <2>2 DEF ResultInv, RunOver
  <2>4. Starts(j)
    BY <2>1, <2>2, <2>3 DEF Starts, InHand
  <2>5. \A k \in Jobs \ {j} : Unmoved(k)
    BY <2>2 DEF Unmoved, Keeps, SameHands
  <2> QED
    BY <2>4, <2>5 DEF OneMoves, Moves
<1>9. ASSUME NEW o \in Outcomes, RunEnds(s, o)
      PROVE  OneMoves
  <2> PICK j \in Jobs : j = hand[s]
    BY <1>9 DEF RunEnds, TypeOK, Holding
  <2>1. /\ pc[j] \in Waiting /\ done[j] = Empty
        /\ \A t \in Servers \ {s} : hand[t] # j
    BY PlaceFacts
  <2>2. /\ wpc[s] = "run" /\ wres'[s] = OutcomeKind(o)
        /\ \A t \in Servers \ {s} : wres'[t] = wres[t]
        /\ bytes'[j] <=> bytes[j] \/ o \in {"ok", "cut", "panicCut"}
        /\ \A k \in Jobs \ {j} : bytes'[k] = bytes[k]
        /\ UNCHANGED <<pc, total, runs, done, ret, hand>>
    BY <1>9 DEF RunEnds, TypeOK
  <2>3. /\ wpc'[s] \in RunOver
        /\ \A t \in Servers \ {s} : wpc'[t] = wpc[t]
    BY <1>9 DEF RunEnds, WorkerGoto, TypeOK, RunOver
  <2>4. RunReturns(j, o)
    BY <2>1, <2>2, <2>3 DEF RunReturns, InHand
  <2>5. \A k \in Jobs \ {j} : Unmoved(k)
    BY <2>2, <2>3 DEF Unmoved, Keeps, SameHands
  <2> QED
    BY <2>4, <2>5 DEF OneMoves, Moves
<1>10. CASE FailServerQueue(s)
  BY <1>1, <1>10 DEF FailServerQueue, GrabQueue, RunOver
<1>11. CASE FailPending(s)
  BY <1>1, <1>2, <1>11 DEF FailPending, GrabQueue, Holding
<1>12. CASE DrainPool(s)
  BY <1>1, <1>2, <1>12 DEF DrainPool, Holding
<1>13. CASE FailNext(s)
  <2>1. failing[s] \in Seq(Jobs) /\ failing[s] # <<>> /\ IsInjective(failing[s])
    BY <1>13 DEF FailNext, OnePlace, TypeOK
  <2> PICK j \in Jobs : j = Head(failing[s])
    BY <2>1, TailDistinct
  <2>2. Contains(failing[s], j)
    BY <2>1, TailDistinct
  <2>3. /\ pc[j] \in Waiting /\ done[j] = Empty
        /\ \A t \in Servers : hand[t] # j
    BY <2>2, PlaceFacts
  <2>4. /\ done'[j] = FailMessage(s) /\ \A k \in Jobs \ {j} : done'[k] = done[k]
        /\ UNCHANGED <<pc, total, runs, ret, bytes, hand, wpc, wres>>
    BY <1>13, <2>3 DEF FailNext, TypeOK
  <2>5. FailMessage(s).kind \in {"down", "stopped"}
    BY DEF FailMessage, Message
  <2>6. IsTold(j)
    BY <2>3, <2>4, <2>5 DEF IsTold, Keeps, OffHand
  <2>7. \A k \in Jobs \ {j} : Unmoved(k)
    BY <2>4 DEF Unmoved, Keeps, SameHands
  <2> QED
    BY <2>6, <2>7 DEF OneMoves, Moves
<1>14. CASE FailingDone(s)
  <2>1. CASE wpc[s] = "failq"
    BY <1>1, <1>14, <2>1 DEF FailingDone, AfterFailing, RunOver
  <2>2. CASE wpc[s] # "failq"
    BY <1>1, <1>2, <1>14, <2>2 DEF FailingDone, Holding
  <2> QED
    BY <2>1, <2>2
<1>15. CASE Deliver(s)
  <2> PICK j \in Jobs : j = hand[s]
    BY <1>15 DEF Deliver, TypeOK, Holding
  <2>1. /\ pc[j] \in Waiting /\ done[j] = Empty
        /\ \A t \in Servers \ {s} : hand[t] # j
    BY PlaceFacts
  <2>2. /\ wpc[s] \in RunOver
        /\ done'[j].kind = wres[s] /\ \A k \in Jobs \ {j} : done'[k] = done[k]
        /\ hand'[s] = NoJob
        /\ \A t \in Servers \ {s} :
             hand'[t] = hand[t] /\ wpc'[t] = wpc[t] /\ wres'[t] = wres[t]
        /\ UNCHANGED <<pc, total, runs, ret, bytes>>
    BY <1>15 DEF Deliver, WorkerGoto, Message, TypeOK, RunOver
  <2>3. IsAnswered(j)
    BY <2>1, <2>2, NoJobAssumption DEF IsAnswered, Keeps
  <2>4. \A k \in Jobs \ {j} : Unmoved(k)
    BY <2>2, NoJobAssumption DEF Unmoved, Keeps, SameHands
  <2> QED
    BY <2>3, <2>4 DEF OneMoves, Moves
<1>16. CASE ClearInFlight(s)
  BY <1>1, <1>2, <1>16 DEF ClearInFlight, Holding
<1> QED
  BY <1>4, <1>5, <1>6, <1>7, <1>8, <1>9, <1>10, <1>11, <1>12, <1>13, <1>14,
     <1>15, <1>16 DEF WorkerStep

\* Every step concerns one request at most, in one of those ways.
LEMMA StepMoves ==
    ASSUME TypeOK, OnePlace, ResultInv, [Next]_vars
    PROVE  OneMoves
<1>1. CASE UNCHANGED vars
  BY <1>1 DEF vars, submitVars, workerVars, OneMoves, Unmoved, Keeps, SameHands
<1>2. CASE Stop \/ \E j \in Jobs : ClientCancel(j)
  BY <1>2 DEF Stop, ClientCancel, submitVars, workerVars, OneMoves, Unmoved,
              Keeps, SameHands
<1> QED
  BY <1>1, <1>2, SubmitterMoves, WorkerMoves DEF Next

-----------------------------------------------------------------------------
(* The number of attempts.                                                 *)

\* Run has been called once at most for each counted attempt, and not yet for
\* an attempt that is fresh; what is counted stays within the limit because
\* IsFinal is asked before the next attempt begins.
CountOf(j) ==
    /\ pc[j] \in {"idle", "ended"} => total[j] = 0 /\ runs[j] = 0
    /\ pc[j] = "pick" => runs[j] <= total[j] /\ total[j] < MaxAttempts
    /\ pc[j] \in Picked => runs[j] <= Attempt(j) /\ Attempt(j) <= MaxAttempts
    /\ Fresh(j) => runs[j] < Attempt(j)
    /\ ret[j].attempt <= MaxAttempts

CountInv == \A j \in Jobs : CountOf(j)

LEMMA CountInit == Init => CountInv
BY MaxAttemptsAssumption
DEF Init, CountInv, CountOf, Fresh, Picked, Waiting, NoReturn

\* An attempt that was answered is over.
LEMMA AnsweredIsNotFresh ==
    ASSUME TypeOK, NEW j \in Jobs, IsAnswered(j)
    PROVE  ~Fresh(j)'
<1>1. done'[j].kind # "none"
  BY DEF IsAnswered, TypeOK
<1>2. done'[j] # Empty
  BY <1>1 DEF Empty
<1> QED
  BY <1>2 DEF IsAnswered, Fresh, Waiting

LEMMA CountStep ==
    ASSUME TypeOK, CountInv, OneMoves
    PROVE  CountInv'
<1> USE DEF Waiting, Picked, RunOver
<1>0. MaxAttempts \in Nat \ {0}
  BY MaxAttemptsAssumption
<1>1. ASSUME NEW k \in Jobs, Unmoved(k)
      PROVE  CountOf(k)'
  <2>1. Fresh(k)' => Fresh(k)
    BY <1>1 DEF Unmoved, SameHands, Fresh
  <2> QED
    BY <1>1, <2>1 DEF Unmoved, Keeps, CountInv, CountOf, Attempt
<1>2. ASSUME NEW j \in Jobs, Moves(j)
      PROVE  CountOf(j)'
  <2>0. /\ total[j] \in Nat /\ runs[j] \in Nat /\ ret[j].attempt \in Nat
        /\ Attempt(j) \in Nat
        /\ ~Pull => Attempt(j) = total[j]
        /\ Pull => Attempt(j) = total[j] + 1
        /\ CountOf(j)
    BY DEF TypeOK, Returns, CountInv, Attempt
  <2>attempt. /\ ~Pull => Attempt(j)' = total'[j]
              /\ Pull => Attempt(j)' = total'[j] + 1
    BY DEF Attempt, Pull
  <2>1. CASE Opens(j)
    <3>1. ~Fresh(j)' /\ NoReturn.attempt = 0
      BY <2>1 DEF Opens, Fresh, NoReturn
    <3> QED
      BY <1>0, <2>0, <2>1, <3>1 DEF Opens, CountOf
  <2>2. CASE Counts(j)
    BY <1>0, <2>0, <2>attempt, <2>2 DEF Counts, CountOf
  <2>3. CASE GoesOn(j)
    <3>1. (Pull /\ pc[j] = "pick") \/ (pc[j] \in Picked /\ (Fresh(j)' => Fresh(j)))
      BY <2>3 DEF GoesOn, SameHands, Fresh
    <3>2. Attempt(j)' = Attempt(j)
      BY <2>0, <2>attempt, <2>3 DEF GoesOn, Keeps
    <3> QED
      BY <1>0, <2>0, <2>3, <3>1, <3>2 DEF GoesOn, Keeps, CountOf
  <2>4. CASE IsTaken(j)
    <3>1. Fresh(j)
      BY <2>4 DEF IsTaken, Fresh
    <3> QED
      BY <2>0, <2>attempt, <2>4, <3>1 DEF IsTaken, Keeps, CountOf
  <2>5. CASE Starts(j)
    <3>1. Fresh(j) /\ ~Fresh(j)'
      BY <2>5 DEF Starts, InHand, Fresh
    <3> QED
      BY <2>0, <2>attempt, <2>5, <3>1 DEF Starts, CountOf
  <2>6. ASSUME NEW o \in Outcomes, RunReturns(j, o)
        PROVE  CountOf(j)'
    <3>1. ~Fresh(j)'
      BY <2>6 DEF RunReturns, InHand, Fresh
    <3> QED
      BY <2>0, <2>attempt, <2>6, <3>1 DEF RunReturns, CountOf
  <2>7. CASE IsAnswered(j) \/ IsTold(j)
    <3>1. CASE IsAnswered(j)
      BY <2>0, <2>attempt, <3>1, AnsweredIsNotFresh DEF IsAnswered, Keeps, CountOf
    <3>2. CASE IsTold(j)
      <4>1. Fresh(j)
        BY <3>2 DEF IsTold, OffHand, Fresh
      <4> QED
        BY <2>0, <2>attempt, <3>2, <4>1 DEF IsTold, Keeps, CountOf
    <3> QED
      BY <2>7, <3>1, <3>2
  <2>8. CASE Retries(j)
    <3>1. Attempt(j) < MaxAttempts
      BY <1>0, <2>0, <2>8 DEF Retries, IsFinal
    <3>2. ret'[j].attempt = Attempt(j)
      BY <2>8 DEF Retries, Return
    <3> QED
      BY <1>0, <2>0, <2>attempt, <2>8, <3>1, <3>2 DEF Retries, CountOf, Fresh
  <2>9. CASE Returned(j)
    <3>1. ret'[j].attempt <= MaxAttempts
      <4>1. CASE ret'[j] \in LastWords(j) \cup EarlyWords(j) /\ pc[j] \in Picked
        BY <1>0, <2>0, <4>1 DEF LastWords, EarlyWords, Return, CountOf
      <4>2. CASE ret'[j] \in {ret[j], Return("noserver", FALSE, 0)}
        BY <1>0, <2>0, <4>2 DEF Return, CountOf
      <4> QED
        BY <2>9, <4>1, <4>2 DEF Returned
    <3>2. ~Fresh(j)'
      BY <2>9 DEF Returned, Fresh
    <3> QED
      BY <2>9, <3>1, <3>2 DEF Returned, CountOf
  <2> QED
    BY <1>2, <2>1, <2>2, <2>3, <2>4, <2>5, <2>6, <2>7, <2>8, <2>9 DEF Moves
<1> QED
  BY <1>1, <1>2 DEF OneMoves, CountInv

-----------------------------------------------------------------------------
(* The first byte.                                                         *)

\* Before and during its Run an attempt has sent nothing; afterwards the
\* result says whether it has, wherever the result is.
StartedOf(j) ==
    /\ pc[j] = "pick" \/ Fresh(j) => ~bytes[j]
    /\ pc[j] # "ended" => ret[j].kind # "ok" /\ ~ret[j].started
    /\ done[j] # Empty => (bytes[j] <=> ResponseStarted(done[j].kind))
    /\ \A s \in Servers : hand[s] = j =>
         /\ wpc[s] = "run" => ~bytes[j]
         /\ wpc[s] \in RunOver => (bytes[j] <=> ResponseStarted(wres[s]))

StartedInv == \A j \in Jobs : StartedOf(j)

LEMMA StartedInit == Init => StartedInv
BY NoJobAssumption
DEF Init, StartedInv, StartedOf, Fresh, Waiting, NoReturn

\* The panic guard of the worker is the one place where the answer to
\* "has the response begun?" is lost.
LEMMA StartedStep ==
    ASSUME "panicCut" \notin Outcomes, TypeOK, StartedInv, OneMoves
    PROVE  StartedInv'
<1> USE DEF Waiting, Picked, RunOver
<1>1. ASSUME NEW k \in Jobs, Unmoved(k)
      PROVE  StartedOf(k)'
  <2>1. Fresh(k)' => Fresh(k)
    BY <1>1 DEF Unmoved, SameHands, Fresh
  <2> QED
    BY <1>1, <2>1 DEF Unmoved, Keeps, SameHands, StartedInv, StartedOf
<1>2. ASSUME NEW j \in Jobs, Moves(j)
      PROVE  StartedOf(j)'
  <2>0. StartedOf(j)
    BY DEF StartedInv
  <2>1. CASE Opens(j)
    BY <2>1 DEF Opens, OffHand, StartedOf, Fresh, NoReturn
  <2>2. CASE Counts(j)
    BY <2>0, <2>2 DEF Counts, OffHand, StartedOf, Fresh
  <2>3. CASE GoesOn(j)
    <3>1. pc[j] = "pick" \/ (Fresh(j)' => Fresh(j))
      BY <2>3 DEF GoesOn, SameHands, Fresh
    <3> QED
      BY <2>0, <2>3, <3>1 DEF GoesOn, Keeps, SameHands, StartedOf
  <2>4. CASE IsTaken(j)
    <3>1. Fresh(j)
      BY <2>4 DEF IsTaken, Fresh
    <3> QED
      BY <2>0, <2>4, <3>1 DEF IsTaken, Keeps, StartedOf
  <2>5. CASE Starts(j)
    <3>1. Fresh(j) /\ ~Fresh(j)'
      BY <2>5 DEF Starts, InHand, Fresh
    <3> QED
      BY <2>0, <2>5, <3>1 DEF Starts, InHand, StartedOf
  <2>6. ASSUME NEW o \in Outcomes, RunReturns(j, o)
        PROVE  StartedOf(j)'
    <3>1. ~Fresh(j)'
      BY <2>6 DEF RunReturns, InHand, Fresh
    <3>2. ~bytes[j] /\ o # "panicCut"
      BY <2>0, <2>6 DEF RunReturns, InHand, StartedOf
    <3>3. bytes'[j] <=> ResponseStarted(OutcomeKind(o))
      BY <2>6, <3>2 DEF RunReturns, ResponseStarted, OutcomeKind
    <3> QED
      BY <2>0, <2>6, <3>1, <3>3 DEF RunReturns, InHand, StartedOf
  <2>7. CASE IsAnswered(j)
    <3>1. bytes[j] <=> ResponseStarted(done'[j].kind)
      BY <2>0, <2>7 DEF IsAnswered, StartedOf
    <3>2. ~Fresh(j)'
      BY <2>7, AnsweredIsNotFresh
    <3> QED
      BY <2>0, <2>7, <3>1, <3>2 DEF IsAnswered, Keeps, StartedOf
  <2>8. CASE IsTold(j)
    <3>1. Fresh(j)
      BY <2>8 DEF IsTold, OffHand, Fresh
    <3>2. ~ResponseStarted(done'[j].kind)
      BY <2>8 DEF IsTold, ResponseStarted
    <3> QED
      BY <2>0, <2>8, <3>1, <3>2 DEF IsTold, Keeps, OffHand, StartedOf
  <2>9. CASE Retries(j)
    <3>1. done[j].kind # "ok" /\ ~ResponseStarted(done[j].kind)
      BY <2>9 DEF Retries, IsFinal
    <3>2. ret'[j].kind # "ok" /\ ~ret'[j].started
      BY <2>9, <3>1 DEF Retries, Return
    <3>3. ~bytes'[j]
      BY <2>0, <2>9, <3>1 DEF Retries, StartedOf
    <3> QED
      BY <2>9, <3>2, <3>3 DEF Retries, OffHand, StartedOf
  <2>10. CASE Returned(j)
    BY <2>10 DEF Returned, OffHand, StartedOf, Fresh
  <2> QED
    BY <1>2, <2>1, <2>2, <2>3, <2>4, <2>5, <2>6, <2>7, <2>8, <2>9, <2>10 DEF Moves
<1> QED
  BY <1>1, <1>2 DEF OneMoves, StartedInv

-----------------------------------------------------------------------------
(* The theorems.                                                           *)

AttemptInv == TypeOK /\ OnePlace /\ ResultInv /\ CountInv

LEMMA AttemptInvAlways == Spec => []AttemptInv
<1>1. Init => AttemptInv
  BY TypeInit, OnePlaceInit, CountInit DEF AttemptInv, Init, ResultInv
<1>2. AttemptInv /\ [Next]_vars => AttemptInv'
  BY TypeStep, OnePlaceStep, ResultStep, StepMoves, CountStep DEF AttemptInv
<1> QED
  BY <1>1, <1>2, PTL DEF Spec

LEMMA StartedAlways ==
    ASSUME "panicCut" \notin Outcomes
    PROVE  Spec => [](AttemptInv /\ StartedInv)
<1>1. AttemptInv /\ StartedInv /\ [Next]_vars => StartedInv'
  BY StepMoves, StartedStep DEF AttemptInv
<1> QED
  BY <1>1, StartedInit, AttemptInvAlways, PTL DEF Spec

\* INV-5 (a), for every limit, strategy and number of clients and servers:
\* Run is called MaxAttempts times at most for a request, whatever servers
\* fail, queues are failed or clients leave, and the attempt that Submit
\* reports is within the limit.
THEOREM AttemptsAreBounded == Spec => []AttemptsBounded
<1>1. AttemptInv => AttemptsBounded
  <2> SUFFICES ASSUME AttemptInv, NEW j \in Jobs
               PROVE  runs[j] <= MaxAttempts /\ ret[j].attempt <= MaxAttempts
    BY DEF AttemptsBounded
  <2>1. /\ runs[j] \in Nat /\ total[j] \in Nat /\ Attempt(j) \in Nat
        /\ pc[j] \in {"idle", "ended", "pick"} \cup Picked /\ CountOf(j)
    BY DEF AttemptInv, TypeOK, SubmitStates, Picked, CountInv, Attempt
  <2> QED
    BY <2>1, MaxAttemptsAssumption DEF CountOf
<1> QED
  BY <1>1, AttemptInvAlways, PTL

\* INV-6: no Run is called for a request whose client has received a byte, in
\* every scheduler whose Run does not panic after the first byte.
THEOREM NoAttemptAfterTheFirstByte ==
    ASSUME "panicCut" \notin Outcomes
    PROVE  Spec => NoRunAfterBytes
<1>1. ASSUME AttemptInv, StartedInv, [Next]_vars, NEW j \in Jobs, runs'[j] > runs[j]
      PROVE  ~bytes[j]
  <2>1. OneMoves /\ runs[j] \in Nat
    BY <1>1, StepMoves DEF AttemptInv, TypeOK
  <2>2. ~Unmoved(j)
    BY <1>1, <2>1 DEF Unmoved, Keeps
  <2>3. Moves(j)
    BY <2>1, <2>2 DEF OneMoves
  <2>4. /\ ~Opens(j) /\ ~Counts(j) /\ ~GoesOn(j) /\ ~IsTaken(j)
        /\ ~IsAnswered(j) /\ ~IsTold(j)
    BY <1>1, <2>1 DEF Opens, Counts, Keeps, GoesOn, IsTaken, IsAnswered, IsTold
  <2>5. ASSUME Retries(j)
        PROVE  FALSE
    BY <1>1, <2>1, <2>5 DEF Retries
  <2>6. ASSUME Returned(j)
        PROVE  FALSE
    BY <1>1, <2>1, <2>6 DEF Returned
  <2>7. ASSUME NEW o \in Outcomes, RunReturns(j, o)
        PROVE  FALSE
    BY <1>1, <2>1, <2>7 DEF RunReturns
  <2>8. Starts(j)
    BY <2>3, <2>4, <2>5, <2>6, <2>7 DEF Moves
  <2>9. Fresh(j)
    BY <2>8 DEF Starts, InHand, Fresh
  <2> QED
    BY <1>1, <2>9 DEF StartedInv, StartedOf
<1>2. AttemptInv /\ StartedInv /\ [Next]_vars
        => [\A j \in Jobs : runs'[j] > runs[j] => ~bytes[j]]_vars
  BY <1>1
<1> QED
  BY <1>2, StartedAlways, PTL DEF Spec, NoRunAfterBytes

-----------------------------------------------------------------------------
(* Scheduler implements Submission.                                        *)

LEMMA SameTruth ==
    ASSUME NEW a \in BOOLEAN, NEW b \in BOOLEAN, a <=> b
    PROVE  a = b
OBVIOUS

\* The phase of a request, read off its place.
PhaseFacts(j) ==
    LET open == pc[j] \notin {"idle", "ended"}
    IN  /\ ~open => Phase(j) = pc[j]
        /\ open /\ done[j] = Empty /\ (\A s \in Servers : hand[s] # j)
             => Phase(j) = "open"
        /\ open /\ done[j] # Empty /\ done[j].kind = "ok" => Phase(j) = "served"
        /\ open /\ done[j] # Empty /\ done[j].kind # "ok" => Phase(j) = "open"
        /\ \A s \in Servers :
             /\ open /\ hand[s] = j /\ wpc[s] = "got" => Phase(j) = "open"
             /\ open /\ hand[s] = j /\ wpc[s] = "run" => Phase(j) = "running"
             /\ open /\ hand[s] = j /\ wpc[s] \in RunOver /\ wres[s] = "ok"
                  => Phase(j) = "served"
             /\ open /\ hand[s] = j /\ wpc[s] \in RunOver /\ wres[s] # "ok"
                  => Phase(j) = "open"

LEMMA PhaseAt == OnePlace /\ ResultInv => \A j \in Jobs : PhaseFacts(j)
<1> SUFFICES ASSUME OnePlace, ResultInv, NEW j \in Jobs
             PROVE  PhaseFacts(j)
  OBVIOUS
<1>1. ASSUME pc[j] \in {"idle", "ended"}
      PROVE  Phase(j) = pc[j]
  <2>1. ~Running(j) /\ ~Served(j)
    BY <1>1, PlaceFacts DEF Running, Served, Empty, Waiting
  <2> QED
    BY <1>1, <2>1 DEF Phase
<1>2. ASSUME pc[j] \notin {"idle", "ended"}, done[j] = Empty,
             \A s \in Servers : hand[s] # j
      PROVE  Phase(j) = "open"
  <2>1. ~Running(j) /\ ~Served(j)
    BY <1>2 DEF Running, Served, Empty
  <2> QED
    BY <1>2, <2>1 DEF Phase
<1>3. ASSUME pc[j] \notin {"idle", "ended"}, done[j] # Empty
      PROVE  /\ done[j].kind = "ok" => Phase(j) = "served"
             /\ done[j].kind # "ok" => Phase(j) = "open"
  <2>1. ~Running(j) /\ (Served(j) <=> done[j].kind = "ok")
    BY <1>3, PlaceFacts DEF Running, Served
  <2> QED
    BY <1>3, <2>1 DEF Phase
<1>4. ASSUME NEW s \in Servers, pc[j] \notin {"idle", "ended"}, hand[s] = j
      PROVE  /\ wpc[s] = "got" => Phase(j) = "open"
             /\ wpc[s] = "run" => Phase(j) = "running"
             /\ wpc[s] \in RunOver /\ wres[s] = "ok" => Phase(j) = "served"
             /\ wpc[s] \in RunOver /\ wres[s] # "ok" => Phase(j) = "open"
  <2>1. done[j].kind # "ok" /\ \A t \in Servers \ {s} : hand[t] # j
    BY <1>4, PlaceFacts DEF Empty
  <2>2. /\ Running(j) <=> wpc[s] = "run"
        /\ Served(j) <=> wres[s] = "ok"
    BY <1>4, <2>1 DEF Running, Served
  <2>3. wpc[s] \in {"got", "run"} => wres[s] # "ok"
    BY DEF ResultInv, RunOver
  <2> QED
    BY <1>4, <2>2, <2>3 DEF Phase, RunOver
<1> QED
  BY <1>1, <1>2, <1>3, <1>4 DEF PhaseFacts

\* Until Submit returns there is no answer.
NoAnswerYet(j) == pc[j] # "ended" => Answer(j) = [ok |-> FALSE, started |-> FALSE]

LEMMA NoAnswerBefore == StartedInv => \A j \in Jobs : NoAnswerYet(j)
<1> SUFFICES ASSUME StartedInv, NEW j \in Jobs, pc[j] # "ended"
             PROVE  Answer(j) = [ok |-> FALSE, started |-> FALSE]
  BY DEF NoAnswerYet
<1>1. ret[j].kind # "ok"
  BY DEF StartedInv, StartedOf
<1> QED
  BY <1>1 DEF Answer

\* Both hold after a step as they do before it.
LEMMA LooksNext ==
    /\ (OnePlace /\ ResultInv)' => (\A j \in Jobs : PhaseFacts(j))'
    /\ StartedInv' => (\A j \in Jobs : NoAnswerYet(j))'
BY PhaseAt, NoAnswerBefore, PTL

\* A request that a step does not concern looks the same to the handlers.
LEMMA UnmovedLooksTheSame ==
    ASSUME NEW k \in Jobs, Unmoved(k)
    PROVE  /\ Phase(k)' = Phase(k) /\ Answer(k)' = Answer(k)
           /\ runs'[k] = runs[k] /\ bytes'[k] = bytes[k]
<1>1. /\ Running(k)' <=> Running(k)
      /\ Served(k)' <=> Served(k)
  BY DEF Unmoved, SameHands, Running, Served, RunOver
<1>2. Phase(k)' = Phase(k)
  BY <1>1 DEF Unmoved, Phase
<1> QED
  BY <1>2 DEF Unmoved, Keeps, Answer

\* What the steps of one request are in Submission.
LEMMA MovesLook ==
    ASSUME "panicCut" \notin Outcomes, AttemptInv, StartedInv,
           AttemptInv', StartedInv', NEW j \in Jobs, Moves(j)
    PROVE  \/ /\ Opens(j)
              /\ Phase(j) \in {"idle", "ended"} /\ Phase(j)' = "open"
              /\ Answer(j)' = [ok |-> FALSE, started |-> FALSE]
              /\ runs'[j] = runs[j] /\ bytes'[j] = FALSE
           \/ /\ Phase(j) = "open" /\ Phase(j)' = "running"
              /\ ~bytes[j] /\ bytes'[j] = bytes[j] /\ Answer(j)' = Answer(j)
              /\ runs[j] < MaxAttempts /\ runs'[j] = runs[j] + 1
           \/ \E ok, started \in BOOLEAN :
                /\ Phase(j) = "running"
                /\ ok => started
                /\ Phase(j)' = IF ok THEN "served" ELSE "open"
                /\ bytes'[j] = started
                /\ runs'[j] = runs[j] /\ Answer(j)' = Answer(j)
           \/ \E ok \in BOOLEAN :
                /\ Phase(j) \in {"open", "served"} /\ Phase(j)' = "ended"
                /\ ok => Phase(j) = "served"
                /\ Answer(j)' = [ok |-> ok, started |-> bytes[j]]
                /\ runs'[j] = 0 /\ bytes'[j] = bytes[j]
           \/ /\ Phase(j)' = Phase(j) /\ Answer(j)' = Answer(j)
              /\ runs'[j] = runs[j] /\ bytes'[j] = bytes[j]
<1> USE DEF AttemptInv
<1>0. /\ bytes[j] \in BOOLEAN /\ bytes'[j] \in BOOLEAN
      /\ StartedOf(j) /\ CountOf(j)
  BY DEF TypeOK, StartedInv, CountInv
<1>facts. /\ PhaseFacts(j) /\ PhaseFacts(j)'
          /\ NoAnswerYet(j) /\ NoAnswerYet(j)'
  BY PhaseAt, NoAnswerBefore, LooksNext
<1>answer. ASSUME pc[j] # "ended", pc'[j] # "ended"
           PROVE  Answer(j)' = Answer(j)
  BY <1>answer, <1>facts DEF NoAnswerYet
<1>place. pc[j] \notin Waiting => done[j] = Empty /\ \A s \in Servers : hand[s] # j
  BY PlaceFacts
<1>1. CASE Opens(j)
  <2>1. Phase(j) \in {"idle", "ended"} /\ Phase(j)' = "open"
    BY <1>1, <1>facts DEF PhaseFacts, Opens, OffHand
  <2>2. Answer(j)' = [ok |-> FALSE, started |-> FALSE]
    BY <1>1, <1>facts DEF Opens, NoAnswerYet
  <2>3. runs'[j] = runs[j] /\ bytes'[j] = FALSE
    BY <1>0, <1>1 DEF Opens
  <2> QED
    BY <1>1, <2>1, <2>2, <2>3
<1>2. CASE Counts(j)
  <2>1. Phase(j) = "open" /\ Phase(j)' = "open"
    BY <1>place, <1>2, <1>facts DEF PhaseFacts, Counts, OffHand, Waiting
  <2> QED
    BY <1>answer, <1>2, <2>1 DEF Counts
<1>3. CASE GoesOn(j)
  <2>1. /\ Running(j)' <=> Running(j)
        /\ Served(j)' <=> Served(j)
    BY <1>3 DEF GoesOn, SameHands, Running, Served, RunOver
  <2>2. pc[j] \notin {"idle", "ended"} /\ pc'[j] \notin {"idle", "ended"}
    BY <1>3 DEF GoesOn, Waiting
  <2>3. Phase(j)' = Phase(j)
    BY <2>1, <2>2 DEF Phase
  <2> QED
    BY <1>answer, <1>3, <2>2, <2>3 DEF GoesOn, Keeps
<1>4. CASE IsTaken(j)
  <2>1. pc[j] \notin {"idle", "ended"}
    BY <1>4 DEF IsTaken, Waiting
  <2>2. Phase(j) = "open" /\ Phase(j)' = "open"
    BY <1>4, <2>1, <1>facts DEF PhaseFacts, IsTaken
  <2> QED
    BY <1>answer, <1>4, <2>1, <2>2 DEF IsTaken, Keeps
<1>5. CASE Starts(j)
  <2>1. pc[j] \notin {"idle", "ended"}
    BY <1>5 DEF Starts, Waiting
  <2>2. Phase(j) = "open" /\ Phase(j)' = "running"
    BY <1>5, <2>1, <1>facts DEF PhaseFacts, Starts, InHand
  <2>3. Fresh(j)
    BY <1>5 DEF Starts, InHand, Fresh
  <2>4. runs[j] < MaxAttempts
    <3>1. pc[j] \in Picked /\ runs[j] \in Nat /\ Attempt(j) \in Nat
      BY <1>5 DEF Starts, Waiting, Picked, TypeOK, Attempt
    <3> QED
      BY <1>0, <2>3, <3>1, MaxAttemptsAssumption DEF CountOf
  <2>5. ~bytes[j]
    BY <1>0, <2>3 DEF StartedOf
  <2>6. Answer(j)' = Answer(j)
    BY <1>answer, <1>5, <2>1 DEF Starts
  <2> QED
    BY <1>5, <2>2, <2>4, <2>5, <2>6 DEF Starts
<1>6. ASSUME NEW o \in Outcomes, RunReturns(j, o)
      PROVE  \E ok, started \in BOOLEAN :
                /\ Phase(j) = "running"
                /\ ok => started
                /\ Phase(j)' = IF ok THEN "served" ELSE "open"
                /\ bytes'[j] = started
                /\ runs'[j] = runs[j] /\ Answer(j)' = Answer(j)
  <2>1. pc[j] \notin {"idle", "ended"}
    BY <1>6 DEF RunReturns, Waiting
  <2>2. OutcomeKind(o) = o /\ o # "panicCut"
    BY DEF OutcomeKind
  <2>3. /\ Phase(j) = "running"
        /\ Phase(j)' = IF o = "ok" THEN "served" ELSE "open"
    BY <1>6, <2>1, <2>2, <1>facts DEF PhaseFacts, RunReturns, InHand
  <2>4. bytes'[j] <=> o \in {"ok", "cut"}
    BY <1>0, <1>6, <2>2 DEF RunReturns, InHand, StartedOf
  <2>5. bytes'[j] = (o \in {"ok", "cut"})
    BY <1>0, <2>4
  <2>6. runs'[j] = runs[j] /\ Answer(j)' = Answer(j)
    BY <1>answer, <1>6, <2>1 DEF RunReturns
  <2>7. (o = "ok") \in BOOLEAN /\ (o \in {"ok", "cut"}) \in BOOLEAN
    OBVIOUS
  <2> QED
    BY <2>3, <2>5, <2>6, <2>7
<1>7. CASE IsAnswered(j)
  <2>1. pc[j] \notin {"idle", "ended"}
    BY <1>7 DEF IsAnswered, Waiting
  <2>2. done'[j] # Empty
    BY <1>7 DEF IsAnswered, Empty, TypeOK
  <2>3. Phase(j)' = Phase(j)
    BY <1>7, <2>1, <2>2, <1>facts DEF PhaseFacts, IsAnswered
  <2> QED
    BY <1>answer, <1>7, <2>1, <2>3 DEF IsAnswered, Keeps
<1>8. CASE IsTold(j)
  <2>1. pc[j] \notin {"idle", "ended"}
    BY <1>8 DEF IsTold, Waiting
  <2>2. done'[j] # Empty
    BY <1>8 DEF IsTold, Empty
  <2>3. Phase(j) = "open" /\ Phase(j)' = "open"
    BY <1>8, <2>1, <2>2, <1>facts DEF PhaseFacts, IsTold, OffHand
  <2> QED
    BY <1>answer, <1>8, <2>1, <2>3 DEF IsTold, Keeps
<1>9. CASE Retries(j)
  <2>1. pc[j] \notin {"idle", "ended"} /\ pc'[j] \notin {"idle", "ended"}
    BY <1>9 DEF Retries, Waiting
  <2>2. done[j].kind # "ok"
    BY <1>9 DEF Retries, IsFinal
  <2>3. Phase(j) = "open" /\ Phase(j)' = "open"
    BY <1>9, <2>1, <2>2, <1>facts DEF PhaseFacts, Retries, OffHand
  <2> QED
    BY <1>answer, <1>9, <2>1, <2>3 DEF Retries
<1>10. ASSUME Returned(j)
       PROVE  \E ok \in BOOLEAN :
                /\ Phase(j) \in {"open", "served"} /\ Phase(j)' = "ended"
                /\ ok => Phase(j) = "served"
                /\ Answer(j)' = [ok |-> ok, started |-> bytes[j]]
                /\ runs'[j] = 0 /\ bytes'[j] = bytes[j]
  <2>1. Phase(j)' = "ended" /\ runs'[j] = 0 /\ bytes'[j] = bytes[j]
    BY <1>10, <1>facts DEF PhaseFacts, Returned
  <2>2. /\ Phase(j) \in {"open", "served"}
        /\ ret'[j].kind = "ok" => Phase(j) = "served"
        /\ ret'[j].started <=> bytes[j]
    <3>1. CASE pc[j] \in Waiting /\ done[j] # Empty /\ ret'[j] \in LastWords(j)
      <4>1. Phase(j) = IF done[j].kind = "ok" THEN "served" ELSE "open"
        BY <3>1, <1>facts DEF PhaseFacts, Waiting
      <4>2. /\ ret'[j].kind \in {done[j].kind, "ctx"}
            /\ ret'[j].started = ResponseStarted(done[j].kind)
        BY <3>1 DEF LastWords, Return
      <4> QED
        BY <1>0, <3>1, <4>1, <4>2 DEF StartedOf
    <3>2. CASE pc[j] \in Picked /\ Fresh(j) /\ ret'[j] \in EarlyWords(j)
      <4>1. Phase(j) = "open"
        BY <1>place, <1>10, <3>2, <1>facts
           DEF PhaseFacts, Picked, Waiting, Fresh, Returned, OffHand
      <4>2. ret'[j].kind = "ctx" /\ ret'[j].started = FALSE
        BY <3>2 DEF EarlyWords, Return
      <4> QED
        BY <1>0, <3>2, <4>1, <4>2 DEF StartedOf
    <3>3. CASE pc[j] = "pick" /\ ret'[j] \in {ret[j], Return("noserver", FALSE, 0)}
      <4>1. Phase(j) = "open"
        BY <1>place, <3>3, <1>facts DEF PhaseFacts, Waiting
      <4>2. ret'[j].kind # "ok" /\ ~ret'[j].started
        BY <1>0, <3>3 DEF StartedOf, Return
      <4> QED
        BY <1>0, <3>3, <4>1, <4>2 DEF StartedOf
    <3> QED
      BY <1>10, <3>1, <3>2, <3>3 DEF Returned
  <2>3. ret'[j].started = bytes[j]
    <3>1. ret'[j].started \in BOOLEAN
      BY DEF TypeOK, Returns
    <3> QED
      BY <1>0, <2>2, <3>1, SameTruth
  <2>4. Answer(j)' = [ok |-> (ret'[j].kind = "ok"), started |-> bytes[j]]
    <3>1. pc'[j] = "ended"
      BY <1>10 DEF Returned
    <3>2. (pc'[j] = "ended" /\ ret'[j].started) = bytes[j]
      BY <1>0, <2>3, <3>1
    <3> QED
      BY <3>2 DEF Answer
  <2>5. (ret'[j].kind = "ok") \in BOOLEAN
    OBVIOUS
  <2> QED
    BY <2>1, <2>2, <2>4, <2>5
<1> QED
  BY <1>1, <1>2, <1>3, <1>4, <1>5, <1>6, <1>7, <1>8, <1>9, <1>10 DEF Moves

\* Every step of the scheduler is a step of Submission or leaves it as it is.
LEMMA StepRefines ==
    ASSUME "panicCut" \notin Outcomes, AttemptInv, StartedInv,
           AttemptInv', StartedInv', OneMoves
    PROVE  [Promise!SubmissionNext]_Promise!submissionVars
<1> DEFINE f == [j \in Jobs |-> Phase(j)]
           g == [j \in Jobs |-> Answer(j)]
<1>1. /\ runs \in [Jobs -> Nat] /\ runs' \in [Jobs -> Nat]
      /\ bytes \in [Jobs -> BOOLEAN] /\ bytes' \in [Jobs -> BOOLEAN]
  BY DEF AttemptInv, TypeOK
<1>2. /\ \A k \in Jobs : f[k] = Phase(k) /\ g[k] = Answer(k)
      /\ \A k \in Jobs : f'[k] = Phase(k)' /\ g'[k] = Answer(k)'
  OBVIOUS
<1>3. /\ f = [k \in Jobs |-> f[k]] /\ f' = [k \in Jobs |-> f'[k]]
      /\ g = [k \in Jobs |-> g[k]] /\ g' = [k \in Jobs |-> g'[k]]
  OBVIOUS
<1>4. Promise!submissionVars = <<f, runs, bytes, g>>
  BY DEF Promise!submissionVars
<1>5. Promise!submissionVars' = <<f', runs', bytes', g'>>
  BY DEF Promise!submissionVars
<1> HIDE DEF f, g
<1>6. CASE \A k \in Jobs : Unmoved(k)
  <2>1. \A k \in Jobs : /\ f'[k] = f[k] /\ g'[k] = g[k]
                        /\ runs'[k] = runs[k] /\ bytes'[k] = bytes[k]
    BY <1>2, <1>6, UnmovedLooksTheSame
  <2>2. f' = f /\ g' = g
    BY <1>3, <2>1
  <2>3. runs' = runs /\ bytes' = bytes
    BY <1>1, <2>1
  <2> QED
    BY <1>4, <1>5, <2>2, <2>3
<1>7. ASSUME NEW j \in Jobs, Moves(j), \A k \in Jobs \ {j} : Unmoved(k)
      PROVE  [Promise!SubmissionNext]_Promise!submissionVars
  <2>1. \A k \in Jobs \ {j} : /\ f'[k] = f[k] /\ g'[k] = g[k]
                              /\ runs'[k] = runs[k] /\ bytes'[k] = bytes[k]
    BY <1>2, <1>7, UnmovedLooksTheSame
  <2>2. /\ f' = [f EXCEPT ![j] = f'[j]] /\ g' = [g EXCEPT ![j] = g'[j]]
        /\ f'[j] = f[j] => f' = f
        /\ g'[j] = g[j] => g' = g
    BY <1>3, <2>1
  <2>3. /\ runs' = [runs EXCEPT ![j] = runs'[j]]
        /\ runs'[j] = runs[j] => runs' = runs
    BY <1>1, <2>1
  <2>4. /\ bytes' = [bytes EXCEPT ![j] = bytes'[j]]
        /\ bytes'[j] = bytes[j] => bytes' = bytes
    BY <1>1, <2>1
  <2>5. CASE /\ Opens(j)
             /\ Phase(j) \in {"idle", "ended"} /\ Phase(j)' = "open"
             /\ Answer(j)' = [ok |-> FALSE, started |-> FALSE]
             /\ runs'[j] = runs[j] /\ bytes'[j] = FALSE
    <3>1. Promise!Accept(j)
      BY <1>2, <2>2, <2>3, <2>4, <2>5 DEF Promise!Accept, Promise!NoAnswer, f, g
    <3> QED
      BY <3>1 DEF Promise!SubmissionNext
  <2>6. CASE /\ Phase(j) = "open" /\ Phase(j)' = "running"
             /\ runs[j] < MaxAttempts /\ runs'[j] = runs[j] + 1
             /\ ~bytes[j] /\ bytes'[j] = bytes[j]
             /\ Answer(j)' = Answer(j)
    <3>1. Promise!StartRun(j)
      BY <1>2, <2>2, <2>3, <2>4, <2>6 DEF Promise!StartRun, f, g
    <3> QED
      BY <3>1 DEF Promise!SubmissionNext
  <2>7. ASSUME NEW ok \in BOOLEAN, NEW started \in BOOLEAN,
               Phase(j) = "running", ok => started,
               Phase(j)' = IF ok THEN "served" ELSE "open",
               bytes'[j] = started, runs'[j] = runs[j], Answer(j)' = Answer(j)
        PROVE  Promise!SubmissionNext
    <3>1. Promise!EndRun(j, ok, started)
      BY <1>2, <2>2, <2>3, <2>4, <2>7 DEF Promise!EndRun, f, g
    <3> QED
      BY <3>1 DEF Promise!SubmissionNext
  <2>8. ASSUME NEW ok \in BOOLEAN,
               Phase(j) \in {"open", "served"}, Phase(j)' = "ended",
               ok => Phase(j) = "served",
               Answer(j)' = [ok |-> ok, started |-> bytes[j]],
               runs'[j] = 0, bytes'[j] = bytes[j]
        PROVE  Promise!SubmissionNext
    <3>1. Promise!ReturnFrom(j, ok)
      BY <1>2, <2>2, <2>3, <2>4, <2>8 DEF Promise!ReturnFrom, f, g
    <3> QED
      BY <3>1 DEF Promise!SubmissionNext
  <2>9. CASE /\ Phase(j)' = Phase(j) /\ Answer(j)' = Answer(j)
             /\ runs'[j] = runs[j] /\ bytes'[j] = bytes[j]
    BY <1>2, <1>4, <1>5, <2>2, <2>3, <2>4, <2>9
  <2> QED
    BY <1>7, <2>5, <2>6, <2>7, <2>8, <2>9, MovesLook
<1> QED
  BY <1>6, <1>7 DEF OneMoves

\* The first state of the scheduler is a first state of Submission.
LEMMA InitRefines == Init => Promise!SubmissionInit
<1> SUFFICES ASSUME Init
             PROVE  Promise!SubmissionInit
  OBVIOUS
<1>1. ASSUME NEW j \in Jobs
      PROVE  Phase(j) = "idle" /\ Answer(j) = [ok |-> FALSE, started |-> FALSE]
  <2>1. pc[j] = "idle" /\ ret[j].kind # "ok"
    BY DEF Init, NoReturn
  <2>2. ~Running(j) /\ ~Served(j)
    BY DEF Init, Running, Served, Empty
  <2> QED
    BY <2>1, <2>2 DEF Phase, Answer
<1> QED
  BY <1>1 DEF Init, Promise!SubmissionInit, Promise!NoAnswer

\* Submit and the workers keep what Submission promises to the HTTP handlers,
\* whatever the requests, the servers, the strategy and the moment at which
\* servers are lost and clients leave: one call of Run at a time, at most
\* MaxAttempts calls, none after the first byte, no return while a call
\* goes on, and an answer that is true of the client's connection.
THEOREM SchedulerKeepsItsPromise ==
    ASSUME "panicCut" \notin Outcomes
    PROVE  Spec => ImplementsSubmission
<1> DEFINE Whole == AttemptInv /\ StartedInv
<1>1. Whole /\ Whole' /\ [Next]_vars
        => [Promise!SubmissionNext]_Promise!submissionVars
  <2> SUFFICES ASSUME Whole, Whole', [Next]_vars
               PROVE  [Promise!SubmissionNext]_Promise!submissionVars
    OBVIOUS
  <2>1. OneMoves
    BY StepMoves DEF AttemptInv
  <2> QED
    BY <2>1, StepRefines
<1>2. Spec => []Whole
  BY StartedAlways
<1> QED
  BY <1>1, <1>2, InitRefines, PTL
     DEF Spec, ImplementsSubmission, Promise!SubmissionSpec

=============================================================================
