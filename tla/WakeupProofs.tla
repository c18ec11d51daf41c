---------------------------- MODULE WakeupProofs ----------------------------
(***************************************************************************)
(* No wake-up is lost between runOnServer, which appends to the queue and   *)
(* then sends on Notify, and the worker, which takes the token and then     *)
(* empties the queue; and what stays true of the scheduler when discovery   *)
(* runs beside it, takes servers out and brings them back.                  *)
(***************************************************************************)
EXTENDS AttemptProofs, Daemon

\* NoLostWakeup for some of the servers.
WakesIn(S) ==
    \A s \in S :
        (healthy[s] /\ wpc[s] = "sleep" /\ queue[s] # <<>>) =>
            \/ notify[s]
            \/ \E j \in Jobs : pc[j] = "wake" /\ target[j] = s

\* It alone is not inductive: the wake of a pull strategy goes to another
\* server than target, so the queues must be known to be empty there.
WakeupInv(S) == WakesIn(S) /\ (Pull => \A s \in Servers : queue[s] = <<>>)

\* A worker finds nothing in its queue only if the queue is empty.
LEMMA PickNextFinds ==
    ASSUME TypeOK, NEW s \in Servers, healthy[s], queue[s] # <<>>
    PROVE  pickNext(s) # {}
<1> DEFINE drain == {i \in DOMAIN queue[s] :
                        jobModel[queue[s][i]] = currentModel[s]}
<1>1. queue[s] \in Seq(Jobs) /\ DOMAIN queue[s] = 1 .. Len(queue[s])
  BY LenProperties DEF TypeOK
<1>2. Len(queue[s]) \in Nat \ {0}
  BY <1>1, LenProperties, EmptySeq
<1>3. /\ DOMAIN queue[s] \subseteq Nat /\ DOMAIN queue[s] # {}
      /\ drain \subseteq Nat
  <2>1. 1 \in DOMAIN queue[s]
    BY <1>1, <1>2
  <2>2. DOMAIN queue[s] \subseteq Nat
    BY <1>1
  <2> QED
    BY <2>1, <2>2
<1> HIDE DEF drain
<1>4. First(IF drain # {} THEN drain ELSE DOMAIN queue[s]) # {}
  BY <1>3, FirstExists
<1> QED
  BY <1>4 DEF pickNext, drain

LEMMA WakeupInit ==
    ASSUME NEW S \in SUBSET Servers, Init
    PROVE  WakeupInv(S)
BY DEF Init, WakeupInv, WakesIn

\* Queues of sleeping workers only grow with a wake to follow.
LEMMA WakeupStep ==
    ASSUME NEW S \in SUBSET Servers, TypeOK, WakeupInv(S), [Next]_vars
    PROVE  WakeupInv(S)'
<1> USE DEF serverVars, poolVars, submitVars, workerVars
<1>1. ASSUME UNCHANGED <<healthy, wpc, queue, notify>>,
             \A j \in Jobs : pc[j] = "wake" /\ ~Pull =>
                               pc'[j] = "wake" /\ target'[j] = target[j]
      PROVE  WakeupInv(S)'
  BY <1>1 DEF WakeupInv, WakesIn
<1>2. ASSUME NEW s \in Servers, queue' = queue,
             UNCHANGED <<pc, target>>, \A t \in Servers : healthy'[t] => healthy[t],
             \A t \in Servers \ {s} : notify'[t] = notify[t] /\ wpc'[t] = wpc[t],
             wpc'[s] # "sleep"
      PROVE  WakeupInv(S)'
  BY <1>2 DEF WakeupInv, WakesIn
<1>3. ASSUME NEW j \in Jobs, NEW m \in Models, Submit(j, m)
      PROVE  WakeupInv(S)'
  BY <1>1, <1>3 DEF Submit, Goto, TypeOK
<1>4. ASSUME NEW j \in Jobs, ClientCancel(j)
      PROVE  WakeupInv(S)'
  BY <1>1, <1>4 DEF ClientCancel
<1>5. CASE Stop
  BY <1>1, <1>5 DEF Stop
<1>6. ASSUME NEW j \in Jobs, PickServer(j)
      PROVE  WakeupInv(S)'
  <2>1. \A k \in Jobs \ {j} : target'[k] = target[k] /\ pc'[k] = pc[k]
    BY <1>6 DEF PickServer, Goto, TypeOK
  <2> QED
    BY <1>1, <1>6, <2>1 DEF PickServer
<1>7. ASSUME NEW j \in Jobs,
             PickFails(j) \/ BackoffCancelled(j) \/ CheckCompatible(j)
               \/ BackoffExpires(j) \/ CancelTaken(j) \/ ReceiveLate(j)
      PROVE  WakeupInv(S)'
  <2>1. pc[j] # "wake" /\ UNCHANGED <<healthy, wpc, queue, notify>>
    BY <1>7 DEF PickFails, BackoffCancelled, CheckCompatible, BackoffExpires,
                CancelTaken, ReceiveLate
  <2>2. \A k \in Jobs \ {j} : target'[k] = target[k] /\ pc'[k] = pc[k]
    BY <1>7 DEF PickFails, BackoffCancelled, CheckCompatible, BackoffExpires,
                CancelTaken, ReceiveLate, GoOn, Finish, Goto, TypeOK
  <2> QED
    BY <1>1, <2>1, <2>2
<1>8. ASSUME NEW j \in Jobs, Receive(j)
      PROVE  WakeupInv(S)'
  <2>1. pc[j] # "wake" /\ UNCHANGED <<healthy, wpc, queue, notify>>
    BY <1>8 DEF Receive
  <2>2. \A k \in Jobs \ {j} : target'[k] = target[k] /\ pc'[k] = pc[k]
    BY <1>8 DEF Receive, Finish, Goto, TypeOK
  <2> QED
    BY <1>1, <2>1, <2>2
<1>9. ASSUME NEW j \in Jobs, Enqueue(j)
       PROVE  WakeupInv(S)'
  <2>1. /\ ~Pull /\ pc'[j] = "wake" /\ target[j] \in Servers
        /\ \A t \in Servers \ {target[j]} : queue'[t] = queue[t]
        /\ \A k \in Jobs \ {j} : pc'[k] = pc[k]
        /\ UNCHANGED <<healthy, wpc, notify, target>>
        /\ pc[j] # "wake"
    BY <1>9 DEF Enqueue, GoOn, Goto, TypeOK, Picked
  <2> QED
    BY <2>1 DEF WakeupInv, WakesIn
<1>10. ASSUME NEW j \in Jobs, WakeTarget(j)
       PROVE  WakeupInv(S)'
  <2>1. /\ ~Pull /\ target[j] \in Servers /\ notify'[target[j]]
        /\ \A t \in Servers \ {target[j]} : notify'[t] = notify[t]
        /\ \A k \in Jobs \ {j} : pc'[k] = pc[k]
        /\ UNCHANGED <<healthy, wpc, queue, target>>
    BY <1>10 DEF WakeTarget, Wake, GoOn, Goto, TypeOK, Picked
  <2> QED
    BY <2>1 DEF WakeupInv, WakesIn
<1>11. ASSUME NEW j \in Jobs, PushPool(j) \/ WakeIdle(j)
       PROVE  WakeupInv(S)'
  BY <1>11 DEF PushPool, WakeIdle, WakeupInv, WakesIn
<1>12. ASSUME NEW j \in Jobs, CancelQueued(j)
       PROVE  WakeupInv(S)'
  <2>1. CASE Pull
    BY <1>12, <2>1 DEF CancelQueued, WakeupInv, WakesIn
  <2>2. CASE ~Pull
    <3>1. /\ target[j] \in Servers /\ pc[j] = "wait"
          /\ \A t \in Servers \ {target[j]} : queue'[t] = queue[t]
          /\ \A k \in Jobs \ {j} : pc'[k] = pc[k] /\ target'[k] = target[k]
          /\ UNCHANGED <<healthy, wpc, notify>>
      BY <1>12, <2>2 DEF CancelQueued, Finish, Goto, TypeOK, Picked
    <3>2. queue[target[j]] # <<>>
      <4>1. \E i \in DOMAIN queue[target[j]] : TRUE
        BY <1>12, <2>2 DEF CancelQueued, First, Positions
      <4> QED
        BY <4>1, EmptySeq
    <3> QED
      BY <2>2, <3>1, <3>2 DEF WakeupInv, WakesIn
  <2> QED
    BY <2>1, <2>2
<1>13. ASSUME NEW s \in Servers, AwakeWorker(s)
       PROVE  WakeupInv(S)'
  BY <1>2, <1>13 DEF AwakeWorker, WorkerGoto, TypeOK
<1>14. ASSUME NEW s \in Servers, PopQueue(s)
       PROVE  WakeupInv(S)'
  <2>1. /\ ~Pull /\ wpc'[s] = "got" /\ UNCHANGED <<healthy, notify, pc, target>>
        /\ \A t \in Servers \ {s} : queue'[t] = queue[t] /\ wpc'[t] = wpc[t]
    BY <1>14 DEF PopQueue, WorkerGoto, TypeOK
  <2> QED
    BY <2>1 DEF WakeupInv, WakesIn
<1>15. ASSUME NEW s \in Servers, PopShared(s)
       PROVE  WakeupInv(S)'
  BY <1>2, <1>15 DEF PopShared, WorkerGoto, TypeOK
<1>16. ASSUME NEW s \in Servers, PopNothing(s)
       PROVE  WakeupInv(S)'
  <2>1. healthy[s] => queue[s] = <<>>
    BY <1>16, PickNextFinds DEF PopNothing, WakeupInv
  <2>2. /\ UNCHANGED <<healthy, queue, notify, pc, target>>
        /\ \A t \in Servers \ {s} : wpc'[t] = wpc[t]
    BY <1>16 DEF PopNothing, WorkerGoto, TypeOK
  <2> QED
    BY <2>1, <2>2 DEF WakeupInv, WakesIn
<1>17. ASSUME NEW s \in Servers, Dispatch(s) \/ Deliver(s) \/ ClearInFlight(s)
       PROVE  WakeupInv(S)'
  BY <1>2, <1>17 DEF Dispatch, Deliver, ClearInFlight, WorkerGoto, TypeOK
<1>18. ASSUME NEW s \in Servers, FailingDone(s)
       PROVE  WakeupInv(S)'
  BY <1>2, <1>18 DEF FailingDone, AfterFailing, WorkerGoto, TypeOK
<1>19. ASSUME NEW s \in Servers, FailNext(s)
       PROVE  WakeupInv(S)'
  BY <1>1, <1>19 DEF FailNext
<1>20. ASSUME NEW s \in Servers, DrainPool(s)
       PROVE  WakeupInv(S)'
  BY <1>2, <1>20 DEF DrainPool, WorkerGoto, TypeOK
<1>21. ASSUME NEW s \in Servers, NEW o \in Outcomes, RunEnds(s, o)
       PROVE  WakeupInv(S)'
  <2>1. CASE isConnectionError(OutcomeKind(o)) /\ healthy[s]
    <3>1. /\ healthy' = [healthy EXCEPT ![s] = FALSE]
          /\ wpc' = [wpc EXCEPT ![s] = "crashed"]
          /\ UNCHANGED <<queue, notify, pc, target>>
      BY <1>21, <2>1, Zenon DEF RunEnds, WorkerGoto
    <3> QED
      BY <1>2, <3>1 DEF TypeOK
  <2>2. CASE ~(isConnectionError(OutcomeKind(o)) /\ healthy[s])
    <3>1. /\ healthy' = healthy /\ wpc' = [wpc EXCEPT ![s] = "deliver"]
          /\ UNCHANGED <<queue, notify, pc, target>>
      BY <1>21, <2>2, Zenon DEF RunEnds, WorkerGoto
    <3> QED
      BY <1>2, <3>1 DEF TypeOK
  <2> QED
    BY <2>1, <2>2
<1>22. ASSUME NEW s \in Servers, FailServerQueue(s) \/ FailPending(s)
       PROVE  WakeupInv(S)'
  <2>1. /\ queue'[s] = <<>> /\ UNCHANGED <<healthy, notify, pc, target>>
        /\ \A t \in Servers \ {s} : queue'[t] = queue[t] /\ wpc'[t] = wpc[t]
    BY <1>22 DEF FailServerQueue, FailPending, GrabQueue, WorkerGoto, TypeOK
  <2> QED
    BY <2>1 DEF WakeupInv, WakesIn
<1>23. CASE UNCHANGED vars
  BY <1>1, <1>23 DEF vars
<1> QED
  BY <1>3, <1>4, <1>5, <1>6, <1>7, <1>8, <1>9, <1>10, <1>11, <1>12, <1>13,
     <1>14, <1>15, <1>16, <1>17, <1>18, <1>19, <1>20, <1>21, <1>22, <1>23
  DEF Next, SubmitterStep, WorkerStep

\* With any number of clients and servers, a healthy server with queued jobs
\* never has its worker asleep without a token in Notify or a submitter about
\* to put one there.
THEOREM NoWakeupIsLost == Spec => []NoLostWakeup
<1>1. Init => TypeOK /\ WakeupInv(Servers)
  BY TypeInit, WakeupInit
<1>2. TypeOK /\ WakeupInv(Servers) /\ [Next]_vars => (TypeOK /\ WakeupInv(Servers))'
  BY TypeStep, WakeupStep
<1>3. WakeupInv(Servers) => NoLostWakeup
  BY DEF WakeupInv, WakesIn, NoLostWakeup
<1> QED
  BY <1>1, <1>2, <1>3, PTL DEF Spec

-----------------------------------------------------------------------------
(* The shared pool: submitDeferred wakes one idle server or nobody.        *)

\* A server that counts as busy has a worker that will look again, and only
\* the pull strategies fill the pool.
BusyInv ==
    /\ \A s \in Servers :
         inFlight[s] => wpc[s] \in RunOver \cup {"run", "clear"}
    /\ ~Pull => pool = <<>>

LEMMA BusyStep ==
    ASSUME TypeOK, BusyInv, [Next]_vars
    PROVE  BusyInv'
<1> USE DEF serverVars, poolVars, submitVars, workerVars, BusyInv, RunOver
<1>1. CASE UNCHANGED <<inFlight, wpc, pool>>
  BY <1>1
<1>2. ASSUME NEW j \in Jobs, PushPool(j) \/ CancelQueued(j)
      PROVE  BusyInv'
  BY <1>2 DEF PushPool, CancelQueued
<1>3. ASSUME NEW s \in Servers, NEW state, WorkerGoto(s, state), inFlight' = inFlight,
             wpc[s] \notin RunOver \cup {"run", "clear"}, ~Pull => pool' = pool
      PROVE  BusyInv'
  BY <1>3 DEF WorkerGoto, TypeOK
<1>4. ASSUME NEW s \in Servers,
             \/ Dispatch(s) \/ Deliver(s) \/ ClearInFlight(s) \/ FailServerQueue(s)
             \/ (\E o \in Outcomes : RunEnds(s, o))
      PROVE  BusyInv'
  <2>1. /\ wpc'[s] \in RunOver \cup {"run", "clear"} \/ ~inFlight'[s]
        /\ \A t \in Servers \ {s} : wpc'[t] = wpc[t] /\ inFlight'[t] = inFlight[t]
        /\ pool' = pool
    <3>1. CASE Dispatch(s)
      BY <3>1 DEF Dispatch, WorkerGoto, TypeOK
    <3>2. CASE Deliver(s)
      BY <3>2 DEF Deliver, WorkerGoto, TypeOK
    <3>3. CASE ClearInFlight(s)
      BY <3>3 DEF ClearInFlight, WorkerGoto, TypeOK
    <3>4. CASE FailServerQueue(s)
      BY <3>4 DEF FailServerQueue, GrabQueue, WorkerGoto, TypeOK
    <3>5. ASSUME NEW o \in Outcomes, RunEnds(s, o)
          PROVE  /\ wpc'[s] \in RunOver
                 /\ \A t \in Servers \ {s} : wpc'[t] = wpc[t] /\ inFlight'[t] = inFlight[t]
                 /\ pool' = pool
      BY <3>5 DEF RunEnds, WorkerGoto, TypeOK
    <3> QED
      BY <1>4, <3>1, <3>2, <3>3, <3>4, <3>5
  <2> QED
    BY <2>1
<1>5. ASSUME NEW s \in Servers, FailingDone(s)
      PROVE  BusyInv'
  BY <1>5 DEF FailingDone, AfterFailing, WorkerGoto, TypeOK
<1>6. ASSUME NEW s \in Servers, WorkerStep(s)
      PROVE  BusyInv'
  <2>1. CASE AwakeWorker(s) \/ PopQueue(s) \/ PopShared(s) \/ PopNothing(s)
    BY <1>3, <2>1 DEF AwakeWorker, PopQueue, PopShared, PopNothing
  <2>2. CASE FailPending(s) \/ DrainPool(s)
    BY <1>3, <2>2 DEF FailPending, GrabQueue, DrainPool
  <2>3. CASE FailNext(s)
    BY <1>1, <2>3 DEF FailNext
  <2> QED
    BY <1>4, <1>5, <1>6, <2>1, <2>2, <2>3 DEF WorkerStep
<1>7. ASSUME NEW j \in Jobs, SubmitterStep(j)
      PROVE  BusyInv'
  BY <1>1, <1>2, <1>7
  DEF SubmitterStep, PickServer, PickFails, CheckCompatible, BackoffExpires,
      BackoffCancelled, Enqueue, WakeTarget, WakeIdle, Receive, CancelTaken, ReceiveLate
<1> QED
  BY <1>1, <1>6, <1>7 DEF Next, vars, Submit, ClientCancel, Stop

\* A worker that goes back to sleep has looked at the whole pool.
LEMMA PopPoolFinds ==
    ASSUME TypeOK, NEW s \in Servers, NEW i \in DOMAIN pool,
           s \in candidates(jobModel[pool[i]], visited[pool[i]])
    PROVE  PopPool(s) # {}
<1>1. i \in Allowed(s) /\ healthy[s]
  BY DEF candidates, Allowed, Unvisited
<1>2. Allowed(s) \subseteq Nat /\ OfCurrent(s) \subseteq Nat
  <2>1. pool \in Seq(Jobs) /\ DOMAIN pool = 1 .. Len(pool) /\ Len(pool) \in Nat
    BY LenProperties DEF TypeOK
  <2> QED
    BY <2>1 DEF Allowed, OfCurrent, Unvisited
<1>3. \A I \in SUBSET Nat : I # {} => First(I) # {}
  BY FirstExists
<1>4. PopFor(s) # {}
  BY <1>1, <1>2, <1>3 DEF PopFor
<1>5. PopForFairShare(s) # {}
  <2>1. Allowed(s) \ OfCurrent(s) \in SUBSET Nat
    BY <1>2
  <2> QED
    BY <1>3, <1>4, <2>1 DEF PopForFairShare
<1>6. PopForCoverage(s) # {}
  <2>1. First(Allowed(s)) # {}
    BY <1>1, <1>2, <1>3
  <2> QED
    BY <1>1, <1>2, <1>3, <2>1 DEF PopForCoverage
<1> QED
  BY <1>4, <1>5, <1>6 DEF PopPool

\* submitDeferred finds an idle server whenever there is one.
LEMMA IdleIsFound ==
    ASSUME NEW m, NEW V, NEW s \in candidates(m, V), ~inFlight[s]
    PROVE  \E t \in candidates(m, V) : t \in pickIdleByPriority(m, V)
<1> DEFINE idle == {t \in candidates(m, V) : ~inFlight[t]}
           P == {Priority[t] : t \in idle}
<1>1. P \subseteq Nat /\ P # {}
  BY PriorityAssumption DEF candidates
<1>2. PICK p \in First(P) : TRUE
  BY <1>1, FirstExists
<1>3. p \in P /\ \A q \in P : p <= q
  BY <1>2 DEF First
<1>4. PICK t \in idle : Priority[t] = p
  BY <1>3
<1> DEFINE best == {u \in idle : \A v \in idle : Priority[u] <= Priority[v]}
<1>5. t \in best
  BY <1>3, <1>4
<1>6. best \subseteq Nat /\ best # {}
  BY <1>5, NumServersAssumption DEF candidates, Servers
<1>7. First(best) # {} /\ First(best) \subseteq best
  BY <1>6, FirstExists, FirstIsElement
<1> QED
  BY <1>7 DEF pickIdleByPriority

\* The server s may take the job k.
IsAble(s, k) == s \in candidates(jobModel[k], visited[k])

\* A request that was in the pool before the step and is not at its wake.
Remains(k) ==
    /\ Contains(pool, k) /\ pc[k] # "wake"
    /\ jobModel'[k] = jobModel[k] /\ visited'[k] = visited[k]

\* Looking and being told to look, neither of them lost.
StaysAwake(s) ==
    (notify[s] \/ wpc[s] # "sleep") => (notify'[s] \/ wpc'[s] # "sleep")

LEMMA AttendedStep ==
    ASSUME TypeOK, OnePlace, BusyInv, PoolAttended, [Next]_vars, healthy' = healthy
    PROVE  PoolAttended'
<1> USE DEF serverVars, poolVars, submitVars, workerVars
<1>0. models' = models
  <2>1. ASSUME NEW j \in Jobs, SubmitterStep(j)
        PROVE  models' = models
    BY <2>1 DEF SubmitterStep, PickServer, PickFails, CheckCompatible, BackoffExpires,
                BackoffCancelled, Enqueue, WakeTarget, PushPool, WakeIdle, Receive,
                CancelQueued, CancelTaken, ReceiveLate
  <2>2. ASSUME NEW s \in Servers, WorkerStep(s)
        PROVE  models' = models
    BY <2>2 DEF WorkerStep, AwakeWorker, PopQueue, PopShared, PopNothing, Dispatch,
                RunEnds, FailServerQueue, FailPending, GrabQueue, DrainPool, FailNext,
                FailingDone, Deliver, ClearInFlight
  <2> QED
    BY <2>1, <2>2 DEF Next, vars, Submit, ClientCancel, Stop
<1>1. ASSUME NEW k \in Jobs, Remains(k), NEW s \in Servers
      PROVE  IsAble(s, k)' <=> IsAble(s, k)
  BY <1>0, <1>1 DEF Remains, IsAble, candidates, hasModel
<1>2. ASSUME NEW k \in Jobs, Remains(k), NEW t \in Servers, IsAble(t, k)'
      PROVE  \E s \in Servers : IsAble(s, k) /\ (notify[s] \/ wpc[s] # "sleep")
  <2>1. IsAble(t, k)
    BY <1>1, <1>2
  <2> QED
    BY <1>2, <2>1 DEF PoolAttended, IsAble, Remains, candidates
<1>3. ASSUME \A k \in Jobs : Contains(pool', k) /\ pc'[k] # "wake" =>
                \A t \in Servers : IsAble(t, k)' =>
                   \E s \in Servers : IsAble(s, k)' /\ (notify'[s] \/ wpc'[s] # "sleep")
      PROVE  PoolAttended'
  BY <1>3 DEF PoolAttended, IsAble, candidates
<1>4. ASSUME \A k \in Jobs : Contains(pool', k) => pc'[k] = "wake" \/ Remains(k),
             \A s \in Servers : StaysAwake(s)
      PROVE  PoolAttended'
  <2> SUFFICES ASSUME NEW k \in Jobs, Contains(pool', k), pc'[k] # "wake",
                      NEW t \in Servers, IsAble(t, k)'
               PROVE  \E s \in Servers :
                         IsAble(s, k)' /\ (notify'[s] \/ wpc'[s] # "sleep")
    BY <1>3
  <2>1. Remains(k)
    BY <1>4
  <2> QED
    BY <1>1, <1>2, <1>4, <2>1 DEF StaysAwake
\* What a step of the submitter j does to the others.
<1>5. ASSUME NEW j \in Jobs, ~Contains(pool, j) \/ ~Contains(pool', j),
             \A k \in Jobs : Contains(pool', k) => Contains(pool, k),
             \A k \in Jobs \ {j} : /\ pc'[k] = pc[k] /\ jobModel'[k] = jobModel[k]
                                   /\ visited'[k] = visited[k],
             UNCHANGED <<notify, wpc>>
      PROVE  PoolAttended'
  BY <1>4, <1>5 DEF Remains, StaysAwake
<1>6. ASSUME NEW j \in Jobs, pc[j] \notin Waiting \/ done[j] # Empty
      PROVE  ~Contains(pool, j)
  BY <1>6, PlaceFacts
<1>7. ASSUME UNCHANGED <<poolVars, pc>>, \A s \in Servers : StaysAwake(s)
      PROVE  PoolAttended'
  BY <1>4, <1>7 DEF Remains
<1>8. CASE pool' = <<>>
  <2>1. \A k : ~Contains(pool', k)
    BY <1>8, EmptyDistinct
  <2> QED
    BY <1>3, <2>1
<1>9. CASE ~Pull /\ pool' = pool
  BY <1>8, <1>9 DEF BusyInv
<1>10. ASSUME NEW j \in Jobs, NEW m \in Models, Submit(j, m)
       PROVE  PoolAttended'
  <2>1. ~Contains(pool, j)
    BY <1>6, <1>10 DEF Submit, Waiting
  <2> QED
    BY <1>5, <1>10, <2>1 DEF Submit, Goto, TypeOK
<1>11. CASE Stop \/ \E j \in Jobs : ClientCancel(j)
  BY <1>7, <1>11 DEF Stop, ClientCancel, StaysAwake
<1>12. ASSUME NEW j \in Jobs,
              CheckCompatible(j) \/ BackoffExpires(j) \/ BackoffCancelled(j)
       PROVE  PoolAttended'
  <2>1. ~Contains(pool, j)
    BY <1>6, <1>12 DEF CheckCompatible, BackoffExpires, BackoffCancelled, Waiting
  <2>2. /\ UNCHANGED <<pool, notify, wpc>>
        /\ \A k \in Jobs \ {j} : /\ pc'[k] = pc[k] /\ jobModel'[k] = jobModel[k]
                                 /\ visited'[k] = visited[k]
    BY <1>12 DEF CheckCompatible, BackoffExpires, BackoffCancelled, GoOn, Finish,
                 Goto, TypeOK
  <2> QED
    BY <1>5, <2>1, <2>2
<1>13. ASSUME NEW j \in Jobs,
              PickServer(j) \/ PickFails(j) \/ Enqueue(j) \/ WakeTarget(j)
       PROVE  PoolAttended'
  BY <1>9, <1>13 DEF PickServer, PickFails, Enqueue, WakeTarget
<1>14. ASSUME NEW j \in Jobs, PushPool(j)
       PROVE  PoolAttended'
  <2>1. pool \in Seq(Jobs) /\ IsInjective(pool) /\ ~Contains(pool, j)
    BY <1>6, <1>14 DEF PushPool, Waiting, OnePlace, TypeOK
  <2>2. \A k : Contains(pool', k) <=> Contains(pool, k) \/ k = j
    BY <1>14, <2>1, AppendDistinct DEF PushPool
  <2>3. /\ pc'[j] = "wake" /\ UNCHANGED <<jobModel, visited, notify, wpc>>
        /\ \A k \in Jobs \ {j} : pc'[k] = pc[k]
    BY <1>14 DEF PushPool, GoOn, Goto, TypeOK
  <2> QED
    BY <1>4, <2>2, <2>3 DEF Remains, StaysAwake
<1>15. ASSUME NEW j \in Jobs, WakeIdle(j)
       PROVE  PoolAttended'
  <2>1. /\ UNCHANGED <<pool, jobModel, visited, wpc>>
        /\ \A s \in Servers : notify'[s] =
             (notify[s] \/ s \in pickIdleByPriority(jobModel[j], visited[j]))
        /\ \A k \in Jobs \ {j} : pc'[k] = pc[k]
    BY <1>15 DEF WakeIdle, GoOn, Goto, TypeOK
  <2>2. \A s \in Servers : StaysAwake(s)
    BY <2>1 DEF StaysAwake
  <2> SUFFICES ASSUME NEW k \in Jobs, Contains(pool', k), pc'[k] # "wake",
                      NEW t \in Servers, IsAble(t, k)'
               PROVE  \E s \in Servers :
                         IsAble(s, k)' /\ (notify'[s] \/ wpc'[s] # "sleep")
    BY <1>3
  <2>3. CASE k # j
    <3>1. Remains(k)
      BY <2>1, <2>3 DEF Remains
    <3> QED
      BY <1>1, <1>2, <2>2, <3>1 DEF StaysAwake
  <2>4. CASE k = j
    <3>1. \A s \in Servers : IsAble(s, j)' <=> IsAble(s, j)
      BY <1>0, <2>1 DEF IsAble, candidates, hasModel
    <3>2. t \in candidates(jobModel[j], visited[j])
      BY <2>4, <3>1 DEF IsAble
    <3>3. CASE inFlight[t]
      <4>1. wpc'[t] # "sleep"
        BY <2>1, <3>3 DEF BusyInv, RunOver
      <4> QED
        BY <2>4, <4>1
    <3>4. CASE ~inFlight[t]
      <4>1. PICK s \in candidates(jobModel[j], visited[j]) :
                   s \in pickIdleByPriority(jobModel[j], visited[j])
        BY <3>2, <3>4, IdleIsFound
      <4>2. s \in Servers /\ IsAble(s, j) /\ notify'[s]
        BY <2>1, <4>1 DEF IsAble, candidates
      <4> QED
        BY <2>4, <3>1, <4>2
    <3> QED
      BY <3>3, <3>4
  <2> QED
    BY <2>3, <2>4
<1>16. ASSUME NEW j \in Jobs, Receive(j) \/ ReceiveLate(j)
       PROVE  PoolAttended'
  <2>1. ~Contains(pool, j)
    BY <1>6, <1>16 DEF Receive, ReceiveLate
  <2>2. /\ UNCHANGED <<pool, notify, wpc>>
        /\ \A k \in Jobs \ {j} : /\ pc'[k] = pc[k] /\ jobModel'[k] = jobModel[k]
                                 /\ visited'[k] = visited[k]
    BY <1>16 DEF Receive, ReceiveLate, Finish, Goto, TypeOK
  <2> QED
    BY <1>5, <2>1, <2>2
<1>17. ASSUME NEW j \in Jobs, CancelQueued(j)
       PROVE  PoolAttended'
  <2>1. CASE ~Pull
    BY <1>9, <1>17, <2>1 DEF CancelQueued
  <2>2. CASE Pull
    <3>1. PICK i \in First(Positions(pool, j)) : pool' = RemoveAt(pool, i)
      BY <1>17, <2>2 DEF CancelQueued
    <3>2. i \in 1 .. Len(pool) /\ pool[i] = j /\ pool \in Seq(Jobs) /\ IsInjective(pool)
      BY <3>1, LenProperties DEF First, Positions, TypeOK, OnePlace
    <3>3. \A k : Contains(pool', k) <=> Contains(pool, k) /\ k # j
      BY <3>1, <3>2, RemoveAtDistinct
    <3>4. /\ UNCHANGED <<notify, wpc>>
          /\ \A k \in Jobs \ {j} : /\ pc'[k] = pc[k] /\ jobModel'[k] = jobModel[k]
                                   /\ visited'[k] = visited[k]
      BY <1>17 DEF CancelQueued, Finish, Goto, TypeOK
    <3> QED
      BY <1>5, <3>3, <3>4
  <2> QED
    BY <2>1, <2>2
<1>18. ASSUME NEW j \in Jobs, CancelTaken(j)
       PROVE  PoolAttended'
  <2>1. /\ pc[j] = "wait" /\ UNCHANGED <<pool, jobModel, visited, notify, wpc>>
        /\ \A k \in Jobs \ {j} : pc'[k] = pc[k]
    BY <1>18 DEF CancelTaken, GoOn, Goto, TypeOK
  <2> QED
    BY <1>4, <2>1 DEF Remains, StaysAwake
<1>19. ASSUME NEW s \in Servers, PopShared(s)
       PROVE  PoolAttended'
  <2>1. PICK i \in PopPool(s) : pool' = RemoveAt(pool, i)
    BY <1>19 DEF PopShared
  <2>2. i \in 1 .. Len(pool) /\ pool \in Seq(Jobs) /\ IsInjective(pool)
    BY <2>1, PopPoolIsPosition, LenProperties DEF TypeOK, OnePlace
  <2>3. \A k : Contains(pool', k) => Contains(pool, k)
    BY <2>1, <2>2, RemoveAtDistinct
  <2>4. UNCHANGED <<jobModel, visited, pc>> /\ \A t \in Servers : StaysAwake(t)
    BY <1>19 DEF PopShared, WorkerGoto, StaysAwake, TypeOK
  <2> QED
    BY <1>4, <2>3, <2>4 DEF Remains
<1>20. ASSUME NEW s \in Servers, PopNothing(s)
       PROVE  PoolAttended'
  <2>0. CASE ~Pull
    BY <1>9, <1>20, <2>0 DEF PopNothing
  <2>1. CASE Pull
    <3>1. /\ UNCHANGED <<poolVars, pc, notify>> /\ PopPool(s) = {}
          /\ \A t \in Servers \ {s} : wpc'[t] = wpc[t]
      BY <1>20, <2>1 DEF PopNothing, WorkerGoto, TypeOK
    <3> SUFFICES ASSUME NEW k \in Jobs, Contains(pool', k), pc'[k] # "wake",
                        NEW t \in Servers, IsAble(t, k)'
                 PROVE  \E u \in Servers :
                           IsAble(u, k)' /\ (notify'[u] \/ wpc'[u] # "sleep")
      BY <1>3
    <3>2. Remains(k)
      BY <3>1 DEF Remains
    <3>3. PICK u \in Servers : IsAble(u, k) /\ (notify[u] \/ wpc[u] # "sleep")
      BY <1>2, <3>2
    <3>4. ~IsAble(s, k)
      <4>1. PICK i \in DOMAIN pool : pool[i] = k
        BY <3>2, LenProperties DEF Remains, Contains, TypeOK
      <4> QED
        BY <3>1, <4>1, PopPoolFinds DEF IsAble
    <3> QED
      BY <1>1, <3>1, <3>2, <3>3, <3>4
  <2> QED
    BY <2>0, <2>1
<1>21. ASSUME NEW s \in Servers, WorkerStep(s), ~PopShared(s), ~PopNothing(s)
       PROVE  PoolAttended'
  <2>1. CASE DrainPool(s)
    BY <1>8, <2>1 DEF DrainPool
  <2>2. CASE FailNext(s)
    BY <1>7, <2>2 DEF FailNext, StaysAwake
  <2>3. ASSUME NEW state, state # "sleep", WorkerGoto(s, state),
               UNCHANGED <<poolVars, pc>>, \A t \in Servers \ {s} : notify'[t] = notify[t]
        PROVE  PoolAttended'
    BY <1>7, <2>3 DEF WorkerGoto, StaysAwake, TypeOK
  <2>4. CASE AwakeWorker(s)
    BY <2>3, <2>4 DEF AwakeWorker, TypeOK
  <2>5. CASE FailingDone(s)
    BY <2>3, <2>5 DEF FailingDone, AfterFailing
  <2>6. ASSUME NEW o \in Outcomes, RunEnds(s, o)
        PROVE  PoolAttended'
    BY <2>3, <2>6 DEF RunEnds
  <2> QED
    BY <1>21, <2>1, <2>2, <2>3, <2>4, <2>5, <2>6
    DEF WorkerStep, PopQueue, Dispatch, FailServerQueue, FailPending, GrabQueue,
        Deliver, ClearInFlight
<1>22. CASE UNCHANGED vars
  BY <1>7, <1>22 DEF vars, StaysAwake
<1> QED
  BY <1>10, <1>11, <1>12, <1>13, <1>14, <1>15, <1>16, <1>17, <1>18, <1>19, <1>20,
     <1>21, <1>22
  DEF Next, SubmitterStep

\* Pull strategies, for any number of clients and servers: as long as no server
\* goes down, a job in the pool that some server may take has one such server
\* awake or told to look, although submitDeferred wakes one server or nobody
\* and a worker that finds nothing goes back to sleep.
THEOREM PoolWorkIsAttended == Spec /\ [][healthy' = healthy]_vars => []PoolAttended
<1>1. Init => TypeOK /\ OnePlace /\ BusyInv /\ PoolAttended
  <2> SUFFICES ASSUME Init
               PROVE  TypeOK /\ OnePlace /\ BusyInv /\ PoolAttended
    OBVIOUS
  <2>1. pool = <<>> /\ \A k : ~Contains(<<>>, k)
    BY EmptyDistinct DEF Init
  <2>2. PoolAttended
    BY <2>1 DEF PoolAttended
  <2>3. BusyInv
    BY DEF Init, BusyInv
  <2> QED
    BY <2>2, <2>3, TypeInit, OnePlaceInit
<1>2. (TypeOK /\ OnePlace /\ BusyInv /\ PoolAttended)
        /\ [Next]_vars /\ [healthy' = healthy]_vars
           => (TypeOK /\ OnePlace /\ BusyInv /\ PoolAttended)'
  <2> SUFFICES ASSUME TypeOK, OnePlace, BusyInv, PoolAttended,
                      [Next]_vars, [healthy' = healthy]_vars
               PROVE  (TypeOK /\ OnePlace /\ BusyInv /\ PoolAttended)'
    OBVIOUS
  <2>1. healthy' = healthy
    BY DEF vars, serverVars
  <2> QED
    BY <2>1, TypeStep, OnePlaceStep, BusyStep, AttendedStep
<1> QED
  BY <1>1, <1>2, PTL DEF Spec

-----------------------------------------------------------------------------
(* The scheduler beside discovery.                                         *)

\* A server whose poll is still to come is not in a poll, and only a server
\* with configured models is between the two steps of PollShape.
PollInv ==
    /\ ppc \in [Servers -> {"idle", "revived", "models", "shape"}]
    /\ offered \in [Servers -> SUBSET Models]
    /\ sweep \subseteq Servers
    /\ \A s \in sweep : ppc[s] = "idle"
    /\ \A s \in Servers : ppc[s] = "shape" => Explicit(s)

LEMMA PollStepInv ==
    ASSUME PollInv, DiscoveryStep
    PROVE  PollInv'
<1> USE DEF PollInv, PollGoto
<1>1. CASE PollAll
  BY <1>1 DEF PollAll
<1>2. ASSUME NEW s \in Servers, NEW M \in SUBSET Models, PollSucceeds(s, M)
      PROVE  PollInv'
  BY <1>2 DEF PollSucceeds, Polled, AfterHealth
<1>3. ASSUME NEW s \in Servers, PollFails(s)
      PROVE  PollInv'
  BY <1>3 DEF PollFails, Polled
<1>4. ASSUME NEW s \in Servers, PollShape(s)
      PROVE  PollInv'
  BY <1>4 DEF PollShape, Polled, Explicit
<1>5. ASSUME NEW s \in Servers, PollWakes(s)
      PROVE  PollInv'
  BY <1>5 DEF PollWakes, AfterHealth
<1>6. ASSUME NEW s \in Servers, PollStores(s)
      PROVE  PollInv'
  BY <1>6 DEF PollStores
<1>7. ASSUME NEW s \in Servers, PollShapeStores(s)
      PROVE  PollInv'
  BY <1>7 DEF PollShapeStores
<1> QED
  BY <1>1, <1>2, <1>3, <1>4, <1>5, <1>6, <1>7 DEF DiscoveryStep, PollStep

\* Discovery writes Healthy, Models and Notify of a server, nothing else.
LEMMA DiscoveryWrites ==
    ASSUME DiscoveryStep
    PROVE  UNCHANGED <<inFlight, currentModel, queue, lastDispatched, consecutive,
                       rrIdx, poolVars, submitVars, workerVars, stopped>>
BY DEF DiscoveryStep, PollStep, PollAll, PollSucceeds, PollFails, PollShape,
       PollWakes, PollStores, PollShapeStores, Polled, LeavesServer

LEMMA DiscoveryTypes ==
    ASSUME TypeOK, PollInv, DiscoveryStep
    PROVE  TypeOK'
<1>1. healthy' \in [Servers -> BOOLEAN]
  BY DEF TypeOK, DiscoveryStep, PollStep, PollAll, PollSucceeds, PollFails,
         PollShape, PollWakes, PollStores, PollShapeStores
<1>2. notify' \in [Servers -> BOOLEAN]
  BY DEF TypeOK, DiscoveryStep, PollStep, PollAll, PollSucceeds, PollFails,
         PollShape, PollWakes, PollStores, PollShapeStores, Wake
<1>3. models' \in [Servers -> SUBSET Models]
  <2>1. ASSUME NEW s \in Servers, PollStores(s)
        PROVE  models' \in [Servers -> SUBSET Models]
    BY <2>1 DEF PollStores, PollInv, TypeOK
  <2> QED
    BY <2>1 DEF TypeOK, DiscoveryStep, PollStep, PollAll, PollSucceeds, PollFails,
                PollShape, PollWakes, PollShapeStores
<1> QED
  BY <1>1, <1>2, <1>3, DiscoveryWrites DEF TypeOK, poolVars, submitVars, workerVars

\* A poll that brings a server back tells its worker before it ends.
LEMMA DiscoveryWakes ==
    ASSUME TypeOK, PollInv, RecoveryWakes, DiscoveryStep
    PROVE  RecoveryWakes'
<1>0. UNCHANGED <<wpc, queue, pc, target>>
  BY DiscoveryWrites DEF poolVars, submitVars, workerVars
<1> USE DEF RecoveryWakes, PollInv, TypeOK, PollGoto
<1>1. CASE PollAll
  BY <1>0, <1>1 DEF PollAll
<1>2. ASSUME NEW s \in Servers, NEW M \in SUBSET Models, PollSucceeds(s, M)
      PROVE  RecoveryWakes'
  BY <1>0, <1>2 DEF PollSucceeds, Polled
<1>3. ASSUME NEW s \in Servers, PollFails(s)
      PROVE  RecoveryWakes'
  BY <1>0, <1>3 DEF PollFails
<1>4. ASSUME NEW s \in Servers, PollShape(s)
      PROVE  RecoveryWakes'
  BY <1>0, <1>4 DEF PollShape
<1>5. ASSUME NEW s \in Servers, PollWakes(s)
      PROVE  RecoveryWakes'
  BY <1>0, <1>5 DEF PollWakes, Wake
<1>6. ASSUME NEW s \in Servers, PollStores(s)
      PROVE  RecoveryWakes'
  BY <1>0, <1>6 DEF PollStores
<1>7. ASSUME NEW s \in Servers, PollShapeStores(s)
      PROVE  RecoveryWakes'
  BY <1>0, <1>7 DEF PollShapeStores
<1> QED
  BY <1>1, <1>2, <1>3, <1>4, <1>5, <1>6, <1>7 DEF DiscoveryStep, PollStep

DaemonInv ==
    /\ TypeOK /\ PollInv /\ RecoveryWakes
    /\ Pull => \A s \in Servers : queue[s] = <<>>

LEMMA DaemonStepInv == DaemonInv /\ [DaemonNext]_daemonVars => DaemonInv'
<1> SUFFICES ASSUME DaemonInv, [DaemonNext]_daemonVars
             PROVE  DaemonInv'
  OBVIOUS
<1>1. CASE [Next]_vars /\ UNCHANGED discoveryVars
  <2>1. TypeOK' /\ PollInv'
    BY <1>1, TypeStep DEF DaemonInv, PollInv, discoveryVars
  <2>2. PICK S \in SUBSET Servers :
               S = {s \in Servers : ~Explicit(s) /\ ppc[s] # "revived"}
    OBVIOUS
  <2>3. WakeupInv(S)
    BY <2>2 DEF DaemonInv, RecoveryWakes, WakeupInv, WakesIn
  <2>4. WakeupInv(S)'
    BY <1>1, <2>3, WakeupStep DEF DaemonInv
  <2>5. RecoveryWakes'
    BY <1>1, <2>2, <2>4 DEF RecoveryWakes, WakeupInv, WakesIn, discoveryVars
  <2> QED
    BY <2>1, <2>4, <2>5 DEF DaemonInv, WakeupInv
<1>2. CASE DiscoveryStep
  BY <1>2, PollStepInv, DiscoveryTypes, DiscoveryWakes, DiscoveryWrites DEF DaemonInv
<1> QED
  BY <1>1, <1>2 DEF DaemonNext, SchedulerStep, daemonVars

\* For any number of clients and servers, with discovery polling while jobs are
\* queued, servers crash and come back: a server without configured models
\* never has its worker asleep on a queue of jobs once pollOne has ended.
THEOREM RecoveredServersAreServed == DaemonSpec => []RecoveryWakes
<1>1. DaemonInit => DaemonInv
  BY TypeInit DEF DaemonInit, DaemonInv, DiscoveryInit, PollInv, RecoveryWakes, Init
<1>2. DaemonInv => RecoveryWakes
  BY DEF DaemonInv
<1> QED
  BY <1>1, <1>2, DaemonStepInv, PTL DEF DaemonSpec

-----------------------------------------------------------------------------
(* The daemon keeps the promise of the scheduler.                          *)

\* A request that discovery does not touch looks the same to the handlers.
LEMMA DiscoveryKeepsRequests ==
    ASSUME DiscoveryStep, OnePlace
    PROVE  /\ OnePlace'
           /\ \A j \in Jobs : Unmoved(j)
<1>1. UNCHANGED <<queue, poolVars, submitVars, workerVars>>
  BY DiscoveryWrites
<1>2. OnePlace'
  BY <1>1 DEF OnePlace, IsAt, poolVars, submitVars, workerVars
<1>3. \A j \in Jobs : Unmoved(j)
  BY <1>1 DEF Unmoved, Keeps, SameHands, submitVars, workerVars
<1> QED
  BY <1>2, <1>3

LEMMA DaemonMoves ==
    ASSUME PollInv, AttemptInv, [DaemonNext]_daemonVars
    PROVE  OneMoves /\ PollInv' /\ AttemptInv'
<1>1. CASE [Next]_vars /\ UNCHANGED discoveryVars
  <2>1. OneMoves
    BY <1>1, StepMoves DEF AttemptInv
  <2>2. AttemptInv'
    BY <1>1, <2>1, TypeStep, OnePlaceStep, ResultStep, CountStep DEF AttemptInv
  <2>3. PollInv'
    BY <1>1 DEF PollInv, discoveryVars
  <2> QED
    BY <2>1, <2>2, <2>3
<1>2. CASE DiscoveryStep
  <2>1. OneMoves /\ OnePlace'
    BY <1>2, DiscoveryKeepsRequests DEF AttemptInv, OneMoves
  <2>2. ResultInv'
    BY <1>2, DiscoveryWrites DEF AttemptInv, ResultInv, workerVars
  <2>3. TypeOK' /\ CountInv'
    BY <1>2, <2>1, DiscoveryTypes, CountStep DEF AttemptInv
  <2>4. PollInv'
    BY <1>2, PollStepInv
  <2> QED
    BY <2>1, <2>2, <2>3, <2>4 DEF AttemptInv
<1> QED
  BY <1>1, <1>2 DEF DaemonNext, SchedulerStep, daemonVars

\* Whatever the polls find and whenever they end, a request has one place and
\* the handlers get what Submission promises: discovery shares Healthy, Models
\* and Notify of the servers with the scheduler and nothing of the requests.
THEOREM DaemonKeepsItsPromise ==
    ASSUME "panicCut" \notin Outcomes
    PROVE  DaemonSpec => []OnePlace /\ ImplementsSubmission
<1> DEFINE Whole == PollInv /\ AttemptInv /\ StartedInv
<1>1. DaemonInit => Init /\ Whole
  <2> SUFFICES ASSUME DaemonInit
               PROVE  Init /\ Whole
    OBVIOUS
  <2>1. Init /\ PollInv
    BY DEF DaemonInit, DiscoveryInit, PollInv
  <2>2. ResultInv
    BY <2>1 DEF Init, ResultInv
  <2> QED
    BY <2>1, <2>2, TypeInit, OnePlaceInit, CountInit, StartedInit DEF AttemptInv
<1>2. Whole /\ [DaemonNext]_daemonVars
        => Whole' /\ [Promise!SubmissionNext]_Promise!submissionVars
  <2> SUFFICES ASSUME Whole, [DaemonNext]_daemonVars
               PROVE  Whole' /\ [Promise!SubmissionNext]_Promise!submissionVars
    OBVIOUS
  <2>1. OneMoves /\ PollInv' /\ AttemptInv'
    BY DaemonMoves
  <2>2. StartedInv'
    BY <2>1, StartedStep DEF AttemptInv
  <2>3. [Promise!SubmissionNext]_Promise!submissionVars
    BY <2>1, <2>2, StepRefines
  <2> QED
    BY <2>1, <2>2, <2>3
<1>3. Whole => OnePlace
  BY DEF AttemptInv
<1> QED
  BY <1>1, <1>2, <1>3, InitRefines, PTL
     DEF DaemonSpec, ImplementsSubmission, Promise!SubmissionSpec

=============================================================================
