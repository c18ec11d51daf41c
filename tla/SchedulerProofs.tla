-------------------------- MODULE SchedulerProofs ---------------------------
(***************************************************************************)
(* Theorems about Scheduler, for every number of servers and clients, every *)
(* strategy, every attempt limit and every set of outcomes and events.      *)
(***************************************************************************)
EXTENDS Scheduler, SequenceTheorems, WellFoundedInduction, TLAPS

-----------------------------------------------------------------------------
(* Queues without duplicates, what append, a removal, the head and an       *)
(* emptied queue do to them, and scans that stop at the first match.  These *)
(* facts hold for the queues of the servers and for the shared pool.        *)

\* Removing a position gives a sequence one shorter, the rest moved up.
LEMMA RemoveAtElements ==
    ASSUME NEW S, NEW q \in Seq(S), NEW i \in 1 .. Len(q)
    PROVE  /\ RemoveAt(q, i) \in Seq(S)
           /\ Len(RemoveAt(q, i)) = Len(q) - 1
           /\ \A k \in 1 .. Len(q) - 1 :
                RemoveAt(q, i)[k] = IF k < i THEN q[k] ELSE q[k + 1]
<1> DEFINE a == SubSeq(q, 1, i - 1)
<1> DEFINE b == SubSeq(q, i + 1, Len(q))
<1>1. Len(q) \in Nat /\ \A k \in 1 .. Len(q) : q[k] \in S
  BY LenProperties
<1>2. /\ a \in Seq(S) /\ Len(a) = i - 1
      /\ \A k \in 1 .. i - 1 : a[k] = q[k]
  <2>1. \A k \in 1 .. i - 1 : q[k] \in S
    BY <1>1
  <2>2. /\ a \in Seq(S)
        /\ Len(a) = IF 1 <= i - 1 THEN i - 1 - 1 + 1 ELSE 0
        /\ \A k \in 1 .. i - 1 - 1 + 1 : a[k] = q[1 + k - 1]
    BY <2>1, SubSeqProperties, <1>1
  <2> QED
    BY <2>2, <1>1
<1>3. /\ b \in Seq(S) /\ Len(b) = Len(q) - i
      /\ \A k \in 1 .. Len(q) - i : b[k] = q[i + k]
  <2>1. \A k \in i + 1 .. Len(q) : q[k] \in S
    BY <1>1
  <2>2. /\ b \in Seq(S)
        /\ Len(b) = IF i + 1 <= Len(q) THEN Len(q) - (i + 1) + 1 ELSE 0
        /\ \A k \in 1 .. Len(q) - (i + 1) + 1 : b[k] = q[(i + 1) + k - 1]
    BY <2>1, SubSeqProperties, <1>1
  <2> QED
    BY <2>2, <1>1
<1>4. /\ a \o b \in Seq(S)
      /\ Len(a \o b) = Len(a) + Len(b)
      /\ \A k \in 1 .. Len(a) + Len(b) :
           (a \o b)[k] = IF k <= Len(a) THEN a[k] ELSE b[k - Len(a)]
  BY <1>2, <1>3, ConcatProperties
<1>5. RemoveAt(q, i) = a \o b
  BY DEF RemoveAt
<1> HIDE DEF a, b
<1>6. Len(a) + Len(b) = Len(q) - 1
  BY <1>1, <1>2, <1>3
<1>7. ASSUME NEW k \in 1 .. Len(q) - 1
      PROVE  (a \o b)[k] = IF k < i THEN q[k] ELSE q[k + 1]
  <2>1. CASE k < i
    BY <2>1, <1>1, <1>2, <1>4, <1>6
  <2>2. CASE ~(k < i)
    <3>1. (a \o b)[k] = b[k - (i - 1)]
      BY <2>2, <1>1, <1>2, <1>4, <1>6
    <3>2. k - (i - 1) \in 1 .. Len(q) - i /\ i + (k - (i - 1)) = k + 1
      BY <2>2, <1>1
    <3> QED
      BY <2>2, <3>1, <3>2, <1>3
  <2> QED
    BY <2>1, <2>2
<1> QED
  BY <1>4, <1>5, <1>6, <1>7

\* Taking the job at position i out leaves the other jobs, each once.
LEMMA RemoveAtDistinct ==
    ASSUME NEW S, NEW q \in Seq(S), NEW i \in 1 .. Len(q), IsInjective(q)
    PROVE  /\ RemoveAt(q, i) \in Seq(S)
           /\ IsInjective(RemoveAt(q, i))
           /\ \A e : Contains(RemoveAt(q, i), e) <=> Contains(q, e) /\ e # q[i]
<1> DEFINE r == RemoveAt(q, i)
<1>1. /\ r \in Seq(S) /\ Len(r) = Len(q) - 1
      /\ \A k \in 1 .. Len(q) - 1 : r[k] = IF k < i THEN q[k] ELSE q[k + 1]
  BY RemoveAtElements
<1>2. /\ Len(q) \in Nat /\ DOMAIN q = 1 .. Len(q)
      /\ DOMAIN r = 1 .. Len(q) - 1
  BY <1>1, LenProperties
<1>3. \A k, l \in 1 .. Len(q) : q[k] = q[l] => k = l
  BY <1>2 DEF IsInjective
<1> HIDE DEF r
<1>4. IsInjective(r)
  <2> SUFFICES ASSUME NEW k \in 1 .. Len(q) - 1, NEW l \in 1 .. Len(q) - 1,
                      r[k] = r[l]
               PROVE  k = l
    BY <1>2 DEF IsInjective
  <2>1. CASE k < i /\ l < i
    BY <2>1, <1>1, <1>2, <1>3
  <2>2. CASE k < i /\ ~(l < i)
    BY <2>2, <1>1, <1>2, <1>3
  <2>3. CASE ~(k < i) /\ l < i
    BY <2>3, <1>1, <1>2, <1>3
  <2>4. CASE ~(k < i) /\ ~(l < i)
    BY <2>4, <1>1, <1>2, <1>3
  <2> QED
    BY <2>1, <2>2, <2>3, <2>4
<1>5. ASSUME NEW e, Contains(r, e)
      PROVE  Contains(q, e) /\ e # q[i]
  <2>1. PICK k \in 1 .. Len(q) - 1 : r[k] = e
    BY <1>5, <1>1 DEF Contains
  <2>2. CASE k < i
    BY <2>1, <2>2, <1>1, <1>2, <1>3 DEF Contains
  <2>3. CASE ~(k < i)
    BY <2>1, <2>3, <1>1, <1>2, <1>3 DEF Contains
  <2> QED
    BY <2>2, <2>3
<1>6. ASSUME NEW e, Contains(q, e), e # q[i]
      PROVE  Contains(r, e)
  <2>1. PICK k \in 1 .. Len(q) : q[k] = e
    BY <1>6 DEF Contains
  <2>2. CASE k < i
    BY <2>1, <2>2, <1>1, <1>2 DEF Contains
  <2>3. CASE k > i
    <3>1. k - 1 \in 1 .. Len(q) - 1 /\ ~(k - 1 < i) /\ (k - 1) + 1 = k
      BY <2>3, <1>2
    <3>2. r[k - 1] = e
      BY <3>1, <2>1, <1>1
    <3> QED
      BY <3>1, <3>2, <1>1 DEF Contains
  <2> QED
    BY <2>1, <2>2, <2>3, <1>6, <1>2
<1> QED
  BY <1>1, <1>4, <1>5, <1>6 DEF r

\* Appending a job that is not there adds it.
LEMMA AppendDistinct ==
    ASSUME NEW S, NEW q \in Seq(S), NEW j \in S,
           IsInjective(q), ~Contains(q, j)
    PROVE  /\ Append(q, j) \in Seq(S)
           /\ IsInjective(Append(q, j))
           /\ \A e : Contains(Append(q, j), e) <=> Contains(q, e) \/ e = j
<1> DEFINE r == Append(q, j)
<1>1. /\ r \in Seq(S) /\ Len(r) = Len(q) + 1
      /\ \A k \in 1 .. Len(q) : r[k] = q[k]
      /\ r[Len(q) + 1] = j
  BY AppendProperties
<1>2. /\ Len(q) \in Nat /\ DOMAIN q = 1 .. Len(q)
      /\ DOMAIN r = 1 .. Len(q) + 1
  BY <1>1, LenProperties
<1> HIDE DEF r
<1>3. IsInjective(r)
  BY <1>1, <1>2 DEF IsInjective, Contains
<1>4. \A e : Contains(r, e) <=> Contains(q, e) \/ e = j
  <2>1. ASSUME NEW e, Contains(r, e)
        PROVE  Contains(q, e) \/ e = j
    <3>1. PICK k \in 1 .. Len(q) + 1 : r[k] = e
      BY <2>1, <1>1 DEF Contains
    <3> QED
      BY <3>1, <1>1, <1>2 DEF Contains
  <2>2. ASSUME NEW e, Contains(q, e) \/ e = j
        PROVE  Contains(r, e)
    BY <2>2, <1>1, <1>2 DEF Contains
  <2> QED
    BY <2>1, <2>2
<1> QED
  BY <1>1, <1>3, <1>4 DEF r

\* Dropping the head of a grabbed queue takes that job out.
LEMMA TailDistinct ==
    ASSUME NEW S, NEW q \in Seq(S), q # <<>>, IsInjective(q)
    PROVE  /\ Head(q) \in S /\ Contains(q, Head(q))
           /\ Tail(q) \in Seq(S)
           /\ IsInjective(Tail(q))
           /\ \A e : Contains(Tail(q), e) <=> Contains(q, e) /\ e # Head(q)
<1> DEFINE r == Tail(q)
<1>1. /\ Head(q) \in S /\ r \in Seq(S) /\ Len(r) = Len(q) - 1
      /\ \A k \in 1 .. Len(q) - 1 : r[k] = q[k + 1]
  BY HeadTailProperties
<1>2. /\ Len(q) \in Nat \ {0} /\ DOMAIN q = 1 .. Len(q)
      /\ DOMAIN r = 1 .. Len(q) - 1 /\ Head(q) = q[1]
  BY <1>1, LenProperties, EmptySeq
<1>3. \A k, l \in 1 .. Len(q) : q[k] = q[l] => k = l
  BY <1>2 DEF IsInjective
<1> HIDE DEF r
<1>4. IsInjective(r)
  BY <1>1, <1>2, <1>3 DEF IsInjective
<1>5. ASSUME NEW e, Contains(r, e)
      PROVE  Contains(q, e) /\ e # Head(q)
  <2>1. PICK k \in 1 .. Len(q) - 1 : r[k] = e
    BY <1>5, <1>1 DEF Contains
  <2> QED
    BY <2>1, <1>1, <1>2, <1>3 DEF Contains
<1>6. ASSUME NEW e, Contains(q, e), e # Head(q)
      PROVE  Contains(r, e)
  <2>1. PICK k \in 1 .. Len(q) : q[k] = e
    BY <1>6 DEF Contains
  <2>2. k - 1 \in 1 .. Len(q) - 1 /\ (k - 1) + 1 = k
    BY <2>1, <1>6, <1>2
  <2>3. r[k - 1] = e
    BY <2>1, <2>2, <1>1
  <2> QED
    BY <2>2, <2>3, <1>1 DEF Contains
<1>7. Contains(q, Head(q))
  BY <1>2 DEF Contains
<1> QED
  BY <1>1, <1>4, <1>5, <1>6, <1>7 DEF r

\* The empty queue has no job.
LEMMA EmptyDistinct ==
    ASSUME NEW S
    PROVE  /\ <<>> \in Seq(S) /\ IsInjective(<<>>)
           /\ \A e : ~Contains(<<>>, e)
<1>1. <<>> \in Seq(S) /\ Len(<<>>) = 0
  BY EmptySeq
<1> QED
  BY <1>1 DEF IsInjective, Contains

\* A scan over a non-empty set of positions finds one.
LEMMA FirstExists ==
    ASSUME NEW I, I \subseteq Nat, I # {}
    PROVE  First(I) # {}
<1> DEFINE R == {p \in Nat \X Nat : p[1] < p[2]}
<1>1. IsWellFoundedOn(R, Nat)
  BY NatLessThanWellFounded DEF OpToRel
<1>2. \A x, y \in Nat : <<y, x>> \in R <=> y < x
  OBVIOUS
<1> HIDE DEF R
<1>3. PICK x \in I : \A y \in I : ~(<<y, x>> \in R)
  BY <1>1, WFMin
<1>4. ASSUME NEW y \in I
      PROVE  x <= y
  <2>1. x \in Nat /\ y \in Nat
    OBVIOUS
  <2>2. ~(y < x)
    BY <2>1, <1>2, <1>3
  <2> QED
    BY <2>1, <2>2
<1> QED
  BY <1>4 DEF First

\* What it finds is one of the positions.
LEMMA FirstIsElement ==
    ASSUME NEW I
    PROVE  First(I) \subseteq I
BY DEF First

-----------------------------------------------------------------------------
(* What the choices of the code return.                                    *)

\* A push strategy picks one of the configured servers.
LEMMA PickIsServer ==
    ASSUME NEW j \in Jobs
    PROVE  Pick(jobModel[j], PickCandidates(j)) \subseteq Servers
<1>1. PickCandidates(j) \subseteq Servers
  BY DEF PickCandidates, candidates
<1> QED
  BY <1>1 DEF Pick, pickRoundRobin, pickLeastBusy, pickModelAffinityLeastBusy

\* The worker takes a job of its own queue.
LEMMA PickNextIsPosition ==
    ASSUME NEW s \in Servers
    PROVE  pickNext(s) \subseteq DOMAIN queue[s]
BY DEF pickNext, First

\* A pull strategy takes a job of the pool.
LEMMA PopPoolIsPosition ==
    ASSUME NEW s \in Servers
    PROVE  PopPool(s) \subseteq DOMAIN pool
<1>1. OfCurrent(s) \subseteq DOMAIN pool /\ Allowed(s) \subseteq DOMAIN pool
  BY DEF OfCurrent, Allowed, Unvisited
<1>2. PopFor(s) \subseteq DOMAIN pool
  BY <1>1 DEF PopFor, First
<1>3. PopForFairShare(s) \subseteq DOMAIN pool
  BY <1>1, <1>2 DEF PopForFairShare, First
<1>4. PopForCoverage(s) \subseteq DOMAIN pool
  BY <1>1 DEF PopForCoverage, First
<1> QED
  BY <1>2, <1>3, <1>4 DEF PopPool

-----------------------------------------------------------------------------
(* Type correctness.                                                       *)

LEMMA TypeInit == Init => TypeOK
<1>1. <<>> \in Seq(Jobs)
  BY EmptySeq
<1>2. Empty \in Messages /\ NoReturn \in Returns
  BY DEF Empty, NoReturn, Messages, Returns
<1> SUFFICES ASSUME Init PROVE TypeOK
  OBVIOUS
<1>3. /\ inFlight \in [Servers -> BOOLEAN] /\ notify \in [Servers -> BOOLEAN]
      /\ cancelled \in [Jobs -> BOOLEAN] /\ bytes \in [Jobs -> BOOLEAN]
      /\ stopped \in BOOLEAN
  BY DEF Init
<1>4. /\ wpc \in [Servers -> WorkerStates] /\ pc \in [Jobs -> SubmitStates]
      /\ \A s \in Servers : wpc[s] \notin Holding \cup RunOver
      /\ \A s \in Servers : hand[s] = NoJob /\ failing[s] = <<>>
      /\ \A j \in Jobs : pc[j] \notin Picked
  BY DEF Init, WorkerStates, SubmitStates, Holding, RunOver, Picked
<1> QED
  BY <1>1, <1>2, <1>3, <1>4 DEF Init, TypeOK

\* Every step of a submitter, of a worker or of the environment keeps the
\* types, and the worker's hands and result in step with where it is.
LEMMA TypeStep ==
    ASSUME TypeOK, [Next]_vars
    PROVE  TypeOK'
<1> USE DEF serverVars, poolVars, submitVars, workerVars, SubmitStates,
            WorkerStates, Holding, RunOver, Picked
<1>0. /\ Empty \in Messages /\ NoReturn \in Returns
      /\ \A k \in ResultKinds \cup {"none"}, s \in Servers \cup {NoServer} :
           Message(k, s) \in Messages
      /\ \A k \in ResultKinds \cup {"none"}, b \in BOOLEAN, n \in Nat :
           Return(k, b, n) \in Returns
  BY DEF Empty, NoReturn, Messages, Message, Returns, Return
<1>1. ASSUME NEW j \in Jobs, NEW m \in Models, Submit(j, m)
      PROVE  TypeOK'
  BY <1>0, <1>1 DEF Submit, Goto, TypeOK
<1>2. ASSUME NEW j \in Jobs, ClientCancel(j)
      PROVE  TypeOK'
  BY <1>2 DEF ClientCancel, TypeOK
<1>3. CASE Stop
  BY <1>3 DEF Stop, TypeOK
<1>4. ASSUME NEW j \in Jobs, PickServer(j)
      PROVE  TypeOK'
  <2>1. PICK s \in Servers : target' = [target EXCEPT ![j] = s]
    BY <1>4, PickIsServer DEF PickServer
  <2>2. rrIdx' \in Nat
    BY <1>4, RRPeriodAssumption DEF PickServer, CountPick, TypeOK
  <2> QED
    BY <1>4, <2>1, <2>2 DEF PickServer, Goto, TypeOK
<1>5. ASSUME NEW j \in Jobs, NEW r \in Returns, Finish(j, r),
             pool' \in Seq(Jobs), queue' \in [Servers -> Seq(Jobs)],
             done' \in [Jobs -> Messages],
             UNCHANGED <<healthy, inFlight, currentModel, models, notify,
                         lastDispatched, consecutive, rrIdx, workerVars,
                         stopped, bytes>>
      PROVE  TypeOK'
  BY <1>5 DEF Finish, Goto, TypeOK
<1>6. ASSUME NEW j \in Jobs, PickFails(j)
      PROVE  TypeOK'
  <2>1. ret[j] \in Returns /\ Return("noserver", FALSE, 0) \in Returns
    BY <1>0 DEF TypeOK, ResultKinds
  <2> QED
    BY <1>5, <1>6, <2>1 DEF PickFails, TypeOK
<1>7. ASSUME NEW j \in Jobs, CheckCompatible(j)
      PROVE  TypeOK'
  <2>1. Return("noserver", FALSE, 0) \in Returns
    BY <1>0 DEF ResultKinds
  <2>2. CASE anyHealthyCompatible(jobModel[j], {})
    BY <1>7, <2>2 DEF CheckCompatible, GoOn, Goto, TypeOK
  <2>3. CASE ~anyHealthyCompatible(jobModel[j], {})
    BY <1>5, <1>7, <2>1, <2>3 DEF CheckCompatible, TypeOK
  <2> QED
    BY <2>2, <2>3
<1>8. ASSUME NEW j \in Jobs, BackoffExpires(j)
      PROVE  TypeOK'
  BY <1>8 DEF BackoffExpires, GoOn, Goto, TypeOK
<1>9. ASSUME NEW j \in Jobs, BackoffCancelled(j)
      PROVE  TypeOK'
  <2>1. Return("ctx", FALSE, total[j]) \in Returns
    BY <1>0 DEF TypeOK, ResultKinds
  <2> QED
    BY <1>5, <1>9, <2>1 DEF BackoffCancelled, TypeOK
<1>10. ASSUME NEW j \in Jobs, Enqueue(j)
       PROVE  TypeOK'
  <2>1. queue' \in [Servers -> Seq(Jobs)]
    BY <1>10, AppendProperties DEF Enqueue, TypeOK
  <2> QED
    BY <1>10, <2>1 DEF Enqueue, GoOn, Goto, TypeOK
<1>11. ASSUME NEW j \in Jobs, WakeTarget(j)
       PROVE  TypeOK'
  BY <1>11 DEF WakeTarget, Wake, GoOn, Goto, TypeOK
<1>12. ASSUME NEW j \in Jobs, PushPool(j)
       PROVE  TypeOK'
  <2>1. pool' \in Seq(Jobs)
    BY <1>12, AppendProperties DEF PushPool, TypeOK
  <2> QED
    BY <1>0, <1>12, <2>1 DEF PushPool, GoOn, Goto, TypeOK
<1>13. ASSUME NEW j \in Jobs, WakeIdle(j)
       PROVE  TypeOK'
  <2>1. notify' \in [Servers -> BOOLEAN]
    BY <1>13 DEF WakeIdle
  <2> QED
    BY <1>13, <2>1 DEF WakeIdle, GoOn, Goto, TypeOK
<1>14. ASSUME NEW j \in Jobs, Receive(j)
       PROVE  TypeOK'
  <2> DEFINE k == done[j].kind
             s == IF Pull THEN done[j].server ELSE target[j]
             n == IF Pull THEN total[j] + 1 ELSE total[j]
             r == Return(k, ResponseStarted(k), n)
  <2>1. /\ k \in ResultKinds \cup {"none"}
        /\ s \in Servers \cup {NoServer} /\ n \in Nat
    BY DEF TypeOK, Messages
  <2>2. r \in Returns /\ NextExclusion(j, s) \in SUBSET (Servers \cup {NoServer})
    <3>1. ResponseStarted(k) \in BOOLEAN
      BY DEF ResponseStarted
    <3>2. r \in Returns
      BY <1>0, <2>1, <3>1
    <3> QED
      BY <2>1, <3>2 DEF NextExclusion
  <2>3. done' \in [Jobs -> Messages]
    BY <1>0, <1>14 DEF Receive, TypeOK
  <2> HIDE DEF k, s, n, r
  <2>4. CASE IsFinal(k, n)
    <3>1. Finish(j, r)
      BY <1>14, <2>4 DEF Receive, k, n, r
    <3> QED
      BY <1>5, <1>14, <2>2, <2>3, <3>1 DEF Receive, TypeOK
  <2>5. CASE ~IsFinal(k, n)
    <3>1. /\ pc' = [pc EXCEPT ![j] = IF Pull THEN "backoff" ELSE "pick"]
          /\ ret' = [ret EXCEPT ![j] = r]
          /\ total' = [total EXCEPT ![j] = n]
          /\ visited' = [visited EXCEPT ![j] = NextExclusion(j, s)]
          /\ UNCHANGED <<jobModel, target, cancelled, runs>>
      BY <1>14, <2>5 DEF Receive, Goto, k, s, n, r
    <3> QED
      BY <1>14, <2>1, <2>2, <2>3, <3>1 DEF Receive, TypeOK
  <2> QED
    BY <2>4, <2>5
<1>15. ASSUME NEW j \in Jobs, CancelQueued(j)
       PROVE  TypeOK'
  <2> DEFINE r == Return("ctx", FALSE, IF Pull THEN total[j] + 1 ELSE total[j])
  <2>1. r \in Returns
    <3>1. (IF Pull THEN total[j] + 1 ELSE total[j]) \in Nat
      BY DEF TypeOK
    <3> QED
      BY <1>0, <3>1 DEF ResultKinds
  <2>2. pool' \in Seq(Jobs) /\ queue' \in [Servers -> Seq(Jobs)]
    <3>1. CASE Pull
      <4>1. PICK i \in DOMAIN pool : pool' = RemoveAt(pool, i)
        BY <1>15, <3>1, FirstIsElement DEF CancelQueued, Positions
      <4>2. pool \in Seq(Jobs) /\ i \in 1 .. Len(pool)
        BY <4>1, LenProperties DEF TypeOK
      <4> QED
        BY <1>15, <3>1, <4>1, <4>2, RemoveAtElements DEF CancelQueued, TypeOK
    <3>2. CASE ~Pull
      <4>1. target[j] \in Servers
        BY <1>15, <3>2 DEF CancelQueued, TypeOK
      <4>2. PICK i \in DOMAIN queue[target[j]] :
              queue' = [queue EXCEPT ![target[j]] = RemoveAt(@, i)]
        BY <1>15, <3>2, FirstIsElement DEF CancelQueued, Positions
      <4>3. queue[target[j]] \in Seq(Jobs) /\ i \in 1 .. Len(queue[target[j]])
        BY <4>1, <4>2, LenProperties DEF TypeOK
      <4>4. RemoveAt(queue[target[j]], i) \in Seq(Jobs)
        BY <4>3, RemoveAtElements
      <4> QED
        BY <1>15, <3>2, <4>1, <4>2, <4>4 DEF CancelQueued, TypeOK
    <3> QED
      BY <3>1, <3>2
  <2> QED
    BY <1>5, <1>15, <2>1, <2>2 DEF CancelQueued, TypeOK
<1>16. ASSUME NEW j \in Jobs, CancelTaken(j)
       PROVE  TypeOK'
  BY <1>16 DEF CancelTaken, GoOn, Goto, TypeOK
<1>17. ASSUME NEW j \in Jobs, ReceiveLate(j)
       PROVE  TypeOK'
  <2>1. Return("ctx", ResponseStarted(done[j].kind), 0) \in Returns
    <3>1. ResponseStarted(done[j].kind) \in BOOLEAN
      BY DEF ResponseStarted
    <3> QED
      BY <1>0, <3>1 DEF ResultKinds
  <2>2. done' \in [Jobs -> Messages]
    BY <1>0, <1>17 DEF ReceiveLate, TypeOK
  <2> QED
    BY <1>5, <1>17, <2>1, <2>2 DEF ReceiveLate, TypeOK
<1>18. ASSUME NEW s \in Servers, AwakeWorker(s)
       PROVE  TypeOK'
  BY <1>18 DEF AwakeWorker, WorkerGoto, TypeOK
<1>19. ASSUME NEW s \in Servers, PopQueue(s)
       PROVE  TypeOK'
  <2>1. PICK i \in DOMAIN queue[s] :
          /\ hand' = [hand EXCEPT ![s] = queue[s][i]]
          /\ queue' = [queue EXCEPT ![s] = RemoveAt(@, i)]
          /\ currentModel' = [currentModel EXCEPT ![s] = jobModel[queue[s][i]]]
    BY <1>19, PickNextIsPosition DEF PopQueue
  <2>2. queue[s] \in Seq(Jobs) /\ i \in 1 .. Len(queue[s])
    BY <2>1, LenProperties DEF TypeOK
  <2>3. RemoveAt(queue[s], i) \in Seq(Jobs) /\ queue[s][i] \in Jobs
    BY <2>2, RemoveAtElements
  <2>4. /\ queue' \in [Servers -> Seq(Jobs)]
        /\ hand' \in [Servers -> Jobs \cup {NoJob}] /\ hand'[s] # NoJob
        /\ currentModel' \in [Servers -> Models \cup {NoModel}]
    BY <2>1, <2>3, NoJobAssumption DEF TypeOK
  <2>5. /\ wpc' = [wpc EXCEPT ![s] = "got"]
        /\ \A t \in Servers \ {s} : hand'[t] = hand[t]
        /\ UNCHANGED <<healthy, inFlight, models, notify, lastDispatched,
                       consecutive, rrIdx, poolVars, submitVars, wres, failing,
                       stopped>>
        /\ wpc[s] = "loop"
    BY <1>19, <2>1 DEF PopQueue, WorkerGoto, TypeOK
  <2> QED
    BY <2>4, <2>5 DEF TypeOK
<1>20. ASSUME NEW s \in Servers, PopShared(s)
       PROVE  TypeOK'
  <2>1. PICK i \in DOMAIN pool :
          /\ hand' = [hand EXCEPT ![s] = pool[i]]
          /\ pool' = RemoveAt(pool, i)
    BY <1>20, PopPoolIsPosition DEF PopShared
  <2>2. pool \in Seq(Jobs) /\ i \in 1 .. Len(pool)
    BY <2>1, LenProperties DEF TypeOK
  <2>3. RemoveAt(pool, i) \in Seq(Jobs) /\ pool[i] \in Jobs
    BY <2>2, RemoveAtElements
  <2> QED
    BY <1>20, <2>1, <2>3, NoJobAssumption DEF PopShared, WorkerGoto, TypeOK
<1>21. ASSUME NEW s \in Servers, PopNothing(s)
       PROVE  TypeOK'
  BY <1>21 DEF PopNothing, WorkerGoto, TypeOK
<1>22. ASSUME NEW s \in Servers, Dispatch(s)
       PROVE  TypeOK'
  <2>1. hand[s] \in Jobs /\ jobModel[hand[s]] \in Models \cup {NoModel}
    BY <1>22 DEF Dispatch, TypeOK
  <2>2. NextConsecutive(s, jobModel[hand[s]]) \in Nat
    BY MaxConsecutiveAssumption DEF NextConsecutive, TypeOK
  <2> QED
    BY <1>22, <2>1, <2>2 DEF Dispatch, WorkerGoto, TypeOK
<1>23. ASSUME NEW s \in Servers, NEW o \in Outcomes, RunEnds(s, o)
       PROVE  TypeOK'
  <2>1. OutcomeKind(o) \in ResultKinds /\ OutcomeKind(o) # "none"
    BY OutcomesAssumption DEF OutcomeKind, OutcomeKinds, ResultKinds
  <2>2. hand[s] \in Jobs
    BY <1>23 DEF RunEnds, TypeOK
  <2>3. bytes' \in [Jobs -> BOOLEAN]
    BY <1>23, <2>2 DEF RunEnds, TypeOK
  <2>4. /\ healthy' \in [Servers -> BOOLEAN]
        /\ wpc' \in [Servers -> WorkerStates] /\ wpc'[s] \in RunOver
        /\ \A t \in Servers \ {s} : wpc'[t] = wpc[t]
        /\ wpc'[s] \notin {"failq", "stopq", "stopp"}
    <3>1. CASE isConnectionError(OutcomeKind(o)) /\ healthy[s]
      <4>1. /\ healthy' = [healthy EXCEPT ![s] = FALSE]
            /\ wpc' = [wpc EXCEPT ![s] = "crashed"]
        BY <1>23, <3>1, Zenon DEF RunEnds, WorkerGoto
      <4> QED
        BY <4>1 DEF TypeOK
    <3>2. CASE ~(isConnectionError(OutcomeKind(o)) /\ healthy[s])
      <4>1. healthy' = healthy /\ wpc' = [wpc EXCEPT ![s] = "deliver"]
        BY <1>23, <3>2, Zenon DEF RunEnds, WorkerGoto
      <4> QED
        BY <4>1 DEF TypeOK
    <3> QED
      BY <3>1, <3>2
  <2>5. /\ wres' \in [Servers -> ResultKinds \cup {"none"}]
        /\ wres'[s] # "none"
        /\ \A t \in Servers \ {s} : wres'[t] = wres[t]
    BY <1>23, <2>1 DEF RunEnds, TypeOK
  <2>6. wpc[s] = "run"
    BY <1>23 DEF RunEnds
  <2>7. /\ \A t \in Servers : wpc'[t] \in Holding <=> hand[t] # NoJob
        /\ \A t \in Servers : wpc'[t] \in RunOver => wres'[t] # "none"
        /\ \A t \in Servers :
             wpc'[t] \notin {"failq", "stopq", "stopp"} => failing[t] = <<>>
    BY <2>4, <2>5, <2>6 DEF TypeOK, Holding, RunOver
  <2>8. UNCHANGED <<inFlight, currentModel, models, queue, notify,
                    lastDispatched, consecutive, rrIdx, poolVars, pc, target,
                    total, done, ret, cancelled, runs, hand, failing, stopped>>
    BY <1>23 DEF RunEnds
  <2> QED
    BY <2>3, <2>4, <2>5, <2>7, <2>8 DEF TypeOK, poolVars
<1>24. ASSUME NEW s \in Servers, FailServerQueue(s)
       PROVE  TypeOK'
  BY <1>24, EmptySeq DEF FailServerQueue, GrabQueue, WorkerGoto, TypeOK
<1>25. ASSUME NEW s \in Servers, FailPending(s)
       PROVE  TypeOK'
  BY <1>25, EmptySeq DEF FailPending, GrabQueue, WorkerGoto, TypeOK
<1>26. ASSUME NEW s \in Servers, DrainPool(s)
       PROVE  TypeOK'
  BY <1>26, EmptySeq DEF DrainPool, WorkerGoto, TypeOK
<1>27. ASSUME NEW s \in Servers, FailNext(s)
       PROVE  TypeOK'
  <2>1. Head(failing[s]) \in Jobs /\ Tail(failing[s]) \in Seq(Jobs)
    BY <1>27, HeadTailProperties DEF FailNext, TypeOK
  <2>2. FailMessage(s) \in Messages
    BY <1>0 DEF FailMessage, ResultKinds
  <2>3. done' \in [Jobs -> Messages]
    BY <1>27, <2>1, <2>2 DEF FailNext, TypeOK
  <2> QED
    BY <1>27, <2>1, <2>3 DEF FailNext, TypeOK
<1>28. ASSUME NEW s \in Servers, FailingDone(s)
       PROVE  TypeOK'
  BY <1>28 DEF FailingDone, AfterFailing, WorkerGoto, TypeOK
<1>29. ASSUME NEW s \in Servers, Deliver(s)
       PROVE  TypeOK'
  <2>1. Message(wres[s], s) \in Messages
    BY <1>0 DEF TypeOK
  <2> QED
    BY <1>29, <2>1 DEF Deliver, WorkerGoto, TypeOK
<1>30. ASSUME NEW s \in Servers, ClearInFlight(s)
       PROVE  TypeOK'
  BY <1>30 DEF ClearInFlight, WorkerGoto, TypeOK
<1>31. CASE UNCHANGED vars
  BY <1>31 DEF vars, TypeOK
<1> QED
  BY <1>1, <1>2, <1>3, <1>4, <1>6, <1>7, <1>8, <1>9, <1>10, <1>11, <1>12,
     <1>13, <1>14, <1>15, <1>16, <1>17, <1>18, <1>19, <1>20, <1>21, <1>22,
     <1>23, <1>24, <1>25, <1>26, <1>27, <1>28, <1>29, <1>30, <1>31
  DEF Next, SubmitterStep, WorkerStep

\* The type invariant holds in every reachable state: whatever the
\* interleaving, a worker has a job exactly from taking it to answering it,
\* and a submitter of a push strategy that is past Pick has a server.
THEOREM TypeCorrect == Spec => []TypeOK
BY TypeInit, TypeStep, PTL DEF Spec

-----------------------------------------------------------------------------
(* Every job in exactly one place.                                         *)

\* The step leaves job k where it is.
Stays(k) ==
    /\ pc'[k] \in Waiting <=> pc[k] \in Waiting
    /\ Contains(pool', k) <=> Contains(pool, k)
    /\ done'[k] # Empty <=> done[k] # Empty
    /\ \A s \in Servers :
         /\ Contains(queue'[s], k) <=> Contains(queue[s], k)
         /\ hand'[s] = k <=> hand[s] = k
         /\ Contains(failing'[s], k) <=> Contains(failing[s], k)

\* No queue has a job twice.
NoDuplicates ==
    /\ IsInjective(pool)
    /\ \A s \in Servers : IsInjective(queue[s]) /\ IsInjective(failing[s])

\* A step that moves one job, to p, and leaves the others keeps every job in
\* one place.
LEMMA MoveStep ==
    ASSUME OnePlace, NEW j \in Jobs, NEW p \in Places, IsAt(j, p)',
           \A k \in Jobs \ {j} : Stays(k), NoDuplicates'
    PROVE  OnePlace'
<1>1. ASSUME NEW k \in Jobs \ {j}
      PROVE  \E q \in Places : IsAt(k, q)'
  <2>1. PICK q \in Places : IsAt(k, q)
    BY DEF OnePlace
  <2>2. IsAt(k, q)'
    BY <2>1 DEF IsAt, Stays
  <2> QED
    BY <2>2
<1> QED
  BY <1>1 DEF OnePlace, NoDuplicates

\* A step that moves no job keeps every job in one place.
LEMMA StayStep ==
    ASSUME OnePlace, \A k \in Jobs : Stays(k), NoDuplicates'
    PROVE  OnePlace'
<1>1. ASSUME NEW k \in Jobs
      PROVE  \E q \in Places : IsAt(k, q)'
  <2>1. PICK q \in Places : IsAt(k, q)
    BY DEF OnePlace
  <2>2. IsAt(k, q)'
    BY <2>1 DEF IsAt, Stays
  <2> QED
    BY <2>2
<1> QED
  BY <1>1 DEF OnePlace, NoDuplicates

\* A job that is found in a place is in no other.
LEMMA FoundAt ==
    ASSUME OnePlace, NEW j \in Jobs
    PROVE  /\ pc[j] \notin Waiting => IsAt(j, <<"submitter", NoServer>>)
           /\ Contains(pool, j) => IsAt(j, <<"pool", NoServer>>)
           /\ done[j] # Empty => IsAt(j, <<"done", NoServer>>)
           /\ \A s \in Servers :
                /\ Contains(queue[s], j) => IsAt(j, <<"queue", s>>)
                /\ hand[s] = j => IsAt(j, <<"hand", s>>)
                /\ Contains(failing[s], j) => IsAt(j, <<"failing", s>>)
<1>1. PICK p \in Places : IsAt(j, p)
  BY DEF OnePlace
<1> QED
  BY <1>1 DEF IsAt

\* The tuples that name places are places.
LEMMA PlaceNames ==
    /\ \A x \in {"submitter", "pool", "done"} : <<x, NoServer>> \in Places
    /\ \A x \in {"queue", "hand", "failing"}, s \in Servers :
         <<x, s>> \in Places
BY DEF Places

\* failServerQueue and failPending move the whole queue of a server.
LEMMA GrabQueueKeepsOnePlace ==
    ASSUME TypeOK, OnePlace, NEW s \in Servers, NEW state, GrabQueue(s, state),
           failing[s] = <<>>
    PROVE  OnePlace'
<1>1. /\ queue'[s] = <<>> /\ failing'[s] = queue[s]
      /\ \A t \in Servers \ {s} : queue'[t] = queue[t] /\ failing'[t] = failing[t]
      /\ UNCHANGED <<pool, pc, done, hand>>
  BY DEF GrabQueue, TypeOK, poolVars, submitVars
<1>2. IsInjective(<<>>) /\ \A e : ~Contains(<<>>, e)
  BY EmptyDistinct
<1>3. NoDuplicates'
  BY <1>1, <1>2 DEF OnePlace, NoDuplicates
<1>4. ASSUME NEW k \in Jobs
      PROVE  \E q \in Places : IsAt(k, q)'
  <2>1. PICK q \in Places : IsAt(k, q)
    BY DEF OnePlace
  <2>2. CASE q = <<"queue", s>>
    <3>1. IsAt(k, <<"failing", s>>)'
      BY <1>1, <1>2, <2>1, <2>2 DEF IsAt
    <3> QED
      BY <3>1, PlaceNames
  <2>3. CASE q # <<"queue", s>>
    <3>1. ~Contains(queue[s], k) /\ ~Contains(failing[s], k)
      BY <1>2, <2>1, <2>3 DEF IsAt
    <3>2. IsAt(k, q)'
      BY <1>1, <1>2, <2>1, <3>1 DEF IsAt
    <3> QED
      BY <3>2
  <2> QED
    BY <2>2, <2>3
<1> QED
  BY <1>3, <1>4 DEF OnePlace, NoDuplicates

\* Every step keeps every job in exactly one place.
LEMMA OnePlaceStep ==
    ASSUME TypeOK, OnePlace, [Next]_vars
    PROVE  OnePlace'
<1> USE DEF serverVars, poolVars, submitVars, workerVars
<1>0. NoDuplicates /\ \A s \in Servers : NoServer # s
  BY NumServersAssumption DEF OnePlace, NoDuplicates, Servers, NoServer
<1>1. ASSUME NEW j \in Jobs, NEW state, Goto(j, state),
             state \in Waiting <=> pc[j] \in Waiting,
             UNCHANGED <<pool, queue, done, hand, failing>>
      PROVE  OnePlace'
  <2>1. \A k \in Jobs : Stays(k)
    BY <1>1 DEF Goto, Stays, TypeOK
  <2> QED
    BY <1>0, <1>1, <2>1, StayStep DEF NoDuplicates
<1>2. ASSUME NEW j \in Jobs, NEW m \in Models, Submit(j, m)
      PROVE  OnePlace'
  <2>1. pc[j] \notin Waiting
    BY <1>2 DEF Submit, Waiting
  <2>2. done[j] = Empty
    BY <2>1, FoundAt DEF IsAt
  <2>3. done' = done
    BY <1>2, <2>2 DEF Submit, TypeOK
  <2>4. "pick" \notin Waiting
    BY DEF Waiting
  <2> QED
    BY <1>1, <1>2, <2>1, <2>3, <2>4 DEF Submit
<1>3. ASSUME UNCHANGED <<pool, queue, pc, done, hand, failing>>
      PROVE  OnePlace'
  <2>1. \A k \in Jobs : Stays(k)
    BY <1>3 DEF Stays
  <2> QED
    BY <1>0, <1>3, <2>1, StayStep DEF NoDuplicates
<1>4. ASSUME NEW j \in Jobs, ClientCancel(j)
      PROVE  OnePlace'
  BY <1>3, <1>4 DEF ClientCancel
<1>5. CASE Stop
  BY <1>3, <1>5 DEF Stop
<1>6. ASSUME NEW j \in Jobs, PickServer(j)
      PROVE  OnePlace'
  BY <1>1, <1>6 DEF PickServer, Waiting
<1>7. ASSUME NEW j \in Jobs, PickFails(j)
      PROVE  OnePlace'
  BY <1>1, <1>7 DEF PickFails, Finish, Waiting
<1>8. ASSUME NEW j \in Jobs, CheckCompatible(j)
      PROVE  OnePlace'
  BY <1>1, <1>8 DEF CheckCompatible, GoOn, Finish, Waiting
<1>9. ASSUME NEW j \in Jobs, BackoffExpires(j)
      PROVE  OnePlace'
  BY <1>1, <1>9 DEF BackoffExpires, GoOn, Waiting
<1>10. ASSUME NEW j \in Jobs, BackoffCancelled(j)
       PROVE  OnePlace'
  BY <1>1, <1>10 DEF BackoffCancelled, Finish, Waiting
<1>11. ASSUME NEW j \in Jobs, Enqueue(j)
       PROVE  OnePlace'
  <2>0. PICK s \in Servers : s = target[j]
    BY <1>11 DEF Enqueue, TypeOK, Picked
  <2>1. /\ pc[j] = "enqueue" /\ pc[j] \notin Waiting
        /\ pc' = [pc EXCEPT ![j] = "wake"] /\ "wake" \in Waiting
    BY <1>11 DEF Enqueue, GoOn, Goto, Waiting
  <2>2. IsAt(j, <<"submitter", NoServer>>)
    BY <2>1, FoundAt
  <2>3. queue[s] \in Seq(Jobs) /\ IsInjective(queue[s]) /\ ~Contains(queue[s], j)
    BY <1>0, <2>2 DEF IsAt, NoDuplicates, TypeOK
  <2>4. /\ IsInjective(Append(queue[s], j))
        /\ \A e : Contains(Append(queue[s], j), e) <=> Contains(queue[s], e) \/ e = j
    BY <2>3, AppendDistinct
  <2>5. /\ queue'[s] = Append(queue[s], j)
        /\ \A t \in Servers \ {s} : queue'[t] = queue[t]
        /\ UNCHANGED <<pool, done, hand, failing>>
    BY <1>11, <2>0 DEF Enqueue, TypeOK
  <2>6. IsAt(j, <<"queue", s>>)'
    BY <2>1, <2>2, <2>4, <2>5 DEF IsAt, TypeOK
  <2>7. \A k \in Jobs \ {j} : Stays(k)
    BY <2>1, <2>4, <2>5 DEF Stays, TypeOK
  <2>8. NoDuplicates'
    BY <1>0, <2>4, <2>5 DEF NoDuplicates
  <2> QED
    BY <2>6, <2>7, <2>8, MoveStep, PlaceNames
<1>12. ASSUME NEW j \in Jobs, WakeTarget(j)
       PROVE  OnePlace'
  BY <1>1, <1>12 DEF WakeTarget, GoOn, Waiting
<1>13. ASSUME NEW j \in Jobs, PushPool(j)
       PROVE  OnePlace'
  <2>1. /\ pc[j] = "enqueue" /\ pc[j] \notin Waiting
        /\ pc' = [pc EXCEPT ![j] = "wake"] /\ "wake" \in Waiting
    BY <1>13 DEF PushPool, GoOn, Goto, Waiting
  <2>2. IsAt(j, <<"submitter", NoServer>>)
    BY <2>1, FoundAt
  <2>3. pool \in Seq(Jobs) /\ IsInjective(pool) /\ ~Contains(pool, j)
    BY <1>0, <2>2 DEF IsAt, NoDuplicates, TypeOK
  <2>4. /\ IsInjective(Append(pool, j))
        /\ \A e : Contains(Append(pool, j), e) <=> Contains(pool, e) \/ e = j
    BY <2>3, AppendDistinct
  <2>5. pool' = Append(pool, j) /\ UNCHANGED <<queue, hand, failing>>
    BY <1>13 DEF PushPool
  <2>6. done' = done
    BY <1>13, <2>2 DEF PushPool, IsAt, TypeOK
  <2>7. IsAt(j, <<"pool", NoServer>>)'
    BY <2>1, <2>2, <2>4, <2>5, <2>6 DEF IsAt, TypeOK
  <2>8. \A k \in Jobs \ {j} : Stays(k)
    BY <2>1, <2>4, <2>5, <2>6 DEF Stays, TypeOK
  <2>9. NoDuplicates'
    BY <1>0, <2>4, <2>5 DEF NoDuplicates
  <2> QED
    BY <2>7, <2>8, <2>9, MoveStep, PlaceNames
<1>14. ASSUME NEW j \in Jobs, WakeIdle(j)
       PROVE  OnePlace'
  BY <1>1, <1>14 DEF WakeIdle, GoOn, Waiting
<1>15. ASSUME NEW j \in Jobs, NEW state, Goto(j, state), state \notin Waiting,
              done[j] # Empty, done' = [done EXCEPT ![j] = Empty],
              UNCHANGED <<pool, queue, hand, failing>>
       PROVE  OnePlace'
  <2>1. IsAt(j, <<"done", NoServer>>)
    BY <1>15, FoundAt
  <2>2. IsAt(j, <<"submitter", NoServer>>)'
    BY <1>15, <2>1 DEF IsAt, Goto, TypeOK
  <2>3. \A k \in Jobs \ {j} : Stays(k)
    BY <1>15 DEF Stays, Goto, TypeOK
  <2>4. NoDuplicates'
    BY <1>0, <1>15 DEF NoDuplicates
  <2> QED
    BY <2>2, <2>3, <2>4, MoveStep, PlaceNames
<1>16. ASSUME NEW j \in Jobs, Receive(j)
       PROVE  OnePlace'
  <2>1. /\ done[j] # Empty /\ done' = [done EXCEPT ![j] = Empty]
        /\ UNCHANGED <<pool, queue, hand, failing>>
    BY <1>16 DEF Receive
  <2>2. \E state \in {"ended", "backoff", "pick"} : Goto(j, state)
    BY <1>16 DEF Receive, Finish
  <2> QED
    BY <1>15, <2>1, <2>2 DEF Waiting
<1>17. ASSUME NEW j \in Jobs, CancelQueued(j)
       PROVE  OnePlace'
  <2>0. /\ pc' = [pc EXCEPT ![j] = "ended"] /\ "ended" \notin Waiting
        /\ UNCHANGED <<done, hand, failing>>
    BY <1>17 DEF CancelQueued, Finish, Goto, Waiting
  <2>1. CASE Pull
    <3>1. PICK i \in DOMAIN pool :
            pool[i] = j /\ pool' = RemoveAt(pool, i) /\ queue' = queue
      BY <1>17, <2>1 DEF CancelQueued, First, Positions
    <3>2. /\ pool \in Seq(Jobs) /\ IsInjective(pool) /\ i \in 1 .. Len(pool)
          /\ Contains(pool, j)
      BY <1>0, <3>1, LenProperties DEF NoDuplicates, TypeOK, Contains
    <3>3. /\ IsInjective(pool')
          /\ \A e : Contains(pool', e) <=> Contains(pool, e) /\ e # j
      BY <3>1, <3>2, RemoveAtDistinct
    <3>4. IsAt(j, <<"pool", NoServer>>)
      BY <3>2, FoundAt
    <3>5. IsAt(j, <<"submitter", NoServer>>)'
      BY <2>0, <3>1, <3>3, <3>4 DEF IsAt, TypeOK
    <3>6. \A k \in Jobs \ {j} : Stays(k)
      BY <2>0, <3>1, <3>3 DEF Stays, TypeOK
    <3>7. NoDuplicates'
      BY <1>0, <2>0, <3>1, <3>3 DEF NoDuplicates
    <3> QED
      BY <3>5, <3>6, <3>7, MoveStep, PlaceNames
  <2>2. CASE ~Pull
    <3>1. PICK s \in Servers : s = target[j]
      BY <1>17, <2>2 DEF CancelQueued, TypeOK, Picked
    <3>2. PICK i \in DOMAIN queue[s] :
            /\ queue[s][i] = j
            /\ queue' = [queue EXCEPT ![s] = RemoveAt(@, i)] /\ pool' = pool
      BY <1>17, <2>2, <3>1 DEF CancelQueued, First, Positions
    <3>3. /\ queue[s] \in Seq(Jobs) /\ IsInjective(queue[s])
          /\ i \in 1 .. Len(queue[s]) /\ Contains(queue[s], j)
      BY <1>0, <3>1, <3>2, LenProperties DEF NoDuplicates, TypeOK, Contains
    <3>4. /\ queue'[s] = RemoveAt(queue[s], i)
          /\ \A t \in Servers \ {s} : queue'[t] = queue[t]
      BY <3>1, <3>2 DEF TypeOK
    <3>5. /\ IsInjective(queue'[s])
          /\ \A e : Contains(queue'[s], e) <=> Contains(queue[s], e) /\ e # j
      BY <3>2, <3>3, <3>4, RemoveAtDistinct
    <3>6. IsAt(j, <<"queue", s>>)
      BY <3>1, <3>3, FoundAt
    <3>7. IsAt(j, <<"submitter", NoServer>>)'
      BY <2>0, <3>1, <3>2, <3>4, <3>5, <3>6 DEF IsAt, TypeOK
    <3>8. \A k \in Jobs \ {j} : Stays(k)
      BY <2>0, <3>2, <3>4, <3>5 DEF Stays, TypeOK
    <3>9. NoDuplicates'
      BY <1>0, <2>0, <3>2, <3>4, <3>5 DEF NoDuplicates
    <3> QED
      BY <3>7, <3>8, <3>9, MoveStep, PlaceNames
  <2> QED
    BY <2>1, <2>2
<1>18. ASSUME NEW j \in Jobs, CancelTaken(j)
       PROVE  OnePlace'
  BY <1>1, <1>18 DEF CancelTaken, GoOn, Waiting
<1>19. ASSUME NEW j \in Jobs, ReceiveLate(j)
       PROVE  OnePlace'
  BY <1>15, <1>19 DEF ReceiveLate, Finish, Waiting
<1>20. ASSUME NEW s \in Servers, AwakeWorker(s)
       PROVE  OnePlace'
  BY <1>3, <1>20 DEF AwakeWorker
<1>21. ASSUME NEW s \in Servers, PopQueue(s)
       PROVE  OnePlace'
  <2>1. PICK i \in DOMAIN queue[s] :
          /\ hand' = [hand EXCEPT ![s] = queue[s][i]]
          /\ queue' = [queue EXCEPT ![s] = RemoveAt(@, i)]
    BY <1>21, PickNextIsPosition DEF PopQueue
  <2>2. /\ queue[s] \in Seq(Jobs) /\ IsInjective(queue[s])
        /\ i \in 1 .. Len(queue[s]) /\ queue[s][i] \in Jobs
        /\ Contains(queue[s], queue[s][i])
    BY <1>0, <2>1, LenProperties DEF NoDuplicates, TypeOK, Contains
  <2> PICK j \in Jobs : j = queue[s][i]
    BY <2>2
  <2>3. /\ queue'[s] = RemoveAt(queue[s], i) /\ hand'[s] = j
        /\ \A t \in Servers \ {s} : queue'[t] = queue[t] /\ hand'[t] = hand[t]
        /\ hand[s] = NoJob /\ UNCHANGED <<pool, pc, done, failing>>
    BY <1>21, <2>1 DEF PopQueue, TypeOK, Holding
  <2>4. /\ IsInjective(queue'[s])
        /\ \A e : Contains(queue'[s], e) <=> Contains(queue[s], e) /\ e # j
    BY <2>2, <2>3, RemoveAtDistinct
  <2>5. IsAt(j, <<"queue", s>>)
    BY <2>2, FoundAt
  <2>6. IsAt(j, <<"hand", s>>)'
    BY <2>3, <2>4, <2>5 DEF IsAt
  <2>7. \A k \in Jobs \ {j} : Stays(k)
    BY <2>3, <2>4, NoJobAssumption DEF Stays
  <2>8. NoDuplicates'
    BY <1>0, <2>3, <2>4 DEF NoDuplicates
  <2> QED
    BY <2>2, <2>6, <2>7, <2>8, MoveStep, PlaceNames
<1>22. ASSUME NEW s \in Servers, PopShared(s)
       PROVE  OnePlace'
  <2>1. PICK i \in DOMAIN pool :
          hand' = [hand EXCEPT ![s] = pool[i]] /\ pool' = RemoveAt(pool, i)
    BY <1>22, PopPoolIsPosition DEF PopShared
  <2>2. /\ pool \in Seq(Jobs) /\ IsInjective(pool) /\ i \in 1 .. Len(pool)
        /\ pool[i] \in Jobs /\ Contains(pool, pool[i])
    BY <1>0, <2>1, LenProperties DEF NoDuplicates, TypeOK, Contains
  <2> PICK j \in Jobs : j = pool[i]
    BY <2>2
  <2>3. /\ hand'[s] = j /\ \A t \in Servers \ {s} : hand'[t] = hand[t]
        /\ hand[s] = NoJob /\ UNCHANGED <<queue, pc, done, failing>>
    BY <1>22, <2>1 DEF PopShared, TypeOK, Holding
  <2>4. /\ IsInjective(pool')
        /\ \A e : Contains(pool', e) <=> Contains(pool, e) /\ e # j
    BY <2>1, <2>2, RemoveAtDistinct
  <2>5. IsAt(j, <<"pool", NoServer>>)
    BY <2>2, FoundAt
  <2>6. IsAt(j, <<"hand", s>>)'
    BY <2>3, <2>4, <2>5 DEF IsAt
  <2>7. \A k \in Jobs \ {j} : Stays(k)
    BY <2>3, <2>4, NoJobAssumption DEF Stays
  <2>8. NoDuplicates'
    BY <1>0, <2>3, <2>4 DEF NoDuplicates
  <2> QED
    BY <2>2, <2>6, <2>7, <2>8, MoveStep, PlaceNames
<1>23. ASSUME NEW s \in Servers,
              PopNothing(s) \/ Dispatch(s) \/ FailingDone(s) \/ ClearInFlight(s)
       PROVE  OnePlace'
  BY <1>3, <1>23 DEF PopNothing, Dispatch, FailingDone, ClearInFlight
<1>24. ASSUME NEW s \in Servers, NEW o \in Outcomes, RunEnds(s, o)
       PROVE  OnePlace'
  BY <1>3, <1>24 DEF RunEnds
<1>25. ASSUME NEW s \in Servers, FailServerQueue(s) \/ FailPending(s)
       PROVE  OnePlace'
  <2>1. failing[s] = <<>>
    BY <1>25 DEF FailServerQueue, FailPending, TypeOK
  <2> QED
    BY <1>25, <2>1, GrabQueueKeepsOnePlace DEF FailServerQueue, FailPending
<1>26. ASSUME NEW s \in Servers, DrainPool(s)
       PROVE  OnePlace'
  <2>1. /\ pool' = <<>> /\ failing'[s] = pool /\ failing[s] = <<>>
        /\ \A t \in Servers \ {s} : failing'[t] = failing[t]
        /\ UNCHANGED <<queue, pc, done, hand>>
    BY <1>26 DEF DrainPool, TypeOK
  <2>2. IsInjective(<<>>) /\ \A e : ~Contains(<<>>, e)
    BY EmptyDistinct
  <2>3. NoDuplicates'
    BY <1>0, <2>1, <2>2 DEF NoDuplicates
  <2>4. ASSUME NEW k \in Jobs
        PROVE  \E q \in Places : IsAt(k, q)'
    <3>1. PICK q \in Places : IsAt(k, q)
      BY DEF OnePlace
    <3>2. CASE q = <<"pool", NoServer>>
      <4>1. IsAt(k, <<"failing", s>>)'
        BY <2>1, <2>2, <3>1, <3>2 DEF IsAt
      <4> QED
        BY <4>1, PlaceNames
    <3>3. CASE q # <<"pool", NoServer>>
      <4>1. ~Contains(pool, k) /\ ~Contains(failing[s], k)
        BY <2>1, <2>2, <3>1, <3>3 DEF IsAt
      <4>2. IsAt(k, q)'
        BY <2>1, <2>2, <3>1, <4>1 DEF IsAt
      <4> QED
        BY <4>2
    <3> QED
      BY <3>2, <3>3
  <2> QED
    BY <2>3, <2>4 DEF OnePlace, NoDuplicates
<1>27. ASSUME NEW s \in Servers, FailNext(s)
       PROVE  OnePlace'
  <2>1. failing[s] \in Seq(Jobs) /\ failing[s] # <<>> /\ IsInjective(failing[s])
    BY <1>0, <1>27 DEF FailNext, NoDuplicates, TypeOK
  <2> PICK j \in Jobs : j = Head(failing[s])
    BY <2>1, TailDistinct
  <2>2. /\ Contains(failing[s], j)
        /\ IsInjective(Tail(failing[s]))
        /\ \A e : Contains(Tail(failing[s]), e) <=> Contains(failing[s], e) /\ e # j
    BY <2>1, TailDistinct
  <2>3. IsAt(j, <<"failing", s>>)
    BY <2>2, FoundAt
  <2>4. done' = [done EXCEPT ![j] = FailMessage(s)] /\ FailMessage(s) # Empty
    BY <1>27, <2>3 DEF FailNext, FailMessage, Message, Empty, IsAt
  <2>5. /\ failing'[s] = Tail(failing[s])
        /\ \A t \in Servers \ {s} : failing'[t] = failing[t]
        /\ UNCHANGED <<pool, queue, pc, hand>>
    BY <1>27 DEF FailNext, TypeOK
  <2>6. IsAt(j, <<"done", NoServer>>)'
    BY <2>2, <2>3, <2>4, <2>5 DEF IsAt, TypeOK
  <2>7. \A k \in Jobs \ {j} : Stays(k)
    BY <2>2, <2>4, <2>5 DEF Stays, TypeOK
  <2>8. NoDuplicates'
    BY <1>0, <2>2, <2>5 DEF NoDuplicates
  <2> QED
    BY <2>2, <2>6, <2>7, <2>8, MoveStep, PlaceNames
<1>28. ASSUME NEW s \in Servers, Deliver(s)
       PROVE  OnePlace'
  <2>1. hand[s] \in Jobs /\ wres[s] # "none"
    BY <1>28 DEF Deliver, TypeOK, Holding, RunOver
  <2> PICK j \in Jobs : j = hand[s]
    BY <2>1
  <2>2. IsAt(j, <<"hand", s>>)
    BY FoundAt
  <2>3. /\ done' = [done EXCEPT ![j] = Message(wres[s], s)]
        /\ Message(wres[s], s) # Empty
    BY <1>28, <2>1 DEF Deliver, Message, Empty
  <2>4. /\ hand'[s] = NoJob /\ \A t \in Servers \ {s} : hand'[t] = hand[t]
        /\ UNCHANGED <<pool, queue, pc, failing>>
    BY <1>28 DEF Deliver, TypeOK
  <2>5. IsAt(j, <<"done", NoServer>>)'
    BY <2>1, <2>2, <2>3, <2>4, NoJobAssumption DEF IsAt, TypeOK
  <2>6. \A k \in Jobs \ {j} : Stays(k)
    BY <2>1, <2>3, <2>4, NoJobAssumption DEF Stays, TypeOK
  <2>7. NoDuplicates'
    BY <1>0, <2>4 DEF NoDuplicates
  <2> QED
    BY <2>1, <2>5, <2>6, <2>7, MoveStep, PlaceNames
<1>29. CASE UNCHANGED vars
  BY <1>3, <1>29 DEF vars
<1> QED
  BY <1>2, <1>4, <1>5, <1>6, <1>7, <1>8, <1>9, <1>10, <1>11, <1>12, <1>13,
     <1>14, <1>16, <1>17, <1>18, <1>19, <1>20, <1>21, <1>22, <1>23, <1>24,
     <1>25, <1>26, <1>27, <1>28, <1>29
  DEF Next, SubmitterStep, WorkerStep

LEMMA OnePlaceInit == Init => OnePlace
<1> SUFFICES ASSUME Init PROVE OnePlace
  OBVIOUS
<1>1. IsInjective(<<>>) /\ \A e : ~Contains(<<>>, e)
  BY EmptyDistinct
<1>2. ASSUME NEW j \in Jobs
      PROVE  IsAt(j, <<"submitter", NoServer>>)
  BY <1>1, NoJobAssumption DEF Init, IsAt, Waiting
<1> QED
  BY <1>1, <1>2, PlaceNames DEF Init, OnePlace

\* A job is always in exactly one place, for any number of clients, servers
\* and attempts: no result is dropped or sent to a full channel, no job is
\* run twice at a time, and Submit never returns while its job is still with
\* a queue or a worker.  Not inductive without TypeOK: that a grabbed queue
\* overwrites nothing and that a delivered message is not empty are its facts.
THEOREM JobsNeverLostOrDuplicated == Spec => []OnePlace
<1>1. Init => TypeOK /\ OnePlace
  BY TypeInit, OnePlaceInit
<1>2. TypeOK /\ OnePlace /\ [Next]_vars => (TypeOK /\ OnePlace)'
  BY TypeStep, OnePlaceStep
<1> QED
  BY <1>1, <1>2, PTL DEF Spec

=============================================================================
