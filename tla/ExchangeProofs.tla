--------------------------- MODULE ExchangeProofs ---------------------------
(***************************************************************************)
(* Proofs about Exchange, for any number of requests and attempts: what a   *)
(* client receives comes from one attempt, a row that says completed stands *)
(* for an answer read to its end, a plain request that failed shows an      *)
(* error status, and the history tells the truth about requests across      *)
(* crashes.                                                                 *)
(***************************************************************************)
EXTENDS Exchange, TLAPS

Open == {"pending", "running"}

\* As long as a retry is possible the client has nothing, and a stream has
\* only lines of its own attempt.
SourceOf(j) ==
    /\ \A m, n \in from[j] : m = n
    /\ at[j] \in {"idle", "forward"} => from[j] = {}
    /\ at[j] = "submit" /\ ~sent[j] => from[j] = {}
    /\ at[j] = "relay" => from[j] \subseteq {tries[j]}

SourceInv == \A j \in Jobs : SourceOf(j)

\* Who may own an open row, and that nobody who still writes owns a closed one.
RowOf(j) ==
    /\ row[j] \in Open => at[j] \in Live \cup {"dead"} \/ missed[j]
    /\ ~down /\ at[j] = "dead" /\ row[j] \in Open => missed[j]
    /\ down => at[j] \notin Live
    /\ row[j] = "running" /\ ~missed[j] /\ at[j] # "dead" =>
          at[j] \in {"forward", "relay"} \/ sent[j]
    /\ at[j] \in Live => row[j] \notin Terminal
    /\ at[j] = "idle" => row[j] = "none"

RowInv == \A j \in Jobs : RowOf(j)


\* A write of a row keeps the types of the history.
LEMMA PersistType ==
    ASSUME NEW j \in Jobs, ExchangeTypeOK,
           NEW status \in Terminal \cup Open, Persist(j, status)
    PROVE  /\ row' \in [Jobs -> Terminal \cup {"none", "pending", "running"}]
           /\ missed' \in [Jobs -> BOOLEAN]
<1>1. row' \in [Jobs -> Terminal \cup {"none", "pending", "running"}]
    BY DEF ExchangeTypeOK, Persist, Open
<1>2. missed' \in [Jobs -> BOOLEAN]
    BY DEF ExchangeTypeOK, Persist
<1> QED
    BY <1>1, <1>2

\* The end of a Run keeps the types of what it writes.
LEMMA LeaveRunType ==
    ASSUME NEW j \in Jobs, ExchangeTypeOK, NEW here, NEW ok \in BOOLEAN,
           NEW started \in BOOLEAN, LeaveRun(j, here, ok, started),
           header' \in [Jobs -> {"none", "ok", "error"}],
           from' \in [Jobs -> SUBSET (0 .. MaxAttempts)],
           whole' \in [Jobs -> BOOLEAN]
    PROVE  ExchangeTypeOK'
<1>1. /\ row' \in [Jobs -> Terminal \cup {"none", "pending", "running"}]
      /\ missed' \in [Jobs -> BOOLEAN]
    BY PersistType DEF LeaveRun, PersistAttempt, storeVars, ExchangeTypeOK, Open
<1>2. phase' \in [Jobs -> Phases] /\ sent' \in [Jobs -> BOOLEAN]
    BY DEF LeaveRun, EndRun, ExchangeTypeOK, Phases
<1>3. at' \in [Jobs -> Live \cup {"idle", "done", "dead"}]
    BY DEF LeaveRun, At, ExchangeTypeOK, Live
<1>4. tail' \in [Jobs -> BOOLEAN]
    BY DEF LeaveRun, DropTail, ExchangeTypeOK
<1> QED
    BY <1>1, <1>2, <1>3, <1>4 DEF LeaveRun, EndRun, ExchangeTypeOK

\* A status line and bytes of this attempt keep their types.
LEMMA WriteType ==
    ASSUME NEW j \in Jobs, ExchangeTypeOK
    PROVE  /\ \A status \in {"ok", "error"} :
                WriteHeader(j, status) =>
                    header' \in [Jobs -> {"none", "ok", "error"}]
           /\ \A n \in 0 .. MaxAttempts :
                WriteBytes(j, n) => from' \in [Jobs -> SUBSET (0 .. MaxAttempts)]
<1>1. ASSUME NEW status \in {"ok", "error"}, WriteHeader(j, status)
      PROVE  header' \in [Jobs -> {"none", "ok", "error"}]
    BY <1>1 DEF ExchangeTypeOK, WriteHeader
<1>2. ASSUME NEW n \in 0 .. MaxAttempts, WriteBytes(j, n)
      PROVE  from' \in [Jobs -> SUBSET (0 .. MaxAttempts)]
    BY <1>2 DEF ExchangeTypeOK, WriteBytes
<1> QED
    BY <1>1, <1>2

LEMMA ExchangeTypeStep ==
    ASSUME ExchangeTypeOK, [ExchangeNext]_exchangeVars
    PROVE  ExchangeTypeOK'
<1> USE DEF submissionVars, handlerVars, storeVars
<1>0. /\ 0 \in 0 .. MaxAttempts
      /\ \A j \in Jobs : tries[j] \in 0 .. MaxAttempts
    BY SubmissionAssumption DEF ExchangeTypeOK
<1>1. ASSUME NEW j \in Jobs, Reject(j) PROVE ExchangeTypeOK'
    BY <1>0, <1>1, WriteType DEF Reject, At, ExchangeTypeOK, Live
<1>2. ASSUME NEW j \in Jobs, ReceiveRequest(j) PROVE ExchangeTypeOK'
    BY <1>2, PersistType
    DEF ReceiveRequest, At, Accept, NoAnswer, ExchangeTypeOK, Phases, Live, Open
<1>3. ASSUME NEW j \in Jobs, Finish(j) PROVE ExchangeTypeOK'
    BY <1>3, PersistType DEF Finish, At, ExchangeTypeOK, Live, Terminal
<1>4. ASSUME NEW j \in Jobs, NEW f \in Formats, CallRun(j, f)
      PROVE  ExchangeTypeOK'
  <2>1. tries' \in [Jobs -> 0 .. MaxAttempts]
      BY <1>0, <1>4, SubmissionAssumption DEF CallRun, StartRun, ExchangeTypeOK
  <2>2. /\ row' \in [Jobs -> Terminal \cup {"none", "pending", "running"}]
        /\ missed' \in [Jobs -> BOOLEAN]
      BY <1>4, PersistType DEF CallRun, Open
  <2>3. phase' \in [Jobs -> Phases]
      BY <1>4 DEF CallRun, StartRun, ExchangeTypeOK, Phases
  <2>4. at' \in [Jobs -> Live \cup {"idle", "done", "dead"}]
      BY <1>4 DEF CallRun, At, ExchangeTypeOK, Live
  <2> QED
      BY <1>4, <2>1, <2>2, <2>3, <2>4 DEF CallRun, StartRun, ExchangeTypeOK
<1>5. ASSUME NEW j \in Jobs, NEW ok \in BOOLEAN, SubmitReturns(j, ok)
      PROVE  ExchangeTypeOK'
  <2>1. /\ header' \in [Jobs -> {"none", "ok", "error"}]
        /\ from' \in [Jobs -> SUBSET (0 .. MaxAttempts)]
      BY <1>0, <1>5, WriteType DEF SubmitReturns, ExchangeTypeOK
  <2>2. answer' \in [Jobs -> [ok : BOOLEAN, started : BOOLEAN]]
      BY <1>5 DEF SubmitReturns, ReturnFrom, ExchangeTypeOK
  <2>3. /\ phase' \in [Jobs -> Phases]
        /\ at' \in [Jobs -> Live \cup {"idle", "done", "dead"}]
      BY <1>5 DEF SubmitReturns, ReturnFrom, At, ExchangeTypeOK, Phases, Live
  <2>4. tries' \in [Jobs -> 0 .. MaxAttempts]
      BY <1>0, <1>5 DEF SubmitReturns, ReturnFrom, ExchangeTypeOK
  <2> QED
      BY <1>5, <2>1, <2>2, <2>3, <2>4
      DEF SubmitReturns, ReturnFrom, ExchangeTypeOK
<1>6. ASSUME NEW j \in Jobs, RunStep(j) PROVE ExchangeTypeOK'
  <2>0. from \in [Jobs -> SUBSET (0 .. MaxAttempts)] /\ tries[j] \in 0 .. MaxAttempts
      BY <1>0 DEF ExchangeTypeOK
  <2>a. [from EXCEPT ![j] = @ \cup {tries[j]}] \in [Jobs -> SUBSET (0 .. MaxAttempts)]
      BY <2>0
  <2>b. BreakIsStarted(j) \in BOOLEAN
      BY DEF BreakIsStarted
  <2>1. CASE ForwardFails(j)
      BY <2>1, LeaveRunType DEF ForwardFails, ExchangeTypeOK
  <2>2. CASE AnswerPlain(j)
    <3>1. /\ header' \in [Jobs -> {"none", "ok", "error"}]
          /\ from' \in [Jobs -> SUBSET (0 .. MaxAttempts)]
          /\ whole' \in [Jobs -> BOOLEAN]
        BY <2>0, <2>2, WriteType DEF AnswerPlain, ExchangeTypeOK
    <3> QED
        BY <2>2, <3>1, LeaveRunType DEF AnswerPlain
  <2>3. CASE BeginRelay(j)
      BY <2>3, WriteType DEF BeginRelay, At, ExchangeTypeOK, Live
  <2>4. CASE RelayLine(j)
      BY <2>0, <2>4, WriteType DEF RelayLine, At, ExchangeTypeOK, Live
  <2>5. CASE RelayCut(j)
      BY <2>a, <2>5, LeaveRunType DEF RelayCut, ExchangeTypeOK
  <2>6. CASE RelayEnds(j)
    <3>1. /\ header' \in [Jobs -> {"none", "ok", "error"}]
          /\ from' \in [Jobs -> SUBSET (0 .. MaxAttempts)]
          /\ whole' \in [Jobs -> BOOLEAN]
        BY <2>0, <2>a, <2>6 DEF RelayEnds, ExchangeTypeOK
    <3>2. LeaveRun(j, "relay", TRUE, TRUE)
        BY <2>6 DEF RelayEnds
    <3> QED
        BY <3>1, <3>2, LeaveRunType
  <2>7. CASE RelayBreaks(j)
      BY <2>0, <2>b, <2>7, LeaveRunType, WriteType DEF RelayBreaks, ExchangeTypeOK
  <2> QED
      BY <1>6, <2>1, <2>2, <2>3, <2>4, <2>5, <2>6, <2>7 DEF RunStep
<1>7. ASSUME NEW j \in Jobs, ClientLeaves(j) PROVE ExchangeTypeOK'
    BY <1>7 DEF ClientLeaves, ExchangeTypeOK
<1>8. ASSUME NEW j \in Jobs, DeleteOlderThan(j) PROVE ExchangeTypeOK'
    BY <1>8 DEF DeleteOlderThan, ExchangeTypeOK
<1>9. CASE Crash
    BY <1>9 DEF Crash, ExchangeTypeOK, Phases, Live
<1>10. CASE Start
    BY <1>10 DEF Start, ExchangeTypeOK, Terminal
<1>11. CASE UNCHANGED exchangeVars
    BY <1>11 DEF exchangeVars, ExchangeTypeOK
<1> QED
    BY <1>1, <1>2, <1>3, <1>4, <1>5, <1>6, <1>7, <1>8, <1>9, <1>10, <1>11
    DEF ExchangeNext

-----------------------------------------------------------------------------
\* The end of a Run: what the client has is from this attempt, and nothing
\* when the attempt may be repeated.
LEMMA LeaveRunSource ==
    ASSUME ExchangeTypeOK, SourceInv, NEW j \in Jobs, NEW here,
           NEW ok, NEW started \in BOOLEAN, LeaveRun(j, here, ok, started),
           from' \in [Jobs -> SUBSET (0 .. MaxAttempts)],
           from'[j] \subseteq {tries[j]},
           ~started => from'[j] = {},
           \A k \in Jobs \ {j} : from'[k] = from[k]
    PROVE  SourceInv'
<1> SUFFICES ASSUME NEW k \in Jobs PROVE SourceOf(k)'
    BY DEF SourceInv
<1>1. /\ at'[j] = "submit" /\ sent'[j] = started
      /\ k # j => at'[k] = at[k] /\ sent'[k] = sent[k]
      /\ tries'[k] = tries[k]
    BY DEF LeaveRun, At, EndRun, ExchangeTypeOK
<1>2. CASE k = j
    BY <1>1, <1>2 DEF SourceOf
<1>3. CASE k # j
    BY <1>1, <1>3 DEF SourceOf, SourceInv
<1> QED
    BY <1>2, <1>3

LEMMA SourceStep ==
    ASSUME ExchangeTypeOK, SourceInv, [ExchangeNext]_exchangeVars
    PROVE  SourceInv'
<1> USE DEF submissionVars, handlerVars, storeVars
<1>1. ASSUME NEW j \in Jobs, Reject(j) PROVE SourceInv'
    BY <1>1 DEF Reject, At, WriteBytes, SourceInv, SourceOf, ExchangeTypeOK
<1>2. ASSUME NEW j \in Jobs, ReceiveRequest(j) PROVE SourceInv'
    BY <1>2 DEF ReceiveRequest, At, Accept, SourceInv, SourceOf, ExchangeTypeOK
<1>3. ASSUME NEW j \in Jobs, Finish(j) PROVE SourceInv'
    BY <1>3 DEF Finish, At, SourceInv, SourceOf, ExchangeTypeOK
<1>4. ASSUME NEW j \in Jobs, NEW f \in Formats, CallRun(j, f)
      PROVE  SourceInv'
    BY <1>4 DEF CallRun, At, StartRun, SourceInv, SourceOf, ExchangeTypeOK
<1>5. ASSUME NEW j \in Jobs, NEW ok \in BOOLEAN, SubmitReturns(j, ok)
      PROVE  SourceInv'
  <2> SUFFICES ASSUME NEW k \in Jobs PROVE SourceOf(k)'
      BY DEF SourceInv
  <2>1. /\ at'[j] = "finish" /\ sent' = sent
        /\ k # j => at'[k] = at[k] /\ tries'[k] = tries[k]
      BY <1>5 DEF SubmitReturns, At, ReturnFrom, ExchangeTypeOK
  <2>2. from'[j] = from[j] \/ (from[j] = {} /\ from'[j] = {0})
      BY <1>5 DEF SubmitReturns, At, WriteBytes, SourceInv, SourceOf, ExchangeTypeOK
  <2>3. k # j => from'[k] = from[k]
      BY <1>5 DEF SubmitReturns, WriteBytes, ExchangeTypeOK
  <2> QED
      BY <2>1, <2>2, <2>3 DEF SourceInv, SourceOf
<1>6. ASSUME NEW j \in Jobs, RunStep(j) PROVE SourceInv'
  <2> DEFINE more == [from EXCEPT ![j] = @ \cup {tries[j]}]
  <2>0. /\ from \in [Jobs -> SUBSET (0 .. MaxAttempts)]
        /\ more \in [Jobs -> SUBSET (0 .. MaxAttempts)]
        /\ more[j] = from[j] \cup {tries[j]}
        /\ \A k \in Jobs \ {j} : more[k] = from[k]
      BY DEF ExchangeTypeOK
  <2>a. /\ at[j] = "forward" => from[j] = {}
        /\ at[j] = "relay" => from[j] \subseteq {tries[j]}
      BY DEF SourceInv, SourceOf
  <2>b. WriteBytes(j, tries[j]) => from' = more
      BY DEF WriteBytes
  <2> HIDE DEF more
  <2>1. CASE ForwardFails(j)
      BY <2>0, <2>a, <2>1, LeaveRunSource DEF ForwardFails, LeaveRun, At
  <2>2. CASE AnswerPlain(j)
      BY <2>0, <2>a, <2>b, <2>2, LeaveRunSource DEF AnswerPlain, LeaveRun, At
  <2>3. CASE BeginRelay(j)
      BY <2>a, <2>3 DEF BeginRelay, At, SourceInv, SourceOf, ExchangeTypeOK
  <2>4. CASE RelayLine(j)
    <3>1. at' = at /\ sent' = sent /\ tries' = tries
        BY <2>4 DEF RelayLine, At, ExchangeTypeOK
    <3>2. from' \in {from, more}
        BY <2>b, <2>4 DEF RelayLine
    <3>3. at[j] = "relay"
        BY <2>4 DEF RelayLine, At
    <3> QED
        BY <2>0, <2>a, <3>1, <3>2, <3>3 DEF SourceInv, SourceOf
  <2>5. CASE RelayCut(j)
      BY <2>0, <2>a, <2>5, LeaveRunSource DEF RelayCut, LeaveRun, At, more
  <2>6. CASE RelayEnds(j)
      BY <2>0, <2>a, <2>6, LeaveRunSource DEF RelayEnds, LeaveRun, At, more
  <2>7. CASE RelayBreaks(j)
    <3>1. at[j] = "relay"
        BY <2>7 DEF RelayBreaks, LeaveRun, At
    <3>2. CASE BreakIsHidden(j)
        BY <2>0, <2>a, <2>b, <2>7, <3>1, <3>2, LeaveRunSource DEF RelayBreaks
    <3>3. CASE ~BreakIsHidden(j) /\ BreakIsStarted(j)
      <4>1. LeaveRun(j, "relay", FALSE, TRUE) /\ from' = from
          BY <2>7, <3>3, Zenon DEF RelayBreaks
      <4> QED
          BY <2>0, <2>a, <3>1, <4>1, LeaveRunSource
    <3>4. CASE ~BreakIsHidden(j) /\ ~BreakIsStarted(j)
      <4>1. LeaveRun(j, "relay", FALSE, FALSE) /\ from' = from
          BY <2>7, <3>4, Zenon DEF RelayBreaks
      <4>2. from[j] = {}
          BY <2>a, <3>1, <3>4 DEF BreakIsStarted
      <4> QED
          BY <2>0, <4>1, <4>2, LeaveRunSource
    <3> QED
        BY <3>2, <3>3, <3>4
  <2> QED
      BY <1>6, <2>1, <2>2, <2>3, <2>4, <2>5, <2>6, <2>7 DEF RunStep
<1>7. ASSUME NEW j \in Jobs, ClientLeaves(j) PROVE SourceInv'
    BY <1>7 DEF ClientLeaves, SourceInv, SourceOf
<1>8. ASSUME NEW j \in Jobs, DeleteOlderThan(j) PROVE SourceInv'
    BY <1>8 DEF DeleteOlderThan, SourceInv, SourceOf
<1>9. CASE Crash
    BY <1>9 DEF Crash, SourceInv, SourceOf, ExchangeTypeOK, Live
<1>10. CASE Start
    BY <1>10 DEF Start, SourceInv, SourceOf
<1>11. CASE UNCHANGED exchangeVars
    BY <1>11 DEF exchangeVars, SourceInv, SourceOf
<1> QED
    BY <1>1, <1>2, <1>3, <1>4, <1>5, <1>6, <1>7, <1>8, <1>9, <1>10, <1>11
    DEF ExchangeNext

-----------------------------------------------------------------------------
\* What a write of the status does to the row of j, and that other rows stay.
LEMMA PersistRow ==
    ASSUME ExchangeTypeOK, NEW j \in Jobs, NEW status, Persist(j, status)
    PROVE  /\ (row'[j] = status /\ ~missed'[j]) \/ (row'[j] = row[j] /\ missed'[j])
           /\ \A k \in Jobs \ {j} : row'[k] = row[k] /\ missed'[k] = missed[k]
<1>1. CASE row' = [row EXCEPT ![j] = status] /\ missed' = [missed EXCEPT ![j] = FALSE]
  <2>1. row'[j] = status /\ ~missed'[j]
      BY <1>1 DEF ExchangeTypeOK
  <2>2. \A k \in Jobs \ {j} : row'[k] = row[k] /\ missed'[k] = missed[k]
      BY <1>1 DEF ExchangeTypeOK
  <2> QED
      BY <2>1, <2>2
<1>2. CASE row' = row /\ missed' = [missed EXCEPT ![j] = TRUE]
    BY <1>2 DEF ExchangeTypeOK
<1> QED
    BY <1>1, <1>2 DEF Persist

\* The end of a Run: an open row is still owned by the handler, and it is not
\* left as running unless the response has begun.
LEMMA LeaveRunRow ==
    ASSUME ExchangeTypeOK, RowInv, NEW j \in Jobs, NEW here \in {"forward", "relay"},
           NEW ok, NEW started \in BOOLEAN, LeaveRun(j, here, ok, started)
    PROVE  RowInv'
<1> SUFFICES ASSUME NEW k \in Jobs PROVE RowOf(k)'
    BY DEF RowInv
<1>0. RowOf(k) /\ RowOf(j)
    BY DEF RowInv
<1>1. /\ at[j] = here /\ at'[j] = "submit" /\ sent'[j] = started /\ down' = down
      /\ k # j => at'[k] = at[k] /\ sent'[k] = sent[k]
    BY DEF LeaveRun, At, EndRun, ExchangeTypeOK
<1>2. CASE started
  <2>1. row' = row /\ missed' = missed
      BY <1>2 DEF LeaveRun, PersistAttempt, storeVars
  <2>2. CASE k = j
      BY <1>0, <1>1, <1>2, <2>1, <2>2 DEF RowOf, Live, Open, Terminal
  <2>3. CASE k # j
      BY <1>0, <1>1, <2>1, <2>3 DEF RowOf
  <2> QED
      BY <2>2, <2>3
<1>3. CASE ~started
  <2>1. Persist(j, "pending")
      BY <1>3 DEF LeaveRun, PersistAttempt
  <2> QED
      BY <1>0, <1>1, <2>1, PersistRow DEF RowOf, Live, Open, Terminal
<1> QED
    BY <1>2, <1>3

LEMMA RowStep ==
    ASSUME ExchangeTypeOK, RowInv, [ExchangeNext]_exchangeVars
    PROVE  RowInv'
<1> USE DEF submissionVars, handlerVars, storeVars
<1>1. ASSUME NEW j \in Jobs, Reject(j) PROVE RowInv'
    BY <1>1 DEF Reject, At, RowInv, RowOf, ExchangeTypeOK, Live, Open, Terminal
<1>2. ASSUME NEW j \in Jobs, ReceiveRequest(j) PROVE RowInv'
  <2> SUFFICES ASSUME NEW k \in Jobs PROVE RowOf(k)'
      BY DEF RowInv
  <2>1. /\ at[j] = "idle" /\ at'[j] = "submit" /\ ~down /\ down' = down
        /\ k # j => at'[k] = at[k] /\ sent'[k] = sent[k]
      BY <1>2 DEF ReceiveRequest, At, Accept, ExchangeTypeOK
  <2>2. /\ row'[j] = "pending" \/ (row'[j] = row[j] /\ missed'[j])
        /\ k # j => row'[k] = row[k] /\ missed'[k] = missed[k]
      BY <1>2, PersistRow DEF ReceiveRequest
  <2> QED
      BY <2>1, <2>2 DEF RowInv, RowOf, Live, Open, Terminal
<1>3. ASSUME NEW j \in Jobs, Finish(j) PROVE RowInv'
  <2> SUFFICES ASSUME NEW k \in Jobs PROVE RowOf(k)'
      BY DEF RowInv
  <2>1. /\ at[j] = "finish" /\ at'[j] = "done" /\ down' = down /\ sent' = sent
        /\ k # j => at'[k] = at[k]
      BY <1>3 DEF Finish, At, ExchangeTypeOK
  <2>2. /\ row'[j] \in {"completed", "failed"} \/ (row'[j] = row[j] /\ missed'[j])
        /\ k # j => row'[k] = row[k] /\ missed'[k] = missed[k]
      BY <1>3, PersistRow DEF Finish
  <2> QED
      BY <2>1, <2>2 DEF RowInv, RowOf, Live, Open, Terminal
<1>4. ASSUME NEW j \in Jobs, NEW f \in Formats, CallRun(j, f)
      PROVE  RowInv'
  <2> SUFFICES ASSUME NEW k \in Jobs PROVE RowOf(k)'
      BY DEF RowInv
  <2>1. /\ at[j] = "submit" /\ at'[j] = "forward" /\ down' = down /\ sent' = sent
        /\ k # j => at'[k] = at[k]
      BY <1>4 DEF CallRun, At, StartRun, ExchangeTypeOK
  <2>2. /\ row'[j] = "running" \/ (row'[j] = row[j] /\ missed'[j])
        /\ k # j => row'[k] = row[k] /\ missed'[k] = missed[k]
      BY <1>4, PersistRow DEF CallRun
  <2> QED
      BY <2>1, <2>2 DEF RowInv, RowOf, Live, Open, Terminal
<1>5. ASSUME NEW j \in Jobs, NEW ok \in BOOLEAN, SubmitReturns(j, ok)
      PROVE  RowInv'
    BY <1>5 DEF SubmitReturns, At, ReturnFrom, RowInv, RowOf, ExchangeTypeOK,
                Live, Open, Terminal
<1>6. ASSUME NEW j \in Jobs, RunStep(j) PROVE RowInv'
  <2>1. CASE ForwardFails(j)
      BY <2>1, LeaveRunRow DEF ForwardFails
  <2>2. CASE AnswerPlain(j)
      BY <2>2, LeaveRunRow DEF AnswerPlain
  <2>3. CASE BeginRelay(j)
      BY <2>3 DEF BeginRelay, At, RowInv, RowOf, ExchangeTypeOK, Live
  <2>4. CASE RelayLine(j)
    <3>1. at' = at
        BY <2>4 DEF RelayLine, At, ExchangeTypeOK
    <3> QED
        BY <2>4, <3>1 DEF RelayLine, RowInv, RowOf
  <2>5. CASE RelayCut(j)
      BY <2>5, LeaveRunRow DEF RelayCut
  <2>6. CASE RelayEnds(j)
      BY <2>6, LeaveRunRow DEF RelayEnds
  <2>7. CASE RelayBreaks(j)
    <3>1. PICK ok, b \in BOOLEAN : LeaveRun(j, "relay", ok, b)
        BY <2>7, Zenon DEF RelayBreaks
    <3> QED
        BY <3>1, LeaveRunRow
  <2> QED
      BY <1>6, <2>1, <2>2, <2>3, <2>4, <2>5, <2>6, <2>7 DEF RunStep
<1>7. ASSUME NEW j \in Jobs, ClientLeaves(j) PROVE RowInv'
    BY <1>7 DEF ClientLeaves, RowInv, RowOf
<1>8. ASSUME NEW j \in Jobs, DeleteOlderThan(j) PROVE RowInv'
    BY <1>8 DEF DeleteOlderThan, RowInv, RowOf, ExchangeTypeOK, Open, Terminal
<1>9. CASE Crash
    BY <1>9 DEF Crash, RowInv, RowOf, ExchangeTypeOK, Live, Open
<1>10. CASE Start
  <2> SUFFICES ASSUME NEW k \in Jobs PROVE RowOf(k)'
      BY DEF RowInv
  <2>1. /\ at' = at /\ sent' = sent /\ down /\ ~down' /\ RowOf(k)
        /\ row[k] \in Terminal \cup {"none", "pending", "running"}
      BY <1>10 DEF Start, RowInv, ExchangeTypeOK
  <2>2. CASE /\ row' = [j \in Jobs |-> IF row[j] \in Stale
                                        THEN "cancelled" ELSE row[j]]
             /\ missed' = missed
      BY <2>1, <2>2 DEF RowOf, Live, Open, Terminal, Stale
  <2>3. CASE /\ missed' = [j \in Jobs |-> IF at[j] = "dead" THEN TRUE ELSE missed[j]]
             /\ row' = row
    <3>1. /\ at[k] = "dead" => missed'[k]
          /\ at[k] # "dead" => missed'[k] = missed[k]
        BY <2>3
    <3> QED
        BY <2>1, <2>3, <3>1 DEF RowOf, Live, Open, Terminal
  <2> QED
      BY <1>10, <2>2, <2>3 DEF Start
<1>11. CASE UNCHANGED exchangeVars
    BY <1>11 DEF exchangeVars, RowInv, RowOf
<1> QED
    BY <1>1, <1>2, <1>3, <1>4, <1>5, <1>6, <1>7, <1>8, <1>9, <1>10, <1>11
    DEF ExchangeNext

-----------------------------------------------------------------------------
\* Whoever still waits for a plain answer was sent no status line, and
\* attempts are counted from one, so that 0 stands for the error body alone.
FailureOf(j) ==
    /\ ~stream[j] /\ at[j] \in {"idle", "forward"} => header[j] = "none"
    /\ ~stream[j] /\ at[j] = "submit" /\ ~sent[j] => header[j] = "none"
    /\ ~stream[j] => at[j] # "relay"
    /\ at[j] = "forward" => tries[j] # 0
    /\ ~stream[j] /\ from[j] = {0} => header[j] = "error"

FailureInv == \A j \in Jobs : FailureOf(j)

\* Every way to a completed row comes from a body read to its end.
WholeOf(j) ==
    ~Translated(j) =>
        /\ phase[j] = "served" => whole[j]
        /\ at[j] = "finish" /\ answer[j].ok => whole[j]
        /\ row[j] = "completed" => whole[j]

WholeInv == \A j \in Jobs : WholeOf(j)

\* What the end of a Run leaves in the place of j, and that nothing else of
\* the requests changes.
LEMMA LeaveRunFields ==
    ASSUME ExchangeTypeOK, NEW j \in Jobs, NEW here, NEW ok \in BOOLEAN,
           NEW started \in BOOLEAN, LeaveRun(j, here, ok, started)
    PROVE  /\ at[j] = here /\ at'[j] = "submit"
           /\ ok => phase'[j] = "served" /\ started
           /\ ~ok => phase'[j] = "open"
           /\ sent'[j] = started
           /\ row'[j] \in {row[j], "pending"}
           /\ tries' = tries /\ answer' = answer /\ stream' = stream
           /\ client' = client /\ backend' = backend
           /\ \A k \in Jobs \ {j} :
                at'[k] = at[k] /\ phase'[k] = phase[k] /\ sent'[k] = sent[k]
                /\ row'[k] = row[k]
<1>1. /\ row'[j] \in {row[j], "pending"}
      /\ \A k \in Jobs \ {j} : row'[k] = row[k]
    BY PersistRow DEF LeaveRun, PersistAttempt, storeVars
<1>2. /\ at[j] = here /\ at'[j] = "submit"
      /\ \A k \in Jobs \ {j} : at'[k] = at[k]
    BY DEF LeaveRun, At, ExchangeTypeOK
<1>3. /\ ok => phase'[j] = "served" /\ started
      /\ ~ok => phase'[j] = "open"
      /\ \A k \in Jobs \ {j} : phase'[k] = phase[k]
    BY DEF LeaveRun, EndRun, ExchangeTypeOK
<1>4. sent'[j] = started /\ \A k \in Jobs \ {j} : sent'[k] = sent[k]
    BY DEF LeaveRun, EndRun, ExchangeTypeOK
<1> QED
    BY <1>1, <1>2, <1>3, <1>4 DEF LeaveRun, EndRun

\* An attempt that leaves no status line and no bytes behind keeps FailureInv,
\* and so does any end of a streamed attempt.
LEMMA LeaveRunFailure ==
    ASSUME ExchangeTypeOK, SourceInv, FailureInv, NEW j \in Jobs, NEW here,
           NEW ok \in BOOLEAN, NEW started \in BOOLEAN,
           LeaveRun(j, here, ok, started),
           ~stream[j] => (started \/ header'[j] = "none") /\ from'[j] # {0},
           \A k \in Jobs \ {j} : from'[k] = from[k] /\ header'[k] = header[k]
    PROVE  FailureInv'
<1> SUFFICES ASSUME NEW k \in Jobs PROVE FailureOf(k)'
    BY DEF FailureInv
<1>1. CASE k = j
    BY <1>1, LeaveRunFields DEF FailureOf
<1>2. CASE k # j
    BY <1>2, LeaveRunFields DEF FailureOf, FailureInv
<1> QED
    BY <1>1, <1>2

LEMMA FailureStep ==
    ASSUME ExchangeTypeOK, SourceInv, FailureInv, [ExchangeNext]_exchangeVars
    PROVE  FailureInv'
<1> USE DEF submissionVars, handlerVars, storeVars
<1>1. ASSUME NEW j \in Jobs, Reject(j) PROVE FailureInv'
    BY <1>1 DEF Reject, At, WriteHeader, WriteBytes, FailureInv, FailureOf,
                ExchangeTypeOK
<1>2. ASSUME NEW j \in Jobs, ReceiveRequest(j) PROVE FailureInv'
    BY <1>2 DEF ReceiveRequest, At, Accept, FailureInv, FailureOf, ExchangeTypeOK
<1>3. ASSUME NEW j \in Jobs, Finish(j) PROVE FailureInv'
    BY <1>3 DEF Finish, At, FailureInv, FailureOf, ExchangeTypeOK
<1>4. ASSUME NEW j \in Jobs, NEW f \in Formats, CallRun(j, f)
      PROVE  FailureInv'
  <2> SUFFICES ASSUME NEW k \in Jobs PROVE FailureOf(k)'
      BY DEF FailureInv
  <2>1. /\ at[j] = "submit" /\ ~sent[j] /\ at'[j] = "forward"
        /\ sent' = sent /\ header' = header /\ from' = from /\ stream' = stream
        /\ k # j => at'[k] = at[k] /\ tries'[k] = tries[k]
      BY <1>4 DEF CallRun, At, StartRun, ExchangeTypeOK
  <2>2. tries'[j] # 0
      BY <1>4 DEF CallRun, StartRun, ExchangeTypeOK
  <2> QED
      BY <2>1, <2>2 DEF FailureInv, FailureOf
<1>5. ASSUME NEW j \in Jobs, NEW ok \in BOOLEAN, SubmitReturns(j, ok)
      PROVE  FailureInv'
  <2> SUFFICES ASSUME NEW k \in Jobs PROVE FailureOf(k)'
      BY DEF FailureInv
  <2>1. /\ at[j] = "submit" /\ at'[j] = "finish" /\ sent' = sent
        /\ stream' = stream
        /\ k # j => at'[k] = at[k] /\ tries'[k] = tries[k]
      BY <1>5 DEF SubmitReturns, At, ReturnFrom, ExchangeTypeOK
  <2>2. CASE ok \/ sent[j]
      BY <1>5, <2>1, <2>2 DEF SubmitReturns, FailureInv, FailureOf
  <2>3. CASE ~(ok \/ sent[j])
    <3>1. WriteHeader(j, "error") /\ WriteBytes(j, 0)
        BY <1>5, <2>3 DEF SubmitReturns
    <3>2. k # j => header'[k] = header[k] /\ from'[k] = from[k]
        BY <3>1 DEF WriteHeader, WriteBytes, ExchangeTypeOK
    <3>3. header[j] = "none" => header'[j] = "error"
        BY <3>1 DEF WriteHeader, ExchangeTypeOK
    <3> QED
        BY <2>1, <2>3, <3>2, <3>3 DEF FailureInv, FailureOf
  <2> QED
      BY <2>2, <2>3
<1>6. ASSUME NEW j \in Jobs, RunStep(j) PROVE FailureInv'
  <2>0. /\ \A status : WriteHeader(j, status) =>
              \A k \in Jobs \ {j} : header'[k] = header[k]
        /\ \A n : WriteBytes(j, n) =>
              from'[j] = from[j] \cup {n} /\ \A k \in Jobs \ {j} : from'[k] = from[k]
      BY DEF WriteHeader, WriteBytes, ExchangeTypeOK
  <2>1. CASE ForwardFails(j)
    <3>1. from[j] = {} /\ (~stream[j] => header[j] = "none")
        BY <2>1 DEF ForwardFails, LeaveRun, At, SourceInv, SourceOf, FailureInv,
                    FailureOf
    <3> QED
        BY <2>1, <3>1, LeaveRunFailure DEF ForwardFails
  <2>2. CASE AnswerPlain(j)
    <3>1. from[j] = {} /\ tries[j] # 0
        BY <2>2 DEF AnswerPlain, LeaveRun, At, SourceInv, SourceOf, FailureInv,
                    FailureOf
    <3>a. WriteBytes(j, tries[j]) \/ from' = from
        BY <2>2, Zenon DEF AnswerPlain
    <3>2. from'[j] # {0} /\ \A k \in Jobs \ {j} : from'[k] = from[k]
        BY <2>0, <3>1, <3>a
    <3>3. \A k \in Jobs \ {j} : header'[k] = header[k]
        BY <2>0, <2>2 DEF AnswerPlain
    <3>4. PICK ok \in BOOLEAN : LeaveRun(j, "forward", ok, TRUE)
        BY <2>2, Zenon DEF AnswerPlain
    <3> QED
        BY <3>2, <3>3, <3>4, LeaveRunFailure
  <2>3. CASE BeginRelay(j)
    <3>1. /\ stream[j] /\ at'[j] = "relay"
          /\ \A k \in Jobs \ {j} : at'[k] = at[k]
        BY <2>3 DEF BeginRelay, At, ExchangeTypeOK
    <3> QED
        BY <2>0, <2>3, <3>1 DEF BeginRelay, FailureInv, FailureOf
  <2>4. CASE RelayLine(j)
    <3>1. at' = at
        BY <2>4 DEF RelayLine, At, ExchangeTypeOK
    <3>2. stream[j] /\ \A k \in Jobs \ {j} : from'[k] = from[k]
        BY <2>0, <2>4 DEF RelayLine, At, FailureInv, FailureOf
    <3> QED
        BY <2>4, <3>1, <3>2 DEF RelayLine, FailureInv, FailureOf
  <2>a. (\E ok, b \in BOOLEAN : LeaveRun(j, "relay", ok, b)) => stream[j]
      BY DEF LeaveRun, At, FailureInv, FailureOf
  <2>b. [from EXCEPT ![j] = @ \cup {tries[j]}] = from' =>
            \A k \in Jobs \ {j} : from'[k] = from[k]
      BY DEF ExchangeTypeOK
  <2>5. CASE RelayCut(j)
      BY <2>a, <2>b, <2>5, LeaveRunFailure DEF RelayCut
  <2>6. CASE RelayEnds(j)
      BY <2>a, <2>b, <2>6, LeaveRunFailure DEF RelayEnds
  <2>7. CASE RelayBreaks(j)
    <3>1. PICK ok, b \in BOOLEAN : LeaveRun(j, "relay", ok, b)
        BY <2>7, Zenon DEF RelayBreaks
    <3>2. \A k \in Jobs \ {j} : from'[k] = from[k] /\ header'[k] = header[k]
        BY <2>0, <2>7 DEF RelayBreaks
    <3> QED
        BY <2>a, <3>1, <3>2, LeaveRunFailure
  <2> QED
      BY <1>6, <2>1, <2>2, <2>3, <2>4, <2>5, <2>6, <2>7 DEF RunStep
<1>7. ASSUME NEW j \in Jobs, ClientLeaves(j) PROVE FailureInv'
    BY <1>7 DEF ClientLeaves, FailureInv, FailureOf
<1>8. ASSUME NEW j \in Jobs, DeleteOlderThan(j) PROVE FailureInv'
    BY <1>8 DEF DeleteOlderThan, FailureInv, FailureOf
<1>9. CASE Crash
    BY <1>9 DEF Crash, FailureInv, FailureOf, ExchangeTypeOK, Live
<1>10. CASE Start
    BY <1>10 DEF Start, FailureInv, FailureOf
<1>11. CASE UNCHANGED exchangeVars
    BY <1>11 DEF exchangeVars, FailureInv, FailureOf
<1> QED
    BY <1>1, <1>2, <1>3, <1>4, <1>5, <1>6, <1>7, <1>8, <1>9, <1>10, <1>11
    DEF ExchangeNext

-----------------------------------------------------------------------------
\* The end of a Run keeps WholeInv when a success has read the whole answer,
\* or the stream is translated.
LEMMA LeaveRunWhole ==
    ASSUME ExchangeTypeOK, RowInv, WholeInv, NEW j \in Jobs,
           NEW here \in {"forward", "relay"}, NEW ok \in BOOLEAN,
           NEW started \in BOOLEAN, LeaveRun(j, here, ok, started),
           ok /\ ~Translated(j) => whole'[j],
           whole'[j] = whole[j] \/ whole'[j],
           \A k \in Jobs \ {j} : whole'[k] = whole[k]
    PROVE  WholeInv'
<1> SUFFICES ASSUME NEW k \in Jobs PROVE WholeOf(k)'
    BY DEF WholeInv
<1>1. CASE k = j
  <2>1. row[j] # "completed"
      BY LeaveRunFields DEF RowInv, RowOf, Live, Terminal
  <2> QED
      BY <1>1, <2>1, LeaveRunFields DEF WholeOf, Translated
<1>2. CASE k # j
    BY <1>2, LeaveRunFields DEF WholeOf, WholeInv, Translated
<1> QED
    BY <1>1, <1>2

LEMMA WholeStep ==
    ASSUME ExchangeTypeOK, RowInv, WholeInv, [ExchangeNext]_exchangeVars
    PROVE  WholeInv'
<1> USE DEF submissionVars, handlerVars, storeVars
<1>1. ASSUME NEW j \in Jobs, Reject(j) PROVE WholeInv'
    BY <1>1 DEF Reject, At, WholeInv, WholeOf, Translated, ExchangeTypeOK
<1>2. ASSUME NEW j \in Jobs, ReceiveRequest(j) PROVE WholeInv'
  <2> SUFFICES ASSUME NEW k \in Jobs PROVE WholeOf(k)'
      BY DEF WholeInv
  <2>1. /\ at[j] = "idle" /\ at'[j] = "submit" /\ phase'[j] = "open"
        /\ k # j => at'[k] = at[k] /\ phase'[k] = phase[k] /\ answer'[k] = answer[k]
      BY <1>2 DEF ReceiveRequest, At, Accept, ExchangeTypeOK
  <2>2. /\ row'[j] \in {row[j], "pending"}
        /\ k # j => row'[k] = row[k]
      BY <1>2, PersistRow DEF ReceiveRequest
  <2> QED
      BY <1>2, <2>1, <2>2 DEF ReceiveRequest, WholeInv, WholeOf, Translated
<1>3. ASSUME NEW j \in Jobs, Finish(j) PROVE WholeInv'
  <2> SUFFICES ASSUME NEW k \in Jobs PROVE WholeOf(k)'
      BY DEF WholeInv
  <2>1. /\ at[j] = "finish" /\ at'[j] = "done"
        /\ k # j => at'[k] = at[k]
      BY <1>3 DEF Finish, At, ExchangeTypeOK
  <2>2. /\ row'[j] = "completed" => row[j] = "completed" \/ answer[j].ok
        /\ k # j => row'[k] = row[k]
    <3>1. CASE answer[j].ok
        BY <1>3, <3>1, PersistRow DEF Finish
    <3>2. CASE ~answer[j].ok
        BY <1>3, <3>2, PersistRow DEF Finish
    <3> QED
        BY <3>1, <3>2
  <2> QED
      BY <1>3, <2>1, <2>2 DEF Finish, WholeInv, WholeOf, Translated
<1>4. ASSUME NEW j \in Jobs, NEW f \in Formats, CallRun(j, f)
      PROVE  WholeInv'
  <2> SUFFICES ASSUME NEW k \in Jobs PROVE WholeOf(k)'
      BY DEF WholeInv
  <2>1. /\ at[j] = "submit" /\ at'[j] = "forward" /\ phase'[j] = "running"
        /\ k # j => /\ at'[k] = at[k] /\ phase'[k] = phase[k]
                    /\ backend'[k] = backend[k] /\ whole'[k] = whole[k]
      BY <1>4 DEF CallRun, At, StartRun, ExchangeTypeOK
  <2>2. /\ row'[j] \in {row[j], "running"}
        /\ k # j => row'[k] = row[k]
      BY <1>4, PersistRow DEF CallRun
  <2>3. row[j] # "completed"
      BY <2>1 DEF RowInv, RowOf, Live, Terminal
  <2>4. answer' = answer /\ stream' = stream /\ client' = client
      BY <1>4 DEF CallRun, StartRun
  <2> QED
      BY <2>1, <2>2, <2>3, <2>4 DEF WholeInv, WholeOf, Translated
<1>5. ASSUME NEW j \in Jobs, NEW ok \in BOOLEAN, SubmitReturns(j, ok)
      PROVE  WholeInv'
  <2> SUFFICES ASSUME NEW k \in Jobs PROVE WholeOf(k)'
      BY DEF WholeInv
  <2>1. /\ at[j] = "submit" /\ at'[j] = "finish" /\ phase'[j] = "ended"
        /\ answer'[j].ok => phase[j] = "served"
        /\ k # j => at'[k] = at[k] /\ phase'[k] = phase[k] /\ answer'[k] = answer[k]
      BY <1>5 DEF SubmitReturns, At, ReturnFrom, ExchangeTypeOK
  <2> QED
      BY <1>5, <2>1 DEF SubmitReturns, WholeInv, WholeOf, Translated
<1>6. ASSUME NEW j \in Jobs, RunStep(j) PROVE WholeInv'
  <2>0. whole' = [whole EXCEPT ![j] = TRUE] =>
            whole'[j] /\ \A k \in Jobs \ {j} : whole'[k] = whole[k]
      BY DEF ExchangeTypeOK
  <2>1. CASE ForwardFails(j)
      BY <2>1, LeaveRunWhole DEF ForwardFails
  <2>2. CASE AnswerPlain(j)
    <3>1. PICK ok \in BOOLEAN : LeaveRun(j, "forward", ok, TRUE)
        BY <2>2, Zenon DEF AnswerPlain
    <3> QED
        BY <2>0, <2>2, <3>1, LeaveRunWhole DEF AnswerPlain
  <2>3. CASE BeginRelay(j)
    <3>1. at'[j] = "relay" /\ \A k \in Jobs \ {j} : at'[k] = at[k]
        BY <2>3 DEF BeginRelay, At, ExchangeTypeOK
    <3> QED
        BY <2>3, <3>1 DEF BeginRelay, WholeInv, WholeOf, Translated
  <2>4. CASE RelayLine(j)
    <3>1. at' = at
        BY <2>4 DEF RelayLine, At, ExchangeTypeOK
    <3> QED
        BY <2>4, <3>1 DEF RelayLine, WholeInv, WholeOf, Translated
  <2>5. CASE RelayCut(j)
      BY <2>5, LeaveRunWhole DEF RelayCut
  <2>6. CASE RelayEnds(j)
    <3>1. LeaveRun(j, "relay", TRUE, TRUE) /\ whole' = [whole EXCEPT ![j] = TRUE]
        BY <2>6 DEF RelayEnds
    <3> QED
        BY <2>0, <3>1, LeaveRunWhole
  <2>7. CASE RelayBreaks(j)
    <3>1. PICK ok, b \in BOOLEAN :
              LeaveRun(j, "relay", ok, b) /\ (ok => BreakIsHidden(j))
        BY <2>7, Zenon DEF RelayBreaks
    <3>2. whole' = whole
        BY <2>7 DEF RelayBreaks
    <3> QED
        BY <3>1, <3>2, LeaveRunWhole DEF BreakIsHidden
  <2> QED
      BY <1>6, <2>1, <2>2, <2>3, <2>4, <2>5, <2>6, <2>7 DEF RunStep
<1>7. ASSUME NEW j \in Jobs, ClientLeaves(j) PROVE WholeInv'
    BY <1>7 DEF ClientLeaves, WholeInv, WholeOf, Translated
<1>8. ASSUME NEW j \in Jobs, DeleteOlderThan(j) PROVE WholeInv'
    BY <1>8 DEF DeleteOlderThan, WholeInv, WholeOf, Translated, ExchangeTypeOK
<1>9. CASE Crash
    BY <1>9 DEF Crash, WholeInv, WholeOf, Translated, ExchangeTypeOK, Live
<1>10. CASE Start
    BY <1>10 DEF Start, WholeInv, WholeOf, Translated, ExchangeTypeOK
<1>11. CASE UNCHANGED exchangeVars
    BY <1>11 DEF exchangeVars, WholeInv, WholeOf, Translated
<1> QED
    BY <1>1, <1>2, <1>3, <1>4, <1>5, <1>6, <1>7, <1>8, <1>9, <1>10, <1>11
    DEF ExchangeNext

-----------------------------------------------------------------------------
\* The inductive invariant.
ExchangeInv == ExchangeTypeOK /\ SourceInv /\ RowInv /\ FailureInv /\ WholeInv

LEMMA ExchangeInvInit == ExchangeInit => ExchangeInv
<1> SUFFICES ASSUME ExchangeInit PROVE ExchangeInv
    OBVIOUS
<1>1. ExchangeTypeOK
  <2>1. 0 \in 0 .. MaxAttempts
      BY SubmissionAssumption
  <2>2. /\ phase \in [Jobs -> Phases]
        /\ tries \in [Jobs -> 0 .. MaxAttempts]
        /\ at \in [Jobs -> Live \cup {"idle", "done", "dead"}]
        /\ header \in [Jobs -> {"none", "ok", "error"}]
        /\ from \in [Jobs -> SUBSET (0 .. MaxAttempts)]
        /\ row \in [Jobs -> Terminal \cup {"none", "pending", "running"}]
      BY <2>1 DEF ExchangeInit, SubmissionInit, Phases
  <2>3. /\ sent \in [Jobs -> BOOLEAN] /\ gone \in [Jobs -> BOOLEAN]
        /\ whole \in [Jobs -> BOOLEAN] /\ tail \in [Jobs -> BOOLEAN]
        /\ missed \in [Jobs -> BOOLEAN]
      BY DEF ExchangeInit, SubmissionInit
  <2>4. answer \in [Jobs -> [ok : BOOLEAN, started : BOOLEAN]]
      BY DEF ExchangeInit, SubmissionInit, NoAnswer
  <2> QED
      BY <2>2, <2>3, <2>4 DEF ExchangeInit, ExchangeTypeOK
<1>2. SourceInv
    BY DEF ExchangeInit, SourceInv, SourceOf
<1>3. RowInv
    BY DEF ExchangeInit, RowInv, RowOf, Live, Open, Terminal
<1>4. FailureInv
    BY DEF ExchangeInit, FailureInv, FailureOf
<1>5. WholeInv
    BY DEF ExchangeInit, SubmissionInit, WholeInv, WholeOf
<1> QED
    BY <1>1, <1>2, <1>3, <1>4, <1>5 DEF ExchangeInv

\* The invariant holds always.
LEMMA ExchangeInvAlways == ExchangeSpec => []ExchangeInv
<1>1. ExchangeInv /\ [ExchangeNext]_exchangeVars => ExchangeInv'
    BY ExchangeTypeStep, SourceStep, RowStep, FailureStep, WholeStep DEF ExchangeInv
<1> QED
    BY <1>1, ExchangeInvInit, PTL DEF ExchangeSpec

\* For every number of requests and attempts: no client ever receives bytes of
\* two attempts, or the body of writeError beside bytes of an attempt
\* (ResponseStarted of runStream and of the translating relays covers every
\* byte they have written).
THEOREM OneAnswerPerClient == ExchangeSpec => []OneSource
<1>1. ExchangeInv => OneSource
    BY DEF ExchangeInv, SourceInv, SourceOf, OneSource
<1> QED
    BY <1>1, ExchangeInvAlways, PTL

\* The history never shows an open request that nobody works on, unless the
\* database has refused a write: persistRecord and CancelStale together close
\* every row across crashes and restarts.
THEOREM HistoryHasNoPhantoms == ExchangeSpec => []NoPhantomRows
<1>1. ExchangeInv => NoPhantomRows
    BY DEF ExchangeInv, RowInv, RowOf, NoPhantomRows, Open
<1> QED
    BY <1>1, ExchangeInvAlways, PTL

\* A row that says running is in an attempt, or its response has begun.
THEOREM RunningRowsAreRunning == ExchangeSpec => []RunningRowIsRunning
<1>1. ExchangeInv => RunningRowIsRunning
    BY DEF ExchangeInv, RowInv, RowOf, RunningRowIsRunning, Open
<1> QED
    BY <1>1, ExchangeInvAlways, PTL

\* No step, a restart included, changes a closed row other than by deleting it.
THEOREM ClosedRowsStayClosed == ExchangeSpec => TerminalIsFinal
<1> DEFINE Kept == \A j \in Jobs : row[j] \in Terminal => row'[j] \in {row[j], "none"}
<1>1. ASSUME ExchangeInv, [ExchangeNext]_exchangeVars
      PROVE  Kept \/ UNCHANGED exchangeVars
  <2> SUFFICES ASSUME NEW k \in Jobs, row[k] \in Terminal,
                      ~UNCHANGED exchangeVars
               PROVE  row'[k] \in {row[k], "none"}
      OBVIOUS
  <2>0. at[k] \notin Live \cup {"idle"} /\ ExchangeTypeOK
      BY <1>1 DEF ExchangeInv, RowInv, RowOf, Terminal
  <2>1. ASSUME NEW j \in Jobs, NEW status, Persist(j, status), at[j] \in Live \cup {"idle"}
        PROVE  row'[k] = row[k]
      BY <2>0, <2>1, PersistRow
  <2>2. ASSUME NEW j \in Jobs, NEW here \in {"forward", "relay"}, NEW ok, NEW b,
               LeaveRun(j, here, ok, b)
        PROVE  row'[k] = row[k]
      BY <2>1, <2>2 DEF LeaveRun, PersistAttempt, At, Live, storeVars
  <2>3. ASSUME NEW j \in Jobs, RunStep(j)
        PROVE  row'[k] = row[k]
      BY <2>2, <2>3
      DEF RunStep, ForwardFails, AnswerPlain, BeginRelay, RelayLine, RelayCut,
          RelayEnds, RelayBreaks, storeVars
  <2>4. CASE Start
      BY <2>4 DEF Start, Stale, Terminal
  <2> QED
      BY <1>1, <2>0, <2>1, <2>3, <2>4
      DEF ExchangeNext, Reject, ReceiveRequest, Finish, CallRun, SubmitReturns,
          ClientLeaves, DeleteOlderThan, Crash, At, Live, storeVars,
          ExchangeTypeOK
<1> QED
    BY <1>1, ExchangeInvAlways, PTL DEF ExchangeSpec, TerminalIsFinal

\* Every variable of the exchange keeps its type.
THEOREM ExchangeTyped == ExchangeSpec => []ExchangeTypeOK
<1>1. ExchangeInv => ExchangeTypeOK
    BY DEF ExchangeInv
<1> QED
    BY <1>1, ExchangeInvAlways, PTL

\* A client that did not ask for a stream and was sent only the error body
\* was sent an error status before it: no attempt that failed has written a
\* status line.
THEOREM PlainErrorsAreSeen == ExchangeSpec => []ErrorIsSeen
<1>1. ExchangeInv => ErrorIsSeen
    BY DEF ExchangeInv, FailureInv, FailureOf, ErrorIsSeen
<1> QED
    BY <1>1, ExchangeInvAlways, PTL

\* INV-4 for every number of requests: where no stream is translated, the
\* history says completed only of an answer that the proxy has read to its
\* proper end (what a client that has left received of it is another matter).
THEOREM CompletedIsWhole == ExchangeSpec => []UntranslatedIsWhole
<1>1. ExchangeInv => UntranslatedIsWhole
    BY DEF ExchangeInv, WholeInv, WholeOf, UntranslatedIsWhole
<1> QED
    BY <1>1, ExchangeInvAlways, PTL

=============================================================================
