---------------------------- MODULE Submission -----------------------------
(***************************************************************************)
(* What Scheduler.Submit promises the HTTP handler that calls it, whatever  *)
(* the routing strategy: Job.Run is called for one attempt at a time, at    *)
(* most MaxAttempts times, and never again once the client has received a   *)
(* byte; Submit returns only between calls, with success only when the last *)
(* call succeeded, and tells whether the client has received anything.      *)
(***************************************************************************)
EXTENDS Naturals

CONSTANTS Jobs, MaxAttempts

ASSUME SubmissionAssumption == MaxAttempts \in Nat \ {0}

VARIABLES
    phase,    \* where the request is
    tries,    \* calls of Run for this request
    sent,     \* the response to the client has begun (ResponseStarted)
    answer    \* what Submit returned

submissionVars == <<phase, tries, sent, answer>>

Phases == {"idle", "open", "running", "served", "ended"}

NoAnswer == [ok |-> FALSE, started |-> FALSE]

SubmissionInit ==
    /\ phase = [j \in Jobs |-> "idle"]
    /\ tries = [j \in Jobs |-> 0]
    /\ sent = [j \in Jobs |-> FALSE]
    /\ answer = [j \in Jobs |-> NoAnswer]

\* The handler calls Submit.
Accept(j) ==
    /\ phase[j] \in {"idle", "ended"}
    /\ phase' = [phase EXCEPT ![j] = "open"]
    /\ sent' = [sent EXCEPT ![j] = FALSE]
    /\ answer' = [answer EXCEPT ![j] = NoAnswer]
    /\ UNCHANGED tries

\* Mutant of StartRun: the attempts are not counted.
StartRunAgain(j) ==
    /\ phase[j] = "open"
    /\ ~sent[j]
    /\ phase' = [phase EXCEPT ![j] = "running"]
    /\ tries' = [tries EXCEPT ![j] = @ + 1]
    /\ UNCHANGED <<sent, answer>>

\* A worker calls Run.
StartRun(j) ==
    /\ phase[j] = "open"
    /\ ~sent[j]
    /\ tries[j] < MaxAttempts
    /\ phase' = [phase EXCEPT ![j] = "running"]
    /\ tries' = [tries EXCEPT ![j] = @ + 1]
    /\ UNCHANGED <<sent, answer>>

\* Run returns: ok after the whole response, and otherwise an error, which is
\* started when it came after the first byte.
EndRun(j, ok, started) ==
    /\ phase[j] = "running"
    /\ ok => started
    /\ phase' = [phase EXCEPT ![j] = IF ok THEN "served" ELSE "open"]
    /\ sent' = [sent EXCEPT ![j] = started]
    /\ UNCHANGED <<tries, answer>>

\* Submit returns; it may report an error for a served request only when the
\* client has left.
ReturnFrom(j, ok) ==
    /\ phase[j] \in {"open", "served"}
    /\ ok => phase[j] = "served"
    /\ answer' = [answer EXCEPT ![j] = [ok |-> ok, started |-> sent[j]]]
    /\ phase' = [phase EXCEPT ![j] = "ended"]
    /\ tries' = [tries EXCEPT ![j] = 0]
    /\ UNCHANGED sent

SubmissionNext ==
    \E j \in Jobs :
        \/ Accept(j) \/ StartRun(j)
        \/ \E ok, started \in BOOLEAN : EndRun(j, ok, started)
        \/ \E ok \in BOOLEAN : ReturnFrom(j, ok)

SubmissionSpec == SubmissionInit /\ [][SubmissionNext]_submissionVars

=============================================================================
