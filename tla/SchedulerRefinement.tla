------------------------ MODULE SchedulerRefinement -------------------------
(***************************************************************************)
(* The scheduler implements Submission.                                    *)
(***************************************************************************)
EXTENDS Scheduler

\* A worker is in the Run of j.
Running(j) == \E s \in Servers : hand[s] = j /\ wpc[s] = "run"

\* The last Run of j succeeded and Submit has not seen the result yet.
Served(j) ==
    \/ done[j].kind = "ok"
    \/ \E s \in Servers : hand[s] = j /\ wres[s] = "ok"

Phase(j) ==
    CASE pc[j] \in {"idle", "ended"} -> pc[j]
      [] Running(j)                  -> "running"
      [] Served(j)                   -> "served"
      [] OTHER                       -> "open"

Answer(j) == [ok |-> ret[j].kind = "ok",
              started |-> pc[j] = "ended" /\ ret[j].started]

Promise ==
    INSTANCE Submission WITH
        phase  <- [j \in Jobs |-> Phase(j)],
        tries  <- runs,
        sent   <- bytes,
        answer <- [j \in Jobs |-> Answer(j)]

\* Submit and the workers, with queues, failover, crashes and cancellations,
\* keep the promise of Submission to the HTTP handlers: one Run at a time, at
\* most MaxAttempts of them, none after the first byte, no return during a
\* Run, and a returned result that is true of the client's connection.
ImplementsSubmission == Promise!SubmissionSpec

=============================================================================
