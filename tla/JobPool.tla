------------------------------ MODULE JobPool -------------------------------
(***************************************************************************)
(* The shared FIFO pool of the pull strategies (internal/core/pool.go).     *)
(* A Pop operator gives the position of the job a worker takes, as a set   *)
(* that is empty when the code returns nil.  The pool is changed by the    *)
(* actions of Scheduler under the pool's mutex, so every operation below   *)
(* is one atomic step.                                                     *)
(***************************************************************************)
EXTENDS Router

CONSTANT MaxConsecutive    \* scheduler.max_consecutive_per_model, 0 is off

ASSUME MaxConsecutiveAssumption == MaxConsecutive \in Nat

VARIABLES
    pool,       \* the jobs in the pool, oldest first
    jobModel,   \* Job.Model
    visited     \* Job.visited: servers the next attempt must not use
                \* (the push strategies keep their lastFailed here)

poolVars == <<pool, jobModel, visited>>

\* Positions of the jobs server s has not just failed on.
Unvisited(s) == {i \in DOMAIN pool : s \notin visited[pool[i]]}

\* Jobs for the model s has loaded, and jobs for any model s offers.
OfCurrent(s) == {i \in Unvisited(s) : jobModel[pool[i]] = currentModel[s]}
Allowed(s)   == {i \in Unvisited(s) : hasModel(s, jobModel[pool[i]])}

\* Drain the loaded model first, then the oldest compatible job.
PopFor(s) ==
    IF ~healthy[s] THEN {}
    ELSE First(IF OfCurrent(s) # {} THEN OfCurrent(s) ELSE Allowed(s))

\* Mutant of PopForFairShare: the series is never broken.
PopForSameModel(s) == PopFor(s)

\* The same, but a series of MaxConsecutive dispatches of one model is
\* broken by the oldest compatible job for another one.
PopForFairShare(s) ==
    LET forceSwitch == /\ MaxConsecutive > 0
                       /\ lastDispatched[s] # NoModel
                       /\ consecutive[s] >= MaxConsecutive
                       /\ currentModel[s] # NoModel
        others == Allowed(s) \ OfCurrent(s)
    IN  IF healthy[s] /\ forceSwitch /\ others # {} THEN First(others)
        ELSE PopFor(s)

\* Some other healthy server has the model of s loaded.
OtherHasCurrent(s) ==
    \E t \in Servers \ {s} : healthy[t] /\ currentModel[t] = currentModel[s]

\* Mutant of PopForCoverage: a model no other server holds is never unloaded.
PopForCoverageAlways(s) ==
    IF ~healthy[s] THEN {}
    ELSE First(IF currentModel[s] = NoModel \/ OtherHasCurrent(s)
               THEN Allowed(s) ELSE OfCurrent(s))

\* The head unless that would unload a model no other server holds.
PopForCoverage(s) ==
    LET head == First(Allowed(s))
        safe == \/ currentModel[s] = NoModel
                \/ \E i \in head : jobModel[pool[i]] = currentModel[s]
                \/ OtherHasCurrent(s)
    IN  IF ~healthy[s] THEN {}
        ELSE IF head = {} \/ safe \/ OfCurrent(s) = {} THEN head
        ELSE First(OfCurrent(s))

\* What the worker of s takes next under the configured pull strategy.
PopPool(s) ==
    CASE Strategy = "preserve_model_coverage" -> PopForCoverage(s)
      [] Strategy = "fair_share_round_robin"  -> PopForFairShare(s)
      [] OTHER                                -> PopFor(s)

\* Mutant of pickIdleByPriority: the server that just failed is not excluded.
pickIdleIgnoringVisited(m, exclude) ==
    LET idle == {s \in candidates(m, {}) : ~inFlight[s]}
    IN  First({s \in idle : \A t \in idle : Priority[s] <= Priority[t]})

\* The idle healthy compatible server of the best priority, or none.
pickIdleByPriority(m, exclude) ==
    LET idle == {s \in candidates(m, exclude) : ~inFlight[s]}
    IN  First({s \in idle : \A t \in idle : Priority[s] <= Priority[t]})

anyHealthyCompatible(m, exclude) == candidates(m, exclude) # {}

=============================================================================
