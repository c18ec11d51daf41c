---------------------------- MODULE MCScheduler -----------------------------
(***************************************************************************)
(* Instances of Scheduler for TLC.                                         *)
(***************************************************************************)
EXTENDS SchedulerRefinement

\* Jobs are interchangeable: a request's model is chosen when it is submitted.
JobSymmetry == Permutations(Jobs)

\* Two servers of different priority.
MCPriority == [s \in Servers |-> NumServers - s]

\* Every server offers every model and starts healthy.
MCInit ==
    /\ Init
    /\ models = [s \in Servers |-> Models]
    /\ healthy = [s \in Servers |-> TRUE]

MCSpec == MCInit /\ [][Next]_vars

MCFairSpec == MCSpec /\ Fairness

=============================================================================
