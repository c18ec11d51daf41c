----------------------------- MODULE Discovery ------------------------------
(***************************************************************************)
(* The poller of the backends (internal/core/discovery.go).  pollAll polls  *)
(* every server in its own goroutine and waits for all of them; pollOne     *)
(* writes Healthy, Notify and Models of its server in that order, with the  *)
(* scheduler running between any two of these writes.                       *)
(*                                                                         *)
(* probeLoadedModels only feeds the TUI and is left out.                    *)
(***************************************************************************)
EXTENDS ServerInfo

CONSTANTS
    ExplicitModels,  \* models of the configuration, {} where discovery decides
    UnhealthyAfter   \* discovery.unhealthy_after_failed_polls

ASSUME ExplicitModelsAssumption == ExplicitModels \in [Servers -> SUBSET Models]
ASSUME UnhealthyAfterAssumption == UnhealthyAfter \in Nat \ {0}

VARIABLES
    ppc,           \* where pollOne of a server is
    offered,       \* the list the poll returned
    wasUnhealthy,  \* the local of the explicit-models branch
    failedPolls,   \* failures in a row, kept up to UnhealthyAfter
    sweep          \* servers this pollAll has not polled yet

discoveryVars == <<ppc, offered, wasUnhealthy, failedPolls, sweep>>

Explicit(s) == ExplicitModels[s] # {}

\* AddServer and InitialHealthcheck, which end before the workers start: a
\* server with configured models is healthy unpolled, another one is healthy
\* with what it reported, or unhealthy with nothing.
DiscoveryInit ==
    /\ \A s \in Servers :
         IF Explicit(s) THEN healthy[s] /\ models[s] = ExplicitModels[s]
                        ELSE ~healthy[s] => models[s] = {}
    /\ ppc = [s \in Servers |-> "idle"]
    /\ offered = [s \in Servers |-> {}]
    /\ wasUnhealthy = [s \in Servers |-> FALSE]
    /\ failedPolls = [s \in Servers |-> 0]
    /\ sweep = {}

PollGoto(s, state) == ppc' = [ppc EXCEPT ![s] = state]

\* What discovery never writes.
LeavesServer == UNCHANGED <<inFlight, currentModel, queue, lastDispatched,
                            consecutive>>

\* The ticker fires and the last sweep is over.
PollAll ==
    /\ sweep = {}
    /\ \A s \in Servers : ppc[s] = "idle"
    /\ sweep' = Servers
    /\ LeavesServer
    /\ UNCHANGED <<healthy, models, notify, ppc, offered, wasUnhealthy,
                   failedPolls>>

\* The first step of pollOne, once per sweep.
Polled(s) ==
    /\ s \in sweep
    /\ sweep' = sweep \ {s}
    /\ LeavesServer

\* Where a successful poll continues once Healthy is settled.
AfterHealth(s) == IF Explicit(s) THEN "idle" ELSE "models"

\* ListModels answers with the list M.
PollSucceeds(s, M) ==
    /\ Polled(s)
    /\ failedPolls' = [failedPolls EXCEPT ![s] = 0]
    /\ offered' = [offered EXCEPT ![s] = IF Explicit(s) THEN {} ELSE M]
    /\ healthy' = [healthy EXCEPT ![s] = TRUE]
    /\ PollGoto(s, IF healthy[s] THEN AfterHealth(s) ELSE "revived")
    /\ UNCHANGED <<models, notify, wasUnhealthy>>

\* Mutant of PollWakes: a server comes back and its worker is not told.
PollForgetsWake(s) ==
    /\ ppc[s] = "revived"
    /\ PollGoto(s, AfterHealth(s))
    /\ LeavesServer
    /\ UNCHANGED <<healthy, models, notify, offered, wasUnhealthy, failedPolls,
                   sweep>>

\* The worker of a server that came back is woken.
PollWakes(s) ==
    /\ ppc[s] = "revived"
    /\ Wake(s)
    /\ PollGoto(s, AfterHealth(s))
    /\ LeavesServer
    /\ UNCHANGED <<healthy, models, offered, wasUnhealthy, failedPolls, sweep>>

\* The list is stored last.
PollStores(s) ==
    /\ ppc[s] = "models"
    /\ models' = [models EXCEPT ![s] = offered[s]]
    /\ offered' = [offered EXCEPT ![s] = {}]
    /\ PollGoto(s, "idle")
    /\ LeavesServer
    /\ UNCHANGED <<healthy, notify, wasUnhealthy, failedPolls, sweep>>

\* ListModels fails (for a server without configured models also when the
\* answer has the wrong shape).  The queue of the server is left as it is.
PollFails(s) ==
    /\ Polled(s)
    /\ LET n == IF failedPolls[s] < UnhealthyAfter THEN failedPolls[s] + 1
                                                   ELSE failedPolls[s]
       IN  /\ failedPolls' = [failedPolls EXCEPT ![s] = n]
           /\ healthy' = [healthy EXCEPT ![s] = @ /\ n < UnhealthyAfter]
    /\ UNCHANGED <<models, notify, ppc, offered, wasUnhealthy>>

\* A server with configured models answers in another shape: it is alive.
\* Healthy is read, then stored, then the worker is woken if it was FALSE.
PollShape(s) ==
    /\ Explicit(s)
    /\ Polled(s)
    /\ failedPolls' = [failedPolls EXCEPT ![s] = 0]
    /\ wasUnhealthy' = [wasUnhealthy EXCEPT ![s] = ~healthy[s]]
    /\ PollGoto(s, "shape")
    /\ UNCHANGED <<healthy, models, notify, offered>>

PollShapeStores(s) ==
    /\ ppc[s] = "shape"
    /\ healthy' = [healthy EXCEPT ![s] = TRUE]
    /\ wasUnhealthy' = [wasUnhealthy EXCEPT ![s] = FALSE]
    /\ PollGoto(s, IF wasUnhealthy[s] THEN "revived" ELSE "idle")
    /\ LeavesServer
    /\ UNCHANGED <<models, notify, offered, failedPolls, sweep>>

PollStep(s) ==
    \/ \E M \in SUBSET Models : PollSucceeds(s, M)
    \/ PollFails(s) \/ PollShape(s)
    \/ PollWakes(s) \/ PollStores(s) \/ PollShapeStores(s)

=============================================================================
