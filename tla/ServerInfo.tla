----------------------------- MODULE ServerInfo -----------------------------
(***************************************************************************)
(* The shared record of one backend server (internal/core/models.go).      *)
(* Submitters, the worker of the server and discovery all read and write   *)
(* it: Healthy, InFlight and CurrentModel are atomics, Models, Queue and    *)
(* the series counter are protected by the server's mutex, and Notify is a  *)
(* channel of capacity one.                                                 *)
(*                                                                         *)
(* A server is its position in the configured list, because every scan of  *)
(* the code walks that list in order and its sorts are stable.             *)
(***************************************************************************)
EXTENDS Integers, FiniteSets, SequencesExt

CONSTANTS
    NumServers,   \* length of the configured backend list
    Priority,     \* Priority[s]: the configured priority, smaller first
    Models,       \* model names the clients ask for
    NoModel,      \* the empty CurrentModel / LastDispatchedModel
    Jobs          \* client slots: each has at most one request at a time

Servers == 1 .. NumServers

ASSUME NumServersAssumption == NumServers \in Nat \ {0}
ASSUME PriorityAssumption == Priority \in [Servers -> Nat]
ASSUME NoModelAssumption == NoModel \notin Models

VARIABLES
    healthy,         \* Healthy: the server is a routing candidate
    inFlight,        \* InFlight: its worker is inside dispatch
    currentModel,    \* CurrentModel: the model the last job loaded
    models,          \* Models: what the backend offers (a set of names)
    queue,           \* Queue: FIFO of the push strategies
    notify,          \* Notify holds its token
    lastDispatched,  \* LastDispatchedModel
    consecutive      \* ConsecutiveModelCount

serverVars == <<healthy, inFlight, currentModel, models, queue, notify,
                lastDispatched, consecutive>>

\* The send on a channel of capacity one with an empty default branch: the
\* token is there afterwards, whether it was before or not.
Wake(s) == notify' = [notify EXCEPT ![s] = TRUE]

hasModel(s, m) == m \in models[s]

\* The first of a set of positions, as a set of at most one element: the
\* result of a scan that stops at its first match.
First(I) == {i \in I : \A k \in I : i <= k}

\* Mutant of Positions: a scan that looks at the head only.
HeadPosition(q, e) == {i \in DOMAIN q : i = 1 /\ q[i] = e}

\* Where the element e stands in the sequence q.
Positions(q, e) == {i \in DOMAIN q : q[i] = e}

=============================================================================
