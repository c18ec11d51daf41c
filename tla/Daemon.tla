------------------------------- MODULE Daemon -------------------------------
(***************************************************************************)
(* The daemon (cmd/serve.go): the scheduler and discovery run side by side  *)
(* on the same servers.                                                     *)
(***************************************************************************)
EXTENDS Scheduler, Discovery

daemonVars == <<vars, discoveryVars>>

DaemonInit == Init /\ DiscoveryInit

\* A step of the scheduler, of the clients or of the shutdown.
SchedulerStep == Next /\ UNCHANGED discoveryVars

\* A step of discovery; with the daemon's context no new sweep begins.
DiscoveryStep ==
    /\ (~stopped /\ PollAll) \/ \E s \in Servers : PollStep(s)
    /\ UNCHANGED <<rrIdx, poolVars, submitVars, workerVars, stopped>>

DaemonNext == SchedulerStep \/ DiscoveryStep

DaemonSpec == DaemonInit /\ [][DaemonNext]_daemonVars

\* The scheduler's fairness, and polls that have begun go on to their end.
DaemonFairness ==
    /\ \A j \in Jobs :
         WF_daemonVars(SubmitterStep(j) /\ UNCHANGED discoveryVars)
    /\ \A s \in Servers :
         WF_daemonVars(WorkerStep(s) /\ UNCHANGED discoveryVars)
    /\ WF_daemonVars(DiscoveryStep)

-----------------------------------------------------------------------------
(* Properties.                                                             *)

\* Push strategies: a healthy server with a queue has a worker that is awake
\* or will be woken, also when discovery takes the server out and back in
\* (pollOne wakes the worker of a server that recovered so that its pending
\* jobs do not wait for a chance trigger).  Servers with configured models
\* are left out: PollShape reads Healthy before it stores it, and a crash in
\* between is overwritten without a wake.
RecoveryWakes ==
    \A s \in Servers :
        (~Explicit(s) /\ healthy[s] /\ wpc[s] = "sleep" /\ queue[s] # <<>>) =>
            \/ notify[s]
            \/ ppc[s] = "revived"
            \/ \E j \in Jobs : pc[j] = "wake" /\ target[j] = s

\* INV-7 and INV-8, push strategies: once every server is healthy with its
\* models and stays so, every request is answered, the ones that were left on
\* a dead server included; again without the servers PollShape may revive.
ServedWhenAllHealthy ==
    (<>[](\A s \in Servers : healthy[s] /\ models[s] = Models)) =>
        \A j \in Jobs :
            Active(j) ~> \/ pc[j] = "ended"
                         \/ \E s \in Servers :
                              Explicit(s) /\ Contains(queue[s], j)

=============================================================================
