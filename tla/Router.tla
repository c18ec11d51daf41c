------------------------------- MODULE Router -------------------------------
(***************************************************************************)
(* The choice of a server by the push strategies (internal/core/router.go).*)
(* Every operator that returns "the best server" returns the set of the    *)
(* best servers, which has one element when there is a candidate.          *)
(***************************************************************************)
EXTENDS ServerInfo

CONSTANTS
    Strategy,     \* routing.strategy of the configuration
    RRPeriod      \* rrIdx is kept modulo RRPeriod, see rrIdx

PushStrategies ==
    {"model_affinity_least_busy", "round_robin", "least_busy"}

PullStrategies ==
    {"deferred_model_then_capable", "preserve_model_coverage",
     "fair_share_round_robin"}

ASSUME StrategyAssumption == Strategy \in PushStrategies \cup PullStrategies

\* The counter is only used modulo the number of candidates, so it may be
\* kept modulo any common multiple of 1 .. NumServers.
ASSUME RRPeriodAssumption ==
    /\ RRPeriod \in Nat \ {0}
    /\ \A n \in Servers : RRPeriod % n = 0

VARIABLE rrIdx    \* how many round-robin picks were made (modulo RRPeriod)

\* Healthy servers outside exclude that offer the model.
candidates(m, exclude) ==
    {s \in Servers \ exclude : healthy[s] /\ hasModel(s, m)}

Load(s) == Len(queue[s]) + (IF inFlight[s] THEN 1 ELSE 0)

\* The order of the stable sort: load, then priority, then list position.
LessBusy(s, t) ==
    \/ Load(s) < Load(t)
    \/ Load(s) = Load(t) /\ Priority[s] < Priority[t]
    \/ Load(s) = Load(t) /\ Priority[s] = Priority[t] /\ s <= t

pickLeastBusy(cand) == {s \in cand : \A t \in cand : LessBusy(s, t)}

pickModelAffinityLeastBusy(m, cand) ==
    LET preferred == {s \in cand : currentModel[s] = m}
    IN  pickLeastBusy(IF preferred # {} THEN preferred ELSE cand)

\* Mutant of pickRoundRobin: the counter modulo the configured servers, not
\* modulo the candidates.
pickRoundRobinOfAll(cand) ==
    {s \in cand : Cardinality({t \in cand : t < s}) = rrIdx % NumServers}

pickRoundRobin(cand) ==
    {s \in cand :
        Cardinality({t \in cand : t < s}) = rrIdx % Cardinality(cand)}

\* Pick: the server for a non-empty set of candidates, and what the choice
\* does to the round-robin counter.
Pick(m, cand) ==
    CASE Strategy = "round_robin" -> pickRoundRobin(cand)
      [] Strategy = "least_busy"  -> pickLeastBusy(cand)
      [] OTHER                    -> pickModelAffinityLeastBusy(m, cand)

CountPick ==
    rrIdx' = IF Strategy = "round_robin" THEN (rrIdx + 1) % RRPeriod
                                         ELSE rrIdx

=============================================================================
