CONSTANTS
    NumServers = 2
    Priority <- MCPriority
    Models = {m1}
    NoModel = NoModel
    Jobs = {j1}
    NoJob = NoJob
    Strategy = "model_affinity_least_busy"
    RRPeriod = 2
    MaxConsecutive = 0
    MaxAttempts = 2
    Outcomes = {"ok", "conn"}
    Events = {}
    ExplicitModels <- FirstExplicit
    UnhealthyAfter = 1
SPECIFICATION MCDaemonFairSpec
INVARIANTS RecoveryWakes
PROPERTIES ServedWhenAllHealthy
CHECK_DEADLOCK FALSE
