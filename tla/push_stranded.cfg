CONSTANTS
    NumServers = 2
    Priority <- MCPriority
    Models = {m1}
    NoModel = NoModel
    Jobs = {j1, j2}
    NoJob = NoJob
    Strategy = "model_affinity_least_busy"
    RRPeriod = 2
    MaxConsecutive = 0
    MaxAttempts = 2
    Outcomes = {"ok", "fail", "conn"}
    Events = {}
SPECIFICATION MCFairSpec
PROPERTIES HealthyServerSuffices
CHECK_DEADLOCK FALSE
