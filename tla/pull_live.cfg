CONSTANTS
    NumServers = 2
    Priority <- MCPriority
    Models = {m1, m2}
    NoModel = NoModel
    Jobs = {j1, j2}
    NoJob = NoJob
    Strategy = "preserve_model_coverage"
    RRPeriod = 2
    MaxConsecutive = 0
    MaxAttempts = 2
    Outcomes = {"ok", "fail"}
    Events = {}
SPECIFICATION MCFairSpec
INVARIANTS PoolAttended
PROPERTIES EveryRequestEnds
CHECK_DEADLOCK FALSE
