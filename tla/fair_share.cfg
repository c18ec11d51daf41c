CONSTANTS
    NumServers = 1
    Priority <- MCPriority
    Models = {m1, m2}
    NoModel = NoModel
    Jobs = {j1, j2}
    NoJob = NoJob
    Strategy = "fair_share_round_robin"
    RRPeriod = 1
    MaxConsecutive = 2
    MaxAttempts = 1
    Outcomes = {"ok", "conn"}
    Events = {"resubmit","cancel","stop"}
SPECIFICATION MCFairSpec
PROPERTIES NoStarvation CancelledEnds
CHECK_DEADLOCK FALSE
