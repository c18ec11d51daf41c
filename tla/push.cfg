CONSTANTS
    NumServers = 2
    Priority <- MCPriority
    Models = {m1}
    NoModel = NoModel
    Jobs = {j1, j2}
    NoJob = NoJob
    Strategy = "round_robin"
    RRPeriod = 2
    MaxConsecutive = 0
    MaxAttempts = 2
    Outcomes = {"ok", "conn", "cut"}
    Events = {"cancel", "stop"}
SPECIFICATION MCFairSpec
INVARIANTS TypeOK OnePlace NoLostWakeup
PROPERTIES NoRunAfterBytes ImplementsSubmission EndsOrOnDeadServer
CHECK_DEADLOCK FALSE
