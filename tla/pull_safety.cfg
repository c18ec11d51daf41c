CONSTANTS
    NumServers = 2
    Priority <- MCPriority
    Models = {m1}
    NoModel = NoModel
    Jobs = {j1, j2}
    NoJob = NoJob
    Strategy = "deferred_model_then_capable"
    RRPeriod = 2
    MaxConsecutive = 0
    MaxAttempts = 2
    Outcomes = {"ok", "fail", "conn", "cut", "ctx"}
    Events = {"cancel"}
SPECIFICATION MCSpec
INVARIANTS AttemptsBounded
PROPERTIES ImplementsSubmission
SYMMETRY JobSymmetry
CHECK_DEADLOCK FALSE
