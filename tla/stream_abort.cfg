CONSTANTS
    Jobs = {j1}
    MaxAttempts = 2
    Formats = {"openai", "anthropic"}
    Faults = {}
SPECIFICATION ExchangeSpec
INVARIANTS AbortIsTold
CHECK_DEADLOCK FALSE
