CONSTANTS
    Jobs = {j1}
    MaxAttempts = 3
    Formats = {"openai", "anthropic"}
    Faults = {"db", "crash", "gone"}
SPECIFICATION ExchangeSpec
INVARIANTS ExchangeTypeOK OneSource UntranslatedIsWhole NoPhantomRows RunningRowIsRunning 
PROPERTIES TerminalIsFinal
CHECK_DEADLOCK FALSE
