CONSTANTS
    Conns = {c1, c2}
    Windows = {"24h", "7d"}
    DefaultWindow = "24h"
    OutCap = 2
    MaxFaults = 1
    MaxGen = 3
SPECIFICATION MonitorSpec
INVARIANTS ConsoleTypeOK OneTickerEach DataOfSelectedWindow
PROPERTIES ClosedIsForgotten UsageIsShown Reconnects
CHECK_DEADLOCK FALSE
