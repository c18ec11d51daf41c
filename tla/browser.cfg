CONSTANTS
    Backends <- MCBackends
    Fleets <- MCFleets
    Sizes <- MCSizes
    Snapshots <- MCSnapshots
    NumRequests = 3
    Matching = {1, 3}
    TTL = 2
    StartTime = 2
    EndTime = 3
SPECIFICATION BrowserSpec
PROPERTIES ClickShowsDrawn EnterShowsHighlighted CursorStaysOnScreen CursorReturns
CHECK_DEADLOCK FALSE
