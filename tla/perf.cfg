CONSTANTS
    Servers = {s1, s2}
    Models = {m1}
    WindowCap = 2
    MinSamples = 2
    QueueCap = 1
    MaxRecords = 4
    MaxFaults = 1
    MaxStarts = 2
SPECIFICATION PerfSpec
INVARIANTS RowsInOrder WindowCoversTable NewestKept
PROPERTIES EventuallySettled
CHECK_DEADLOCK FALSE
