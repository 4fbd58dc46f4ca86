SPECIFICATION FairSpec
INVARIANTS TypeOK LogIsPrefix RowsArePrefix CleanShutdown
PROPERTY ShutdownEnds
CHECK_DEADLOCK FALSE
CONSTANTS
    clob = clob
    Sources = {clob}
    StateCap = 1
    StorageCap = 1
    MarketCap = 1
    SnapshotCap = 1
    BatchSize = 2
    MaxEvents = 2
    MaxWindows = 1
