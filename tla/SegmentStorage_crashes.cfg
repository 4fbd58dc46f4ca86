SPECIFICATION FairSpec
INVARIANTS TypeOK NothingFlushedIsLost RecoveryIsComplete ReplayIsExact
PROPERTIES CompletedForGood StartConverges
CHECK_DEADLOCK FALSE
CONSTANTS
    Absent = Absent  NoSegment = NoSegment  NoJob = NoJob  NoStream = NoStream
    Snapshots = "snapshots"
    StreamSets = {{"trades", "books"}, {"trades"}, {"snapshots"}}
    MaxSegments = 2
    MaxSequence = 3
    MaxCrashes = 4
