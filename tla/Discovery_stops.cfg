SPECIFICATION Spec
INVARIANT CancelledWorkersStop
CHECK_DEADLOCK FALSE
CONSTANTS
    tf5 = tf5  tf15 = tf15
    Timeframes <- MCTimeframes
    Duration <- MCDuration
    Short = 4
    Before = 2
    After = 1
    Timeout = 2
    StartupAttempts = 2
    AppendTime = 3
    StartTimes <- MCStartTimes
    MaxTime = 22
