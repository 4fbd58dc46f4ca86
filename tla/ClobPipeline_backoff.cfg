SPECIFICATION Spec
INVARIANT ReadyMeansConnected
CHECK_DEADLOCK FALSE
CONSTANTS
    tf5 = tf5  tf15 = tf15
    NoContext = NoContext  NoBook = NoBook  Empty = Empty  Wrong = Wrong
    Timeframes = {tf5}
    TimeframeOf <- MCOneTimeframe
    Markets = {1}
    Outcomes = {"up"}
    Streams = {}
    FreshIds = TRUE
    ArrayReplies = FALSE
    MaxSessions = 2
    MaxVersion = 1
    MaxLine = 2
    MaxInbox = 2
