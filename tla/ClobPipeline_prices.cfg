SPECIFICATION Spec
INVARIANTS NeverAWrongBook SettledBooksAgree
CHECK_DEADLOCK FALSE
CONSTANTS
    tf5 = tf5  tf15 = tf15
    NoContext = NoContext  NoBook = NoBook  Empty = Empty  Wrong = Wrong
    Timeframes = {tf5}
    TimeframeOf <- MCOneTimeframe
    Markets = {1}
    Outcomes = {"up"}
    Streams = {}
    FreshIds = FALSE
    ArrayReplies = TRUE
    MaxSessions = 3
    MaxVersion = 3
    MaxLine = 3
    MaxInbox = 2
