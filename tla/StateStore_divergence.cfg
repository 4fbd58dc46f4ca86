SPECIFICATION Spec
INVARIANT FullBookAfterDivergence
CONSTANTS
    tf5 = tf5  tf15 = tf15  m1 = m1  m2 = m2  up = up  down = down
    s1 = s1  s2 = s2
    NoMarket = NoMarket  NoContext = NoContext  NoBook = NoBook
    NoSession = NoSession  Empty = Empty  Wrong = Wrong
    Markets = {m1, m2}
    Versions = {1, 2}
    Timeframes = {tf5}
    TimeframeOf <- MCOneTimeframe
    Outcomes = {up}
    Sessions = {s1}
    Streams = {}
