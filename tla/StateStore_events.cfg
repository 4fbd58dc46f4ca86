\* A market of each timeframe, with one asset, and two versions of its book.
SPECIFICATION Spec
INVARIANTS TypeOK SessionIsolation OnlyReferencedBooks
PROPERTIES ResolvedForGood EarlyBooksKept
SYMMETRY Symmetry
CHECK_DEADLOCK FALSE
CONSTANTS
    tf5 = tf5  tf15 = tf15  m1 = m1  m2 = m2  up = up  down = down
    s1 = s1  s2 = s2
    NoMarket = NoMarket  NoContext = NoContext  NoBook = NoBook
    NoSession = NoSession  Empty = Empty  Wrong = Wrong
    Markets = {m1, m2}
    Versions = {1, 2}
    Timeframes = {tf5, tf15}
    TimeframeOf <- MCTwoTimeframes
    Outcomes = {up}
    Sessions = {s1, s2}
    Streams = {"depth"}
