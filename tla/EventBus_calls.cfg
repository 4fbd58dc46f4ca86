\* Three publishers, the smallest queues in which one can be full while the
\* other is not, and enough calls for a line, a cancellation and a time-out.
CONSTANTS
    p1 = p1
    p2 = p2
    p3 = p3
    Publishers <- MCPublishers
    NoOne = NoOne
    StateCap = 1
    StorageCap = 2
    MarketCap = 1
    PutTimeout = 1
    MaxCalls = 4
SPECIFICATION FairSpec
CHECK_DEADLOCK FALSE
INVARIANTS
    TypeOK
    FanOut
    ArrivalOrder
    AllOrNothing
PROPERTIES
    EveryCallReturns
    IsOneLog
