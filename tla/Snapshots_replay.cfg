SPECIFICATION Spec
INVARIANT ReplayAgrees
CHECK_DEADLOCK FALSE
CONSTANTS
    s1 = s1
    Active <- MCTogether
    StateCap = 2
    MaxMessage = 2
    MaxEvents = 4
    MaxTime = 2
    Seconds = {1}
    StaleAfter = 1
    Subscribers = {s1}
    SubscriberCap = 1
