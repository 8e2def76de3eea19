CONSTANTS
    t1 = t1
    t2 = t2
    t3 = t3
    Threads = {t1, t2, t3}
    Keys = {1, 2, 3}
    MaxCalls = 1
SPECIFICATION FairSpec
INVARIANT NeverBelowRoot
PROPERTY ReturnsOrStuck
CHECK_DEADLOCK FALSE
