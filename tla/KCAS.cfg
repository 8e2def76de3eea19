CONSTANTS
    t1 = t1
    t2 = t2
    Threads = {t1, t2}
    Addrs = {1, 2}
    Reads = {1, 2}
    Initial <- MCInitial
    Requests <- MCRequests
    Slot <- OwnSlots
    MaxCalls <- MCMaxCalls
    Lone = t1
    Other = t2
SPECIFICATION LoneRun
INVARIANTS CopiesAgree OnlyFailuresLeaveTags WordsTaggedInOrder
PROPERTIES ImplementsAtomicWords ReturnsUnlessTagLeft
CHECK_DEADLOCK FALSE
