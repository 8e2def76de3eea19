CONSTANTS
    t1 = t1
    t2 = t2
    main = main
    Threads = {t1, t2}
    Main = main
    Lone = t1
    Requests <- MCRequests
    Fills <- MCFills
    MaxCalls = 1
SPECIFICATION LoneRun
INVARIANTS OneSearchTree BalancedAtRest
PROPERTIES ImplementsConcurrentSet ChangesAreVersioned RemovedNodesStay DiesOnlyOfSuccessor NonBlocking
CHECK_DEADLOCK FALSE
