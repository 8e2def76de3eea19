CONSTANTS
    t1 = t1
    t2 = t2
    main = main
    Threads = {t1, t2}
    Main = main
    Lone = t1
    LoneCalls = 2
    LoneKeys = {2, 3}
    OtherKeys = {1, 2}
    Keys <- MCKeys
    Fills <- MCFills
    MaxCalls <- MCMaxCalls
SPECIFICATION LoneRun
INVARIANTS TypeOK FlagsAreAttended SearchOrder PublishedStillApplies
PROPERTIES ImplementsConcurrentSet NonBlocking MarkedIsFinal RemovalIsFinal KeysOnlyGrow
CHECK_DEADLOCK FALSE
