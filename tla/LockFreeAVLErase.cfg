CONSTANTS
    t1 = t1
    t2 = t2
    main = main
    Threads = {t1, t2}
    Main = main
    Lone = t1
    Requests <- MCSameKey
    Fills <- MCOneFill
    MaxCalls = 1
SPECIFICATION LSpec
INVARIANT UndeletedKeysStay
CHECK_DEADLOCK FALSE
