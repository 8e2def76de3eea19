CONSTANTS
    t1 = t1
    t2 = t2
    main = main
    Threads = {t1, t2}
    Updaters = {t1, t2}
    Updates = {"insert"}
    UpdaterCalls = 2
    Main = main
    Keys = {1, 2, 3, 4, 5}
    Ops <- MCOps
    Fills <- MCOne
    MaxCalls <- MCMaxCalls
SPECIFICATION TSpec
INVARIANT InsertedKeysAreFound
CHECK_DEADLOCK FALSE
