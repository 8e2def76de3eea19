CONSTANTS
    t1 = t1
    main = main
    Threads = {t1}
    Updaters = {t1}
    Updates = {"delete"}
    UpdaterCalls = 1
    Main = main
    Keys = {2}
    Ops <- MCOps
    Fills <- MCDeletions
    MaxCalls <- MCMaxCalls
SPECIFICATION TSpec
INVARIANT CallsComplete
CHECK_DEADLOCK FALSE
