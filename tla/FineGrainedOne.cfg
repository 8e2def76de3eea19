CONSTANTS
    t1 = t1
    t2 = t2
    main = main
    Threads = {t1, t2}
    Updaters = {t1}
    Updates = {"insert", "delete", "search"}
    UpdaterCalls = 2
    Main = main
    Keys = {1, 2, 3, 4, 5, 6}
    Ops <- MCOps
    Fills <- MCShapes
    MaxCalls <- MCMaxCalls
SPECIFICATION TSpec
INVARIANTS TypeOK TreeHoldsKeys TreeIsBalanced LocksReleased
PROPERTIES InsertAnswers SearchAnswers
CHECK_DEADLOCK FALSE
