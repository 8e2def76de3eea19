CONSTANTS
    t1 = t1
    t2 = t2
    t3 = t3
    Threads = {t1, t2, t3}
    Keys = {1, 2}
    NoThread = NoThread
    NoKey = NoKey
    NilTree <- Nil
    Trees <- MCTrees
    Contents <- KeysOf
    InsertHelper <- AVLInsert
    DeleteHelper <- AVLDelete
    SearchHelper <- AVLSearch
SPECIFICATION FairSpec
INVARIANTS TypeOK WriterIsAlone ReadersHoldWriteLock
PROPERTIES ImplementsAtomicSet CallsReturn
CHECK_DEADLOCK FALSE
