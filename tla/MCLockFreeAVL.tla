--------------------------- MODULE MCLockFreeAVL ---------------------------
(* LockFreeAVLSet for TLC. *)
EXTENDS LockFreeAVLSet, TLC

CONSTANT Lone   \* the thread that goes on running while the others may stop

Of(fn, keys) == {fn} \X keys

MCFills == {<<3, 2>>, <<3, 1>>, <<2, 1, 4, 3>>, <<2, 1, 3, 4>>}

MCRequests ==
    [t \in Threads |-> IF t = Lone THEN Of("insert", {2}) \cup Of("delete", {2})
                                   ELSE Of("insert", {1, 5}) \cup Of("delete", {1, 3})
                                        \cup Of("search", {2,3})]

(* Both threads delete 2, whose successor is its right child.              *)
MCOneFill == {<<2, 1, 3, 4>>}
MCSameKey == [t \in Threads |-> {<<"delete", 2>>}]

LoneRun ==
    /\ LSpec
    /\ WF_svars(Fill /\ Observed)
    /\ WF_svars(Work(Main) /\ Observed)
    /\ WF_svars(Work(Lone) /\ Observed)

(* Non-blocking: while the process lives, a thread that goes on running    *)
(* finishes its call although every other thread may have stopped for good *)
(* in the middle of its own (lockfree2.cpp:81-364).                        *)
NonBlocking == InCall(Lone) ~> (~InCall(Lone) \/ ~alive)
=============================================================================
