----------------------------- MODULE MCLockFree -----------------------------
(* LockFreeSet for TLC. *)
EXTENDS LockFreeSet

(* The empty tree, a leaf, one child, two children; and a successor that   *)
(* is not itself the child.                                                *)
MCFills == {<<>>, <<2>>, <<2, 3>>, <<2, 1, 3>>, <<2, 1, 4, 3>>}

CONSTANTS
    Lone,       \* the thread that goes on running while the others may stop
    LoneCalls,  \* its calls; the others make one
    LoneKeys, OtherKeys

MCMaxCalls == [t \in Threads |-> IF t = Lone THEN LoneCalls ELSE 1]
MCKeys == [t \in Threads |-> IF t = Lone THEN LoneKeys ELSE OtherKeys]

LoneRun ==
    /\ LSpec
    /\ WF_vars(Fill)
    /\ WF_vars(Work(Main))
    /\ WF_vars(Work(Lone))

(* Non-blocking: a thread that goes on running finishes its call although  *)
(* every other thread may have stopped for good in the middle of its own   *)
(* (lockfree.cpp:65-237).                                                  *)
NonBlocking == InCall(Lone) ~> ~InCall(Lone)
=============================================================================
