---------------------------- MODULE MCFineGrained ----------------------------
(* FineGrainedTest for TLC. *)
EXTENDS FineGrainedTest

CONSTANTS
    Updates,        \* functions that change the tree (or search it)
    Updaters,       \* the threads that call them; the others search once
    UpdaterCalls    \* how often

MCOps == [t \in Threads |-> IF t \in Updaters THEN Updates ELSE {"search"}]
MCMaxCalls == [t \in Threads |-> IF t \in Updaters THEN UpdaterCalls ELSE 1]

(* What Main has inserted when the threads start. *)
MCOne == {<<2>>}
MCShapes == {<<>>, <<2, 1, 4, 3>>, <<5, 3, 6, 2, 4>>, <<2, 1, 4, 3, 5>>, <<4, 2, 6, 1, 3, 5>>}

(* 2 has its successor 3 below 5, its right child. *)
MCDeletions == {<<2, 1, 5, 3>>}
=============================================================================
