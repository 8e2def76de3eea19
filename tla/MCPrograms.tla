------------------------------ MODULE MCPrograms ------------------------------
(* Programs with the tests and the benchmarks, each with n threads.        *)
EXTENDS Programs

CONSTANTS n, capacity, mixed

Tests ==
    [testSequentialInsert |-> TestSequentialInsert,
     testConcurrentInsert |-> TestConcurrentInsert,
     testSequentialDelete |-> TestSequentialDelete,
     testConcurrentDelete |-> TestConcurrentDelete,
     testInsertDeleteContiguous |-> TestInsertDeleteContiguous,
     testInsertDeleteSpread |-> TestInsertDeleteSpread]

Benchmarks ==
    [testContiguousInsert |-> TestInsert("block", n, capacity),
     testRandomInsert |-> TestInsert("shuffled", n, capacity),
     testContiguousDeleteContiguousTree |-> TestDelete("block", "block", n, capacity),
     testContiguousDeleteRandomTree |-> TestDelete("block", "shuffled", n, capacity),
     testRandomDeleteContiguousTree |-> TestDelete("shuffled", "block", n, capacity),
     testRandomDeleteRandomTree |-> TestDelete("shuffled", "shuffled", n, capacity),
     testContiguousSearch |-> TestSearch("block", n, capacity),
     testRandomSearch |-> TestSearch("shuffled", n, capacity)]

MCPhasesOf ==
    Tests @@ Benchmarks @@ [testRandom1 |-> TestRandom1(n, mixed), speedup |-> Speedup(n)]

-----------------------------------------------------------------------------
(* Properties *)

(* The stretches of the threads cover the vector: after the insertions all *)
(* its keys are in the tree, and after the deletions, in whichever order   *)
(* the second vector has them, none is (performance.cpp:99, 114).          *)
BenchmarksFillAndEmpty ==
    Joined /\ program \in DOMAIN Benchmarks
        => KeysOf(root) = IF Head(Now.jobs[1]).fn = "delete" THEN {} ELSE 0 .. n * capacity - 1

(* testRandom1 cuts one permutation in three, so no deletion and no search *)
(* ever finds its key: the tree stays what the insertions made             *)
(* (performance.cpp:238-247).                                              *)
MixedBenchmarkOnlyMisses ==
    program = "testRandom1" /\ phase > 1
        => KeysOf(root) = before /\ before # {} /\ before \cap pool = {}
=============================================================================
