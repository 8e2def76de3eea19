SPECIFICATION Spec
CONSTANTS
    NUM_THREADS = 2
    THREAD_SIZE = 8
    CAPACITY = 7
    n = 2
    capacity = 3
    mixed = 5
    Keys = {0, 1, 2, 3, 4, 5, 6, 7, 8, 9, 16}
    PhasesOf <- MCPhasesOf
INVARIANTS TestsPass SameAsSequential BenchmarksFillAndEmpty MixedBenchmarkOnlyMisses
INVARIANTS Balanced CallsMatchSet
CHECK_DEADLOCK FALSE
