------------------------------- MODULE Programs -------------------------------
(***************************************************************************)
(* The programs that use the trees: the tests of correctness.cpp and the   *)
(* benchmarks of performance.cpp and speedup.cpp.  A program is a sequence *)
(* of phases.  In a phase the main thread launches threads, each with its  *)
(* list of calls, and joins them; what it does alone is a phase with one   *)
(* thread.  Then it may check what it finds.                               *)
(*                                                                         *)
(* A call is one step here: the tree is the AVL tree under the one lock of *)
(* AVLTreeCG (IMPL 1), or AVLTree, which only one thread uses.             *)
(***************************************************************************)
EXTENDS SequentialAVL, SequencesExt

CONSTANTS
    NUM_THREADS,    \* correctness.cpp:10
    THREAD_SIZE,    \* correctness.cpp:11
    CAPACITY        \* speedup.cpp:14

(* Each half of a thread's range must begin with an even key, or the       *)
(* spread test deletes the odd ones.                                       *)
ASSUME ProgramsAssumption ==
    /\ NUM_THREADS \in Nat \ {0} /\ CAPACITY \in Nat \ {0}
    /\ THREAD_SIZE \in Nat \ {0} /\ THREAD_SIZE % 4 = 0

VARIABLES
    program,    \* the name of the program that runs
    phase,      \* the number of its phase
    left,       \* left[t]: the calls thread t has still to make
    pool,       \* the keys of a shuffled vector that are not used yet
    before      \* history: the keys when the phase began

vars == <<root, program, phase, left, pool, before>>

-----------------------------------------------------------------------------
(* Lists of calls.  from is the set of keys the call may have: one, or any *)
(* (a random number), or, if it is empty, the next of a shuffled vector.   *)

Call(fn, from) == [fn |-> fn, from |-> from]

OnEach(fn, keys) == [i \in DOMAIN keys |-> Call(fn, {keys[i]})]

(* The keys from low to high - 1. *)
KeysOfRange(low, high) == [i \in 1 .. high - low |-> low + i - 1]

(* Goes on to high itself. *)
InsertRange_Inclusive(low, high) == OnEach("insert", KeysOfRange(low, high + 1))

InsertRange(low, high) == OnEach("insert", KeysOfRange(low, high))

DeleteRangeContiguous(low, high) == OnEach("delete", KeysOfRange(low, high))

(* Begins with the second key. *)
DeleteRangeSpread_FromSecond(low, high) ==
    OnEach("delete", [i \in 1 .. (high - low) \div 2 |-> low + 2 * i - 1])

DeleteRangeSpread(low, high) ==
    OnEach("delete", [i \in 1 .. (high - low + 1) \div 2 |-> low + 2 * (i - 1)])

(* The bounds of the pieces a range is cut in. *)
Pieces(low, high, interval) ==
    [b \in 1 .. (high - low + interval - 1) \div interval |->
        <<low + (b - 1) * interval, Min({high, low + b * interval})>>]

(* Each piece is inserted, and then deleted from. *)
InsertRangeDeleteContiguous(low, high, interval) ==
    LET p == Pieces(low, high, interval)
    IN  FlattenSeq([b \in DOMAIN p |-> InsertRange(p[b][1], p[b][2])
                                        \o DeleteRangeContiguous(p[b][1], p[b][2])])

InsertRangeDeleteSpread(low, high, interval) ==
    LET p == Pieces(low, high, interval)
    IN  FlattenSeq([b \in DOMAIN p |-> InsertRange(p[b][1], p[b][2])
                                        \o DeleteRangeSpread(p[b][1], p[b][2])])

-----------------------------------------------------------------------------
(* Phases *)

(* What a test looks for: the keys it must find and those it must not.     *)
Expect(found, missing) == [found |-> found, missing |-> missing]

NoCheck == Expect({}, {})

(* init: a new tree; vector: the keys that are shuffled, or none. *)
Phase(init, vector, jobs, check) ==
    [init |-> init, vector |-> vector, jobs |-> jobs, check |-> check]

Alone(init, calls, check) == Phase(init, {}, <<calls>>, check)

(* Threads have the numbers from 0 on. *)
Launch(init, job, check) ==
    Phase(init, {}, [i \in 1 .. NUM_THREADS |-> job[i - 1]], check)

ThreadNumbers == 0 .. NUM_THREADS - 1

(* The first key of thread i's range. *)
Low(i) == 1 + i * THREAD_SIZE

(* The tests.  testSequentialInsert has ranges of up to 400 keys, in this  *)
(* order of magnitude and position.                                        *)
TestSequentialInsert ==
    <<Alone(TRUE, InsertRange(5, 6) \o InsertRange(6, 9) \o InsertRange(1, 2)
                  \o InsertRange(9, 10) \o InsertRange(2, 5),
            Expect(1 .. 9, {}))>>

TestConcurrentInsert ==
    LET job == [i \in ThreadNumbers |-> InsertRange(Low(i), Low(i + 1))]
    IN  <<Launch(TRUE, job, Expect(1 .. NUM_THREADS * THREAD_SIZE, {}))>>

TestSequentialDelete ==
    LET all == 1 .. THREAD_SIZE - 1
        half == THREAD_SIZE \div 2
        fill == Alone(TRUE, InsertRange(1, THREAD_SIZE), NoCheck)
    IN  <<fill,
          Alone(FALSE, DeleteRangeContiguous(half, THREAD_SIZE),
                Expect({i \in all : i < half}, {i \in all : i >= half})),
          fill,
          Alone(FALSE, DeleteRangeSpread(2, THREAD_SIZE),
                Expect({i \in all : i % 2 = 1}, {i \in all : i % 2 = 0}))>>

TestConcurrentDelete ==
    LET all == {i \in 1 .. NUM_THREADS * THREAD_SIZE : i % THREAD_SIZE # 0}
        kept == THREAD_SIZE \div 4
        job == [i \in ThreadNumbers |-> DeleteRangeContiguous(Low(i) + kept, Low(i + 1))]
    IN  <<Alone(TRUE, InsertRange(1, 1 + NUM_THREADS * THREAD_SIZE), NoCheck),
          Launch(FALSE, job, Expect({i \in all : i % THREAD_SIZE < kept},
                                    {i \in all : i % THREAD_SIZE > kept}))>>

TestInsertDeleteContiguous ==
    LET interval == 1 + (THREAD_SIZE + 1) \div 2
        job == [i \in ThreadNumbers |-> InsertRangeDeleteContiguous(Low(i), Low(i + 1), interval)]
    IN  <<Launch(TRUE, job, Expect({}, 1 .. NUM_THREADS * THREAD_SIZE))>>

TestInsertDeleteSpread ==
    LET all == 0 .. NUM_THREADS * THREAD_SIZE
        interval == (THREAD_SIZE + 1) \div 2
        job == [i \in ThreadNumbers |-> InsertRangeDeleteSpread(Low(i) - 1, Low(i + 1) - 1, interval)]
    IN  <<Launch(TRUE, job, Expect({i \in all : i % 2 = 1}, {i \in all : i % 2 = 0}))>>

-----------------------------------------------------------------------------
(* performance.cpp: thread i works on the i-th stretch of the vector, as   *)
(* far as the vector goes.                                                 *)

(* Stops one short of the stretch's end. *)
Share_Short(i, capacity, size) ==
    KeysOfRange(i * capacity, Min({(i + 1) * capacity - 1, size}))

Share(i, capacity, size) == KeysOfRange(i * capacity, Min({(i + 1) * capacity, size}))

BlockVector(fn, n, capacity) ==
    [i \in 1 .. n |-> OnEach(fn, Share(i - 1, capacity, n * capacity))]

ShuffledVector(fn, n, capacity, size) ==
    [i \in 1 .. n |-> [j \in DOMAIN Share(i - 1, capacity, size) |-> Call(fn, {})]]

(* parallelInsert, parallelDelete, parallelSearch *)
Parallel(init, fn, vector, n, capacity) ==
    LET size == n * capacity
    IN  IF vector = "block" THEN Phase(init, {}, BlockVector(fn, n, capacity), NoCheck)
        ELSE Phase(init, 0 .. size - 1, ShuffledVector(fn, n, capacity, size), NoCheck)

TestInsert(order, n, capacity) == <<Parallel(TRUE, "insert", order, n, capacity)>>

TestDelete(order, tree, n, capacity) ==
    <<Parallel(TRUE, "insert", tree, n, capacity),
      Parallel(FALSE, "delete", order, n, capacity)>>

TestSearch(order, n, capacity) ==
    <<Parallel(TRUE, "insert", "block", n, capacity),
      Parallel(FALSE, "search", order, n, capacity)>>

(* Shuffles again before the deletions. *)
TestRandom1_Reshuffled(n, capacity) ==
    LET size == n * capacity
        part(fn, m) == ShuffledVector(fn, n, capacity, m)
    IN  <<Phase(TRUE, 0 .. size - 1, part("insert", size \div 5), NoCheck),
          Phase(FALSE, 0 .. size - 1, part("delete", size \div 10), NoCheck),
          Phase(FALSE, {}, part("search", size - size \div 5 - size \div 10), NoCheck)>>

(* One shuffled vector, cut in three. *)
TestRandom1(n, capacity) ==
    LET size == n * capacity
        part(fn, m) == ShuffledVector(fn, n, capacity, m)
    IN  <<Phase(TRUE, 0 .. size - 1, part("insert", size \div 5), NoCheck),
          Phase(FALSE, {}, part("delete", size \div 10), NoCheck),
          Phase(FALSE, {}, part("search", size - size \div 5 - size \div 10), NoCheck)>>

(* speedup.cpp: CAPACITY random numbers, first for the sequential tree,    *)
(* then for n threads on another tree.                                     *)
RandomCalls(fn, m) == [i \in 1 .. m |-> Call(fn, 0 .. CAPACITY - 1)]

Speedup(n) ==
    LET alone(init, fn) == Alone(init, RandomCalls(fn, CAPACITY), NoCheck)
        shared(init, fn) ==
            Phase(init, {}, [i \in 1 .. n |-> RandomCalls(fn, CAPACITY \div n)], NoCheck)
    IN  <<alone(TRUE, "insert"), alone(FALSE, "delete"), alone(FALSE, "search"),
          shared(TRUE, "insert"), shared(FALSE, "delete"), shared(FALSE, "search")>>

-----------------------------------------------------------------------------

CONSTANT PhasesOf   \* PhasesOf[p]: the phases of program p

Now == PhasesOf[program][phase]

Init ==
    /\ program \in DOMAIN PhasesOf
    /\ phase = 1
    /\ root = Nil /\ before = {}
    /\ left = Now.jobs /\ pool = Now.vector

(* Thread t makes its next call. *)
Work(t) ==
    /\ left[t] # <<>>
    /\ LET c == Head(left[t])
       IN  \E k \in IF c.from = {} THEN pool ELSE c.from :
             /\ \/ c.fn = "insert" /\ Insert(k)
                \/ c.fn = "delete" /\ DeleteNode(k)
                \/ c.fn = "search" /\ Search(k)
             /\ pool' = IF c.from = {} THEN pool \ {k} ELSE pool
    /\ left' = [left EXCEPT ![t] = Tail(@)]
    /\ UNCHANGED <<program, phase, before>>

Joined == \A t \in DOMAIN left : left[t] = <<>>

(* An exception in main ends the program. *)
Throws(check) ==
    \/ \E k \in check.found : ~SearchHelper(root, k)
    \/ \E k \in check.missing : SearchHelper(root, k)
    \/ check # NoCheck /\ ~CheckHeightAndBalance(root)

(* All threads are joined, nothing is thrown, and the next phase begins,   *)
(* perhaps with a new tree and a new vector.                               *)
NextPhase ==
    /\ Joined /\ ~Throws(Now.check)
    /\ phase < Len(PhasesOf[program])
    /\ phase' = phase + 1
    /\ LET next == PhasesOf[program][phase + 1]
       IN  /\ root' = IF next.init THEN Nil ELSE root
           /\ left' = next.jobs
           /\ pool' = IF next.vector = {} THEN pool ELSE next.vector
    /\ before' = KeysOf(root')
    /\ UNCHANGED program

Next == NextPhase \/ \E t \in DOMAIN left : Work(t)

Spec == Init /\ [][Next]_vars

-----------------------------------------------------------------------------
(* Properties *)

(* No test throws, in whatever order the threads' calls are made: what the *)
(* tests expect of a key (correctness.cpp:228-385) follows from the ranges *)
(* that the threads insert and delete.  The spread test, which looks at    *)
(* odd and even keys, passes because every piece begins with an even key.  *)
TestsPass == Joined => ~Throws(Now.check)

(* What the calls of a phase make of a set of keys, one after another. *)
Effect(keys, calls) ==
    FoldLeft(LAMBDA s, c : CASE c.fn = "insert" -> s \cup c.from
                             [] c.fn = "delete" -> s \ c.from
                             [] OTHER -> s,
             keys, calls)

(* The keys after a phase with fixed keys do not depend on the order in    *)
(* which the threads ran: they are what the threads' calls leave when each *)
(* thread runs after the one before it.  Only because no thread's range    *)
(* reaches into another's (correctness.cpp:251, 314, 343, 364) can a test  *)
(* expect one result.                                                      *)
SameAsSequential ==
    Joined /\ (\A t \in DOMAIN Now.jobs : \A i \in DOMAIN Now.jobs[t] :
                    Cardinality(Now.jobs[t][i].from) = 1)
        => KeysOf(root) = Effect(before, FlattenSeq(Now.jobs))
=============================================================================
