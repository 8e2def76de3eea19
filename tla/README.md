# Concurrent search trees: models, checks and proofs

The repository (`src/`) implements a set of integers six times, as a search
tree, and compares the ways of making it safe for threads: one big lock, a lock
per node, compare-and-swap on single words, compare-and-swap on several words.
This directory holds TLA+ models of those trees and of the primitives below
them, TLC runs on small instances, and TLAPS proofs.

## 1. The system

| part | files | state | operations |
|------|-------|-------|------------|
| coarse-grained AVL tree `AVLTreeCG` | `coarsegrained.{h,cpp}` | `root`; mutexes `readLock`, `writeLock`; `readCount` | `insert`, `deleteNode`, `search`, `preOrder`, each in `startRead`/`endRead` or `startWrite`/`endWrite` |
| sequential AVL tree `AVLTree` | `sequential.{h,cpp}` | `root` | `insert`, `deleteNode`, `search`, `preOrder` |
| fine-grained AVL tree `AVLTreeFG` | `finegrained.{h,cpp}` | `root`; a mutex in every node | `insert`, `deleteNode`, `search`, `preOrder` |
| non-blocking search tree `AVLTreeLF` | `lockfree.{h,cpp}` | nodes with `key`, `op`, `left`, `right`; operation descriptors | `insert`, `deleteNode`, `search`; `help*` |
| k-word compare-and-swap `KCASHTM` | `kcas_reuse_htm_impl.h`, the same text in `lockfree2.h` | two arrays of descriptors, one entry per thread, with sequence numbers; the words | `start`, `add`, `execute`, `readPtr`; `help`, `rdcss` |
| AVL tree over KCAS `AVLTree` | `lockfree2.{h,cpp}` | nodes whose fields are KCAS words, with versions; two sentinels | `insert`, `deleteNode`, `search`; `rebalance` and rotations |
| optimistic AVL tree after Bronson et al. | `finegrainedBronson.{h,cpp}` | nodes with version, lock, parent pointer | as above; included by no program |
| tests | `correctness.cpp` | the tree | fill a tree, start threads on ranges of keys, join, look for every key, check heights and balance |
| benchmarks | `performance.cpp`, `speedup.cpp` | the tree; a vector of keys; a random engine | the same in phases, with ordered, shuffled or random keys |
| plots, documents | `visualizer.py`, `README.md`, `milestoneReport.pdf` | | |

The trees do not call each other; each is a client's only shared object, and
threads meet in its words and mutexes. The AVL tree over KCAS reaches its words
only through `casword`, so KCAS is a layer of its own. All trees but
`AVLTreeLF` rebalance, and the coarse-grained and the sequential one share
their rotations.

What is hard, and what makes each part correct:

* **coarse-grained**: a readers-writer lock made of two mutexes and a counter.
  Writers exclude everybody, the mutexes are not lost when readers come and go,
  the calls are those of an atomic set, and every call returns.
* **fine-grained**: hand-over-hand locking down, but the recursion stores into
  the tree on its way *up*, under no lock. Keys get lost, a thread waits for
  itself, a null pointer is followed. What one thread can rely on is stated and
  checked; what two threads break is shown.
* **non-blocking tree**: an update is published in a node's `op` word and
  finished by whoever meets it, perhaps by several threads, perhaps a whole
  call late. An update takes effect once; a late helper changes nothing; a
  search that found nothing was right at some instant; a stopped thread stops
  no other.
* **KCAS**: the same with descriptors that are used again: a helper must notice
  that the descriptor it looks at serves another update by now.
* **AVL tree over KCAS**: an update is prepared from many loads, made at
  different moments while others rotate the tree, and must fail unless they
  still fit together: versions say so. A search that ends nowhere validates its
  whole path. The tree is one search tree at every moment and an AVL tree at
  rest, although heights and rotations follow later, by whoever changed
  something below.

* **optimistic tree**: unfinished. Which calls return, which never do, and what
  of the rest can be reached at all.
* **tests and benchmarks**: a test can expect one result of threads that run in
  any order only if their ranges of keys do not meet; a benchmark must do what
  it says it measures.

`PROJECT.json` lists the hazards line by line with the properties that cover
them.

## 2. Modules

| module | what it is |
|--------|------------|
| `AtomicSet` | abstract: a set whose operations take effect at one instant, with their answers |
| `CoarseGrained` | `coarsegrained.cpp`, one action per line of the lock protocol; the tree helpers are CONSTANT operators with assumptions |
| `AVL` | the AVL algorithm as recursive functions on trees |
| `MCCoarseGrained` | `CoarseGrained` with `AVL` for TLC |
| `CoarseGrained_proofs` | TLAPS proofs about `CoarseGrained` |
| `SequentialAVL` | `sequential.cpp` over `AVL`: its operations and properties |
| `Programs` | the tests and benchmarks: phases of threads with lists of calls, on the tree of `SequentialAVL` |
| `MCPrograms` | the programs by name with small sizes, and the properties of the benchmarks |
| `BronsonAVL` | the public functions of `finegrainedBronson.cpp`, an action per access to shared memory, and their properties |
| `BronsonAVL_proofs` | TLAPS proof that nothing below its root is ever reached |
| `LockFreeBST` | `lockfree.cpp`, an action per load or CAS, and what is true of its heap, step by step |
| `ConcurrentSet` | abstract: a set whose updates take effect at one instant between call and return |
| `LockFreeSet` | history of `LockFreeBST`, refinement mapping and properties of the tree as a set |
| `LockFreeBST_proofs` | TLAPS proofs about `LockFreeBST`: words, pointers, flags and marked nodes |
| `LockFreeOrder_proofs` | TLAPS proofs about `LockFreeBST`: the order of its keys, what is in reach |
| `LockFreeSet_proofs` | TLAPS proof that `LockFreeSet` implements `ConcurrentSet` |
| `FineGrained` | `finegrained.cpp` with mutexes as owners |
| `FineGrainedTest` | what a test remembers of it, and the properties |
| `KCAS` | KCAS, an action per access to a shared word or field |
| `LockFreeAVL` | `lockfree2.cpp`, an action per load or KCAS |
| `LockFreeAVLSet` | history of `LockFreeAVL`, refinement mapping to `ConcurrentSet`, properties |
| `LockFreeAVL_proofs` | TLAPS proof that a removed node is never written again |
| `AtomicWords` | abstract: words, loads, and updates of several words at one instant |
| `KCASWords` | history of `KCAS`, what its words stand for (the refinement mapping), and the properties |
| `KCAS_proofs` | TLAPS proofs about `KCAS`: copies of descriptors, sequence numbers, the order of tagging, decisions |
| `KCASWords_proofs` | TLAPS proofs that `KCASWords` implements `AtomicWords`, and that only failed updates leave tags behind |
| `MCLockFree`, `MCFineGrained`, `MCKCAS`, `MCLockFreeAVL` | constants, symmetry and single-thread fairness for TLC |

In all of them `pc[t]` is where thread `t` stands, named after the code it is
about to run, and `loc[t]` its local variables; a call is an action that picks
arguments, `Return` gives the answer to the client. Mutexes are variables that
hold their owner. Nodes and descriptors are numbers, an index into functions
or sequences, never reused where the code never frees them.

Abstractions that matter:

* `CoarseGrained` makes the body of a helper one step: it runs under the lock,
  and `WriterIsAlone` shows that nobody is in a helper at the same time.
  `deleteHelper` sets `err` also when the node it frees was a leaf
  (`coarsegrained.cpp:160`), so `deleteNode` may answer `false` although the
  key is gone. `DeleteReport` says so in the abstract set: `true` implies that
  the key was removed, `false` implies nothing.
* The last reader may unlock a mutex another thread locked, which C++ leaves
  undefined; it is modelled as the release that every implementation performs.
* `FineGrained` has one action for each load of `search`, which takes no lock:
  the key for the first test, the key again for the second, the child. An action
  of `insert` and `deleteNode` is at most one store, lock or unlock, with the
  loads that come before it; a rotation is two stores of pointers and two of
  heights, and the removal of a node with one child three stores and two
  unlocks. So a search can come between any two stores of an updater. The loads
  of an updater that are one step can be split by another *updater* only. There is one
  in `fg_one` and `fg_delete`, so nothing is lost there; in `fg_lost` there are
  two, the model has some of the code's behaviours, and the one it finds is one
  of the code. A freed node keeps its contents, which is one of the outcomes of
  using it.
* `KCAS` fills a descriptor in one step and copies it in one step with the test
  of its sequence number, because a copy only counts when the number has not
  moved since the tag was made. That such a copy is the descriptor as long as
  the number is the tag's is `CopiesAgree`, checked and proved. A hardware
  transaction is one step. `Sortings` and `Written` say what the sort of the
  entries and the stores of a transaction come to; a request names a word once
  (`KCASAssumption`): in `lockfree2.cpp` the parent of a new node is one
  of predecessor and successor, and the other one is added (94); a successor's
  parent that is the deleted node is not added twice (203). Values are
  numbers without the two low bits that tell tags from values.
* `LockFreeAVL` takes a KCAS as one step, which `KCAS` is proved to implement
  (with thread numbers as designed, see `kcas_slots`; the tag that `kcas_stale`
  shows to be left behind does no harm to the values, but a load of that word
  never returns). An update that fails is the step
  at which one of its words differed; in the code it may also fail because it
  met the tag of another update, after which every caller starts over as it does
  after any failure, so that answers and tree are the same. The loads that prepare an update are
  written as *scripts*, the words in the order in which the code reads them:
  the left and right rotations are mirror images, so there is one script for
  each kind, with sides instead of names. `rebalance` calls itself and then goes
  on; since its callers do nothing but return, the nodes that wait are a list,
  `todo`. `val` is left out, for `insert` always stores 0. Following a null
  pointer ends the process (`alive`).
* `SearchAnswers` in `FineGrainedTest` uses a history, `watch`: for each search
  under way, whether the key was there all the time, whether it may have been
  there, and whether something that can hide it went on meanwhile (`Moving`).
  A search beside one updater misses a key that is there only
  then, and there are three such things: a subtree with the key was
  rotated up and the pointer to it not yet stored; it was copied from an only
  child into its parent, a field at a time; or the key took the place of a deleted
  one and was removed further down. The second covers a window that is easily
  overlooked: the parent's new key is stored first (167), and a search for a
  key of the child's subtree that reads it goes to a side that does not have it yet.
* `Programs` makes a call one step. The trees it stands for are `AVLTreeCG`
  (IMPL 1), whose calls `cg` shows to be atomic, and the sequential tree. A
  shuffled vector is a set from which each position takes its key when it is
  reached, so that all permutations are there. The threads of `speedup.cpp`
  share one `mt19937` without a lock, a data race; a random key is any key of
  the range, which covers what the race can do to it.
* `BronsonAVL` has the code up to the label `attempt`, where the descents below
  the root begin; `NeverBelowRoot` shows that no thread comes there. A loop
  without side effects is taken as one that runs for ever, which is what a build
  without optimisation does.
* Memory is sequentially consistent. The code's shared accesses are `volatile`
  or `__sync` operations and x86 is assumed throughout (`_xbegin`).

## 3. Runs

Passing runs:

| run | instance | shows |
|-----|----------|-------|
| `cg` | 3 threads, 2 keys, calls without bound, fair | exclusion, lock accounting, the tree is an atomic set, every call returns |
| `lf_set` | 2 threads, one with 2 calls, 5 trees, 3 keys, one fair thread | linearizable set; flags are attended; non-blocking; late helpers are harmless: order of keys, published CAS still applies, marked and removed nodes are final |
| `fg_one` | one thread with 2 calls and one with a search, 5 trees | contents, order, balance under insertions, locks, answers, as long as the process lives; which steps can make the unlocked search miss a key |
| `kcas` | 2 threads, 3 and 2 calls, loads, updates of 2 words and of 1, one fair thread | atomicity; copies of descriptors agree with them; only failed updates leave tags behind; tagging in order; non-blocking apart from such tags |
| `la_set` | 2 threads, 1 call each, on 4 trees; one thread inserts or deletes the middle key, the other another one, or searches | linearizable set, one search tree at every moment, AVL at rest, a version for every change, removed nodes never written again, non-blocking |
| `bronson` | 3 threads, 1 call each, 3 keys, fair | what the optimistic tree does: nothing below its root, nothing is deleted, calls for another key never return, all others do |
| `programs` | 15 tests and benchmarks and `speedup`, 2 threads, up to 17 keys | what the tests expect holds in every order of the threads' calls; results do not depend on that order; the mixed benchmark only misses; shape of the tree and each call against the set of keys |

Why these bounds. A late helper needs a thread that finishes its call and
begins another: two calls of one thread (`lf_set`, `kcas`). In `kcas` each of
the threads does so, which is what it takes to leave a tag behind: `t1` tries to
set both words, against the order of their addresses; `t2` makes this fail or
succeed, by an update of one word or of both, and its next call meets the tags of
`t1`, which by then is at its own next call; any last call may be a load. Only the
first call of each thread names the second word in an update. This word is the
one under which the tag stays, and an update that met it there would spin with
ever larger sequence numbers, so that there would be infinitely many states; a
load spins in one. The shapes of trees with at most four nodes contain
each case of `deleteNode` (no child, one child, the successor is the child, the
successor is further down) and insertions from them reach every rotation. Two
words suffice for order and for "all or nothing"; the word that comes back to
an earlier value is among the updates. The
trees of `la_set` are those one update away from each of the rotations, so that
the updates meet with a rotation under way on the path of the other thread:
single and double rotations succeed, and others fail and start over. Calls are bounded
by `MaxCalls`, so runs end, and `CHECK_DEADLOCK FALSE` stands for "no more calls"; in the fine-grained
runs a thread may also really block or the process die, which is what their
claims are about, and in `bronson` a deadlock would show in `ReturnsOrStuck`.
The programs have the code's proportions with small numbers: threads with eight
keys instead of a hundred (`THREAD_SIZE` must be a multiple of four, as 100 is,
for the pieces of the spread test to begin with an even key), two threads
because a range has at most a neighbour on each side. Three root-level calls
are enough for the optimistic tree: two first insertions, and one that looks.

Runs that show a disagreement between the code and what a comment or a test
says of it:

| run | property | what happens |
|-----|----------|--------------|
| `fg_lost` | `InsertedKeysAreFound` | a store on the way up undoes another thread's work |
| `fg_delete` | `CallsComplete` | deletion locks the successor twice and waits for itself |
| `kcas_stale` | `TagsLeadSomewhere` | two threads: a helper installs the tag of an update that failed meanwhile; the owner has gone on, so nobody takes it away |
| `la_erase` | `UndeletedKeysStay` | two threads delete one key: the second finds the node with the successor's key in it, and deletes that |
| `kcas_slots` | `OnlyOwnerChangesSequence` | every thread gets number 0, all share one descriptor |

`kcas_slots` is about `TIDGenerator`: `thread_ids` is a member, and the
generator is `thread_local`. The other KCAS runs give `Slot` the value the
design intends, a number of its own for each thread, and so say what KCAS does
once that is repaired.

`kcas_stale` needs no more than two threads. One sets both words; the
other clears the second, so that the first has a reason to fail. Before it does,
the other's next call meets its tag on the first word and helps: it puts the tag of
its rdcss in the second word and reads that the update is undecided. Now the
first sets it to failed, leaves the second word alone, which does not have its own tag,
returns and starts its next call; then the other installs the first's old tag, and
finds its descriptor gone. Nobody takes this tag away. `kcas` has the same
threads and calls and shows how far the damage goes:
`OnlyFailuresLeaveTags` says that it is always the tag of an update that failed,
so that no value is wrong, and `ReturnsUnlessTagLeft` that a call can only be
kept for ever by such a tag in the very word it needs.

`la_erase` concerns line 203 of `lockfree2.cpp`: when the successor's parent is
the node itself, the version the search saw is not compared. In `la_set` the
threads delete different keys, and the set is linearizable. Two more things to
know about this tree: deleting a node with two children while another thread
works below it may follow a null pointer (`lockfree2.cpp:180`, `274`), and
`DiesOnlyOfSuccessor` shows that this is the only such place; and key 0, which
`correctness.cpp:364` uses, is the key of the left sentinel, so that the models
use keys above 0. `checkHeightAndBalanceLF` returns before it has looked at
anything (`correctness.cpp:138`); `BalancedAtRest` makes that check.

Seen in the passing runs, and worth knowing:

* `finegrainedBronson.cpp:557`: a call for a key other than the root's never
  returns. `ReturnsOrStuck` is a property of the code, not a promise kept.
* `performance.cpp:226-243`: the comment above `testRandom1` says 30 % insertions,
  30 % deletions and 40 % searches, the code makes 20, 10 and 70 of a hundred;
  since the three parts are slices of one permutation, no deletion and no search
  ever finds its key (`MixedBenchmarkOnlyMisses`), and since the stretches are
  as long as the whole vector's, one of up to five threads makes all the
  insertions. It is the only
  benchmark of that file that is run.
* `correctness.cpp:94`: the spread test depends on the parity of its sizes.

## 4. Fairness

`CallsReturn` assumes weak fairness of each thread's steps: the scheduler runs
every thread, and a mutex that is free when a thread that waits for it runs is
taken. It does not assume that a mutex is fair: calls are bounded, so
everyone is served in the end. With readers arriving for ever a writer would
starve; that is noted as a hazard and not hidden by stronger fairness.

`ReturnsOrStuck` assumes the same of the threads of `BronsonAVL`: the one mutex
that is taken there is held for a few lines that do not wait.

`NonBlocking`, and `ReturnsUnlessTagLeft` of KCAS, assume weak fairness of one
thread, `Lone`, only (and of the thread that fills the tree before the others
start). Every other thread may stop anywhere for good. That is what
lock-freedom promises when the number of calls is finite. KCAS does not keep this
promise when a tag was left behind (`kcas_stale`), so its property
excepts the call that is for ever at a word under one.

## 5. Proofs

`CoarseGrained_proofs` proves, for any set of threads and keys and any helpers
that satisfy `HelpersAssumption` (a helper does to the set of keys what its
name says):

* `TypeCorrect`: types, and `readCount` never negative;
* `Exclusion`: `[]WriterIsAlone`;
* `Accounting`: `[]ReadersHoldWriteLock`;
* `Refinement`: `Spec => Abstract!ASpec`, the tree implements `AtomicSet`.

`WriterIsAlone` is not inductive: that a writer is alone depends on
`writeLock` being held on behalf of *all* readers by whichever came first. The
inductive invariant `Inv` says which program counters own `readLock`
(`GateInv`), that `readCount` is the number of threads at the program counters
between the increment and the decrement (`CountInv`, by cardinality), that
`writeLock` is held while any of them is past `startRead:first`
(`SharingInv`), that a writer owns it (`WriterInv`), and that it is never held
for nobody (`NotLostInv`). `NextType`, then one lemma per conjunct, with a step
per action; the two facts on cardinality that the counting needs are lemmas.

`BronsonAVL_proofs` proves, from `BronsonAssumption` alone and so for any
threads, keys and number of calls,

* `OnlyTheRoot`: `[]NeverBelowRoot`.

That property is not inductive either: a step that reads the version of the
root a thread has loaded says nothing unless that root is a node. The inductive
invariant `Inv` is `NodeInv` (every node but the holder is as the constructor
left it, and the holder's right child is a node or null) and `LocalInv` (a
thread that looks at the root it loaded has loaded a node, only a deletion gets
to `RemoveNode`, and no deletion comes back with true). `OneNodeMore` says what
an insertion does to the sequence of nodes, `StepInv` what any step must show of
the locals it leaves, and `WorkInv` has a step per action.

`KCAS_proofs` proves, from `KCASAssumption` and `DistinctSlots` (no two threads
share a descriptor), for any number of threads, words, requests and calls,

* `CopiesHold`: `[]CopiesAgree`.

(`DistinctSlots` is what `TIDGenerator` should provide and does not, as
`kcas_slots` shows.) This is not inductive, because a copy may be made at any time after its tag
was read, and the descriptor may by then belong to another operation. What is
needed is that every tag about, in a word, in a local variable or in a
descriptor of `rdcss`, was issued (`IssuedK`, `IssuedR`): its number is at most
the descriptor's, and less than it while the owner fills the descriptor, so
that nobody can take the filling for the operation that the tag stands for.
`Inv` says this of the words (`MemInv`), of what the two kinds of descriptor
contain (`KDescInv`, `RDescInv`) and of the threads (`LocalInv`, with `Place`
for what a program counter implies of its thread's locals). `Grows` is what one
step may do to the descriptors, and `GrowsIssued` that issued tags remain so.
`StepInv` reduces a step to what it does to its own thread, `QuietStep` is its
form for steps that leave the descriptors alone, and `FillInv` that for a
thread that fills its own; then there is a lemma for each action.

It goes on to show, from the same assumptions,

* `TaggedInOrder`: `[]WordsTaggedInOrder`;
* `DecidedWhenTagged`: the outcome of an update is decided once, and to be
  success only in a step at which every one of its words carries its tag.

The runs have two words, so that order there is a matter of one pair; here an
update has any number. The order is in doubt because it is not an update that
tags a word but an rdcss, on behalf of any of its helpers, and between the two
steps of that rdcss the update may be decided and its word given back. The
invariant `OrderInv` has three parts. `PrefixInv`: a word under the tag of an
undecided update is one of a tagged prefix. `AttendedInv`: a word under the tag
of an rdcss has the thread that owns that descriptor at `RdcssRead` or
`RdcssFinish` for this very word, so that nobody else's rdcss can be met later
and mistaken. `Course`: what a thread has in hand, for each frame of its stack
of helpers (`TaggedBelow`: the words before the one it is at are tagged unless
the update is decided) and for each place of the code. All who finish an rdcss
go by the same copy of it (`SameCopy`, from `CopiesAgree` of the first proof).
A step that takes no word from an update that is undecided afterwards
(`Steady`) takes nothing from the other threads, which leaves `OrderStep` and a
lemma for each action.

`KCASWords_proofs` proves, from the same assumptions,

* `Atomic`: `HSpec => ImplementsAtomicWords`, KCAS implements `AtomicWords`;
* `FailuresLeaveTags`: `HSpec => []OnlyFailuresLeaveTags`, the tag of an rdcss in
  a word leads to that rdcss, and a tag of an update whose descriptor has gone
  on is of an update that failed.

A word under a tag stands for a value in the update that the tag is of, and that
update's descriptor may long serve another one: a helper that was late takes its
tag away in its own time. So the mapping needs what the code forgets, the
history `done`, which keeps the descriptor of each update that came to `help`
as it was last. `HSpec` is `Spec` with this variable; the code's variables never
depend on it, and `HistoryLooksOn` carries the theorems above over to `HSpec`. A
word under an update's tag stands for its new value if that update is remembered
as successful, and for its old value otherwise; a word under the tag of an
rdcss stands for the value that this rdcss expected.

An update takes effect when its transaction commits or when its state is set to
success, which any of its helpers may do: that step of one thread is the
step `Update` of another thread's call, its `Owner`'s. Every other step of
`help` must leave all the words as they stand, and two of them are in doubt. Who
replaces a tag goes by a state it has read before (`Replace`): that is what is
remembered, since states are set once. And who has read that an update
is undecided puts its tag in a word afterwards (`RdcssFinish`), when the update may
have been decided. If it has failed meanwhile, this is the tag that `kcas_stale`
shows to stay for ever; it stands for the old value, so that nothing is
wrong with the values. If it had succeeded, the word would turn to the
new value a second time, perhaps after others have written it. `LateInv` says that
this does not happen, for as long as the tag of the rdcss is in the word the
update does not have this word, and it cannot succeed without
(`DecidedWhenTagged`). But a thread may hold such a tag from before, and the tag be
put in the word *again*: that it never is, because its number is new when it
is first put there, is `FreshInv`. Neither is inductive without the other, nor
without `OrderInv`, nor without `MemoryInv`, `CoverInv` and
`ServesInv`, which say that every tag in a word, in a run of help and in an rdcss
descriptor is of an update that is remembered, and has this word among its own;
that an update not decided has its owner in `help`; and, in `Errand`, that its
entries are those of the request. `HistoryStep` says what a step must
show of its own thread, `Still` and `Grown` what no step does to what is
remembered; then there is a lemma for the history and one for the refinement
for each kind of step (`ProceedsMatched` for all that change nothing,
`CommitMatched`, `DecideMatched`, `LoadMatched` and so on).

`AtomicWords` lets an update fail although its words are as expected, and so does
the code: a transaction gives up on a word under a tag, whatever that stands for
(481-495), and a helper may set the failure it saw a reason for some time before.

`FailuresLeaveTags` cannot follow from what is known of helpers, since
helpers do leave tags. It rests on the owner: of an update that succeeded every
word has the tag at that moment, no helper puts it in a word again (`LateInv`), and
its owner goes through all the words before it starts its next update. `ClearedInv`
says of the owner how far it has come, that the words which still have the tag are
those before it, from the state of success it read on. For each step there is
then what it does to the tags of finished updates (`NoneTagged`) and to what is
remembered of them (`NoneRevised`).

`LockFreeAVL_proofs` proves, for any threads, keys and calls,

* `RemovedStay`: `RemovedNodesStay`, versions only grow and a node whose
  version is marked is never written again.

It does not depend on the shape of the tree, only on the versions that the
updates carry. An update is `Tested` when every node it writes comes with a
version that is not marked, and `UpdatedWord` shows that such an update, if it
applies, leaves marked nodes alone, also when two of the names in it stand for
the same node. That the updates are `Tested` is the work: the code tests
versions in another place and order in each function, and `Place` says for each
program counter, and within a script for each position, which local versions
have passed. The lemmas on scripts say which loads could overwrite them. That a
change always changes the version (`ChangesAreVersioned`) needs more: that the
nodes of a rotation are different ones, which depends on the shape of the tree,
and stays with TLC.

`LockFreeBST_proofs` proves, from `LFAssumption` alone and so for any threads,
keys, starting trees and number of calls,

* `TypesCorrect`: `[]TypeOK`;
* `OperationsStillApply`: `[]PublishedStillApplies`, a published change of a
  pointer finds the pointer it expects or its own result, and a relocation whose
  word reached its destination is not given up;
* `FlagsAttended`: `[]FlagsAreAttended`;
* `MarkedStays`: `MarkedIsFinal`;
* `WordsAdvance`: the words of a node follow each other in an order, `Before`,
  and none comes back, so that a CAS on a word needs no version counter;
* `NodesGoneForGood` and `OneParentEach`: a node that a finished operation has
  taken out is marked, stays out, and nothing that is not out leads to it; any
  other node has one parent at most.

None of these is inductive, and they need each other. That a late
helper's CAS on a *pointer* fails (202) rests on the fact that the pointer it
expects is not there any more: the node it points to is `Gone`, and a node that
is gone is never linked again; or it is the null pointer that keeps the address
of such a node. That in turn rests on the word of the parent, which nobody but
this operation holds while it is at work, and on the marked node whose children
do not change, which the operation copied. A new node is `Hidden` until the
operation it was published with links it, so that nobody can have its address.
So the invariant `Inv` has a part on the heap (`HeapInv`: types and which flag
comes with which kind of operation; `DescInv`: what an operation says of its
nodes; `PendingInv`: what an operation at work can count on; `TreeInv`: what is
not gone hangs together), one on the threads (`LocalInv`, with `Place` for what
is known of the locals at each place of the code), and `AttendInv`, that a flag
has its thread. What a thread knows was read earlier and may be out of date, so
`Place` states it in a form that stays true whatever the others do: "the word
*was* `w`" (`Seen`), "a child of `p` unless one of them is gone" (`Link`), "as
long as the word is still `w`" (`EndsHere`). `Advance` is what a step may do to
the heap at most, `PlaceStays` that knowledge survives it. For
helpers of a relocation two facts were missing at first and turned up in the
proof: the node it was published at keeps the flag until the outcome is known,
and a helper that has seen `SUCCEED` knows that the destination got its word.
`StepInv` says what a step must show of the place it leads to; then there is a
lemma for each action, with four for what the CASes do to the heap (`Publish`,
`CarryOut`, `WordCAS`, `StateCAS`).

`LockFreeOrder_proofs` adds, from the same assumption,

* `SearchOrderHolds`: `[]SearchOrder`;
* `KeysGrow`: `KeysOnlyGrow`;
* `RemovedForGood`: `RemovalIsFinal`.

These need to know where a node stands in the tree and not just what points to
it, and a fact about the whole tree is what a proof by single steps is poor at:
"everything below the left child" is recursive. Two devices take its place.
What is below a pointer is what no closed set of nodes leaves out (`Below`), so
that to know it one exhibits a closed set. And the order of the nodes is a thing
of its own, `g`, which gives each node of the tree (`Tree`: published, linked,
not gone) a place on a line and the bounds of what is below it (`Labels`);
`Shape` says of each node alone how its bounds fit those of its children and of
the nodes that its bounds come from. A change of a pointer carries `g` on to
another order: a new node gets a place between its neighbours (`AddOrder`, with
all others moved apart), a node that is taken out leaves its bounds to its child
(`TakeOutOrder`). The keys grow along `g` (`KeysInv`), apart from a node that
has given its key to the one before it and waits to be marked and taken out.

`OrderInv(g)` adds what this rests on. A node that waits to be added fits
between its neighbours, now and until it is there (`AddsInv`): no other node can
come between, for that gap has one null pointer, and its word is taken. A
relocation moves the key of the node right after its destination, as long as it
can still happen (`MovesInv`). And a thread on its way down knows more than
"this was a child": what it looks for belongs below the node it is at (`Upper`),
and not left of its last right turn *if the word of that node has not changed*
(`Good`), which is the test the code makes before it gives up (113-117).
`Course` says this for each place of the code, again in a form that the steps of
others leave true, because all a step can do to the order is `PlaceTurn`,
`KeysTurn` and `MovesTurn`.
`OrderStep` puts this together, and then there is a lemma for each action.
`Ordered` hides `g`, and `AlwaysOrdered` is the result the theorems follow from:
`BelowInBounds` for the order in reach; `KeysMove`, for the keys; and for what is
taken out of reach the three cases that no pointer changes, that one node is
added, and that one is taken out (`StillReach`, `AddReach`, `TakeOutReach`).

It also proves `NothingLost`: a node of the tree is in reach (`Joined`), so
that nothing that was linked is lost by a change above it.

`LockFreeSet_proofs` proves from all this that the non-blocking tree implements
`ConcurrentSet`, `IsASet`: `LSpec => ImplementsConcurrentSet`. First the set of
keys, which `LockFreeSet` reads off by a traversal, gets a local form: it has
the `FinalKey`s of the nodes that do not leave the tree (`Live`, `KeySetIs`, from
`NothingLost`). In this form a step changes it through the one node it works on.
Most leave it alone (`Idles`, with a lemma for each kind: finishing an insertion,
storing the key of a relocation, taking out a marked node, whoever does it and
however often). Three change it, and each once: the word an insertion
publishes (`Inserts`), the mark of a node (`Marks`), and the word that
reaches the destination of a relocation (`Reaches`), where the key to be removed
goes and the one that moves has its new place; announcing it changes nothing yet
(`Announces`). What `find` ends at decides what the set has: a key
found is one node's only (`Once`), a key not found is nobody's (`Absent`, from the
order of `LockFreeOrder_proofs`: it would have to be in the gap). `CallsInv` says
which helpers work for a thread's own update, and that a relocation is the own
update of one thread at most, so that its effect is one call's. Then there is a
lemma for each action: it is `Silent`, `Replies` or is an update (`Turned`), or a
call begins or returns. `SeenInv` relates the history `seen` to this, and each
kind is a step of `ConcurrentSet` (`SilentRefines`, `ReplyRefines`,
`UpdateRefines`, `EnterRefines`, `ReturnRefines`), where a relocation that a
helper completes is the step of the call it was announced by.

What stays with TLC: liveness everywhere, `ReturnsOrStuck` among it; the AVL
algorithm (recursion over trees); the fine-grained tree;
the shape and the answers of the tree over KCAS. `TagsLeadSomewhere` cannot be proved:
`kcas_stale` refutes it; `FailuresLeaveTags` is what is true instead.

## 6. Plan

1. `CoarseGrained`, `AVL`, `AtomicSet` and the proofs: done.
2. `LockFreeBST` with `ConcurrentSet`: done.
3. `FineGrained`: done, with a search beside an updater; of two updaters only
   the lost update is shown, for it breaks what else could be stated.
4. `KCAS` with `AtomicWords`: done; a third thread, for a helper of a helper, is
   covered by the proofs of its safety properties and not by a run.
5. `LockFreeAVL` with `ConcurrentSet`: done; a run with two calls a thread, or
   three threads on a small tree, is worth adding.
6. `BronsonAVL`: done as far as the code goes, with its safety property proved.
7. `Programs`: done for the AVL trees. The same programs over `LockFreeBST`
   would join two models; the set they are linearizable to is the same.
8. Proofs: `KCAS` done for copies, sequence numbers, the order of tagging,
   decisions, the refinement of `AtomicWords` and the tags left behind, `LockFreeAVL` for
   removed nodes, `LockFreeBST` for words, pointers, flags and marked nodes, for
   its order, growing keys, reach and the refinement of `ConcurrentSet` as well.
   Left is `ChangesAreVersioned` of `LockFreeAVL`.

## 7. Not modelled

Memory reclamation (`lockfree.cpp` and KCAS never free, `finegrained.cpp`
frees nodes others may hold, `sequential.cpp` calls `free` on objects made with
`new`), weak memory, destructors, printing and timing, `visualizer.py`,
`testSequentialSearch`. Of `finegrainedBronson.cpp` the descents, the rotations
and the height fixes (109-514, 577-630, 673-742, 787-828): no call of the public
functions reaches them, so a model of them would be about a program that is not
there. Keys below 1 in `lockfree2.cpp`. The sequence numbers of KCAS are unbounded in the model; in
the code they have 48 bits.
