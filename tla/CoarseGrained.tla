---------------------------- MODULE CoarseGrained ----------------------------
(***************************************************************************)
(* AVLTreeCG (src/coarsegrained.cpp): one AVL tree behind a readers-writer *)
(* lock built from two mutexes and a counter.  Each action is one step of  *)
(* one thread between two accesses to the shared variables; its name is    *)
(* the function and what the step does.                                    *)
(*                                                                         *)
(* The recursive helpers work on a whole tree at once.  Here they are      *)
(* operator parameters, described by what they do to the set of keys       *)
(* (HelpersAssumption); module AVL defines them as the code does and the   *)
(* model-checking module puts the two together.  While a helper runs the   *)
(* thread stays at "insert", "delete", "preOrder" or "search": another     *)
(* thread may do anything meanwhile, so that a missing lock shows.         *)
(***************************************************************************)
EXTENDS Integers, FiniteSets

CONSTANTS
    Threads,            \* the threads that share the tree
    Keys,               \* the keys they use
    NoThread,           \* the owner of a free mutex
    NoKey,              \* the argument of a thread that is calling nothing
    Trees, NilTree,     \* the values root can have; nullptr
    Contents(_),        \* the keys in a tree
    InsertHelper(_, _), \* [root, err] that insertHelper(root, key, err) leaves
    DeleteHelper(_, _), \* [root, err] that deleteHelper(root, key, err) leaves
    SearchHelper(_, _)  \* the answer of searchHelper(root, key)

ASSUME ThreadsAssumption == IsFiniteSet(Threads) /\ NoThread \notin Threads

ASSUME HelpersAssumption ==
    /\ NilTree \in Trees
    /\ Contents(NilTree) = {}
    /\ \A tree \in Trees :
         /\ Contents(tree) \subseteq Keys
         /\ \A k \in Keys :
              /\ InsertHelper(tree, k) \in [root : Trees, err : BOOLEAN]
              /\ Contents(InsertHelper(tree, k).root) = Contents(tree) \cup {k}
              /\ InsertHelper(tree, k).err = (k \in Contents(tree))
              /\ DeleteHelper(tree, k) \in [root : Trees, err : BOOLEAN]
              /\ Contents(DeleteHelper(tree, k).root) = Contents(tree) \ {k}
              /\ k \notin Contents(tree) => DeleteHelper(tree, k).err
              /\ SearchHelper(tree, k) = (k \in Contents(tree))

VARIABLES
    root,       \* the tree
    readLock,   \* owner of the mutex that protects readCount
    writeLock,  \* owner of the mutex held by a writer or by the readers
    readCount,  \* readers that have entered and not left
    pc,         \* pc[t]: the next step of thread t
    op,         \* op[t]: the public function t is executing, "none" outside
    key,        \* key[t]: its argument
    result      \* result[t]: !err or found, once known

vars == <<root, readLock, writeLock, readCount, pc, op, key, result>>

Ops == {"insert", "delete", "search", "preOrder"}
Writes == {"insert", "delete", "preOrder"}

WriterPCs == {"startWrite", "insert", "delete", "preOrder", "endWrite"}
ReaderPCs == {"startRead", "startRead:inc", "startRead:test", "startRead:first",
              "startRead:unlock", "search", "endRead", "endRead:dec",
              "endRead:test", "endRead:last", "endRead:unlock"}

NoOp == "none"

Init ==
    /\ root = NilTree
    /\ readLock = NoThread
    /\ writeLock = NoThread
    /\ readCount = 0
    /\ pc = [t \in Threads |-> "idle"]
    /\ op = [t \in Threads |-> NoOp]
    /\ key = [t \in Threads |-> NoKey]
    /\ result = [t \in Threads |-> FALSE]

-----------------------------------------------------------------------------

Goto(t, from, to) == pc[t] = from /\ pc' = [pc EXCEPT ![t] = to]

(* lock() blocks while another thread owns the mutex; unlock() frees it    *)
(* whoever owns it, which is what a default pthread mutex does.            *)
Lock(mutex, t) == mutex = NoThread /\ mutex' = t
Unlock(mutex)  == mutex' = NoThread

Call(t, o, k) ==
    /\ Goto(t, "idle", IF o \in Writes THEN "startWrite" ELSE "startRead")
    /\ op' = [op EXCEPT ![t] = o]
    /\ key' = [key EXCEPT ![t] = k]
    /\ UNCHANGED <<root, readLock, writeLock, readCount, result>>

(* The answer is handed to the caller and the frame is gone. *)
Return(t) ==
    /\ op' = [op EXCEPT ![t] = NoOp]
    /\ key' = [key EXCEPT ![t] = NoKey]
    /\ result' = [result EXCEPT ![t] = FALSE]

(* The function the thread runs is over: it calls the tree no more. *)
Exit(t) ==
    /\ Goto(t, "idle", "exited")
    /\ UNCHANGED <<root, readLock, writeLock, readCount, op, key, result>>

-----------------------------------------------------------------------------
(* Readers *)

StartReadLock(t) ==
    /\ Goto(t, "startRead", "startRead:inc")
    /\ Lock(readLock, t)
    /\ UNCHANGED <<root, writeLock, readCount, op, key, result>>

StartReadInc_Forgotten(t) ==
    /\ Goto(t, "startRead:inc", "startRead:test")
    /\ UNCHANGED <<root, readLock, writeLock, readCount, op, key, result>>

StartReadInc(t) ==
    /\ Goto(t, "startRead:inc", "startRead:test")
    /\ readCount' = readCount + 1
    /\ UNCHANGED <<root, readLock, writeLock, op, key, result>>

StartReadTest(t) ==
    /\ Goto(t, "startRead:test",
            IF readCount = 1 THEN "startRead:first" ELSE "startRead:unlock")
    /\ UNCHANGED <<root, readLock, writeLock, readCount, op, key, result>>

StartReadFirst(t) ==
    /\ Goto(t, "startRead:first", "startRead:unlock")
    /\ Lock(writeLock, t)
    /\ UNCHANGED <<root, readLock, readCount, op, key, result>>

StartReadUnlock(t) ==
    /\ Goto(t, "startRead:unlock", "search")
    /\ Unlock(readLock)
    /\ UNCHANGED <<root, writeLock, readCount, op, key, result>>

Search(t) ==
    /\ Goto(t, "search", "endRead")
    /\ result' = [result EXCEPT ![t] = SearchHelper(root, key[t])]
    /\ UNCHANGED <<root, readLock, writeLock, readCount, op, key>>

EndReadLock(t) ==
    /\ Goto(t, "endRead", "endRead:dec")
    /\ Lock(readLock, t)
    /\ UNCHANGED <<root, writeLock, readCount, op, key, result>>

EndReadDec(t) ==
    /\ Goto(t, "endRead:dec", "endRead:test")
    /\ readCount' = readCount - 1
    /\ UNCHANGED <<root, readLock, writeLock, op, key, result>>

EndReadTest_OffByOne(t) ==
    /\ Goto(t, "endRead:test",
            IF readCount <= 1 THEN "endRead:last" ELSE "endRead:unlock")
    /\ UNCHANGED <<root, readLock, writeLock, readCount, op, key, result>>

EndReadTest(t) ==
    /\ Goto(t, "endRead:test",
            IF readCount = 0 THEN "endRead:last" ELSE "endRead:unlock")
    /\ UNCHANGED <<root, readLock, writeLock, readCount, op, key, result>>

EndReadLast_KeepsLock(t) ==
    /\ Goto(t, "endRead:last", "endRead:unlock")
    /\ UNCHANGED <<root, readLock, writeLock, readCount, op, key, result>>

EndReadLast(t) ==
    /\ Goto(t, "endRead:last", "endRead:unlock")
    /\ Unlock(writeLock)
    /\ UNCHANGED <<root, readLock, readCount, op, key, result>>

EndReadUnlock(t) ==
    /\ Goto(t, "endRead:unlock", "idle")
    /\ Unlock(readLock)
    /\ Return(t)
    /\ UNCHANGED <<root, writeLock, readCount>>

-----------------------------------------------------------------------------
(* Writers *)

StartWrite(t) ==
    /\ Goto(t, "startWrite", op[t])
    /\ Lock(writeLock, t)
    /\ UNCHANGED <<root, readLock, readCount, op, key, result>>

Insert(t) ==
    /\ Goto(t, "insert", "endWrite")
    /\ LET after == InsertHelper(root, key[t])
       IN  /\ root' = after.root
           /\ result' = [result EXCEPT ![t] = ~after.err]
    /\ UNCHANGED <<readLock, writeLock, readCount, op, key>>

DeleteNode_IgnoresErr(t) ==
    /\ Goto(t, "delete", "endWrite")
    /\ root' = DeleteHelper(root, key[t]).root
    /\ result' = [result EXCEPT ![t] = TRUE]
    /\ UNCHANGED <<readLock, writeLock, readCount, op, key>>

DeleteNode(t) ==
    /\ Goto(t, "delete", "endWrite")
    /\ LET after == DeleteHelper(root, key[t])
       IN  /\ root' = after.root
           /\ result' = [result EXCEPT ![t] = ~after.err]
    /\ UNCHANGED <<readLock, writeLock, readCount, op, key>>

PreOrder(t) ==
    /\ Goto(t, "preOrder", "endWrite")
    /\ UNCHANGED <<root, readLock, writeLock, readCount, op, key, result>>

EndWrite(t) ==
    /\ Goto(t, "endWrite", "idle")
    /\ Unlock(writeLock)
    /\ Return(t)
    /\ UNCHANGED <<root, readLock, readCount>>

-----------------------------------------------------------------------------

Read(t) ==
    \/ StartReadLock(t) \/ StartReadInc(t) \/ StartReadTest(t)
    \/ StartReadFirst(t) \/ StartReadUnlock(t)
    \/ Search(t)
    \/ EndReadLock(t) \/ EndReadDec(t) \/ EndReadTest(t)
    \/ EndReadLast(t) \/ EndReadUnlock(t)

Write(t) ==
    StartWrite(t) \/ Insert(t) \/ DeleteNode(t) \/ PreOrder(t) \/ EndWrite(t)

Begin(t) == \E o \in Ops, k \in Keys : Call(t, o, k)

Next == \E t \in Threads : Begin(t) \/ Exit(t) \/ Read(t) \/ Write(t)

Spec == Init /\ [][Next]_vars

(* The scheduler runs every thread that can run; nothing makes a mutex     *)
(* fair, and nothing makes a thread call the tree again.                   *)
Fairness == \A t \in Threads : WF_vars(Read(t) \/ Write(t))

FairSpec == Spec /\ Fairness

-----------------------------------------------------------------------------
(* Properties *)

TypeOK ==
    /\ root \in Trees
    /\ readLock \in Threads \cup {NoThread}
    /\ writeLock \in Threads \cup {NoThread}
    /\ readCount \in Nat
    /\ pc \in [Threads -> {"idle", "exited"} \cup ReaderPCs \cup WriterPCs]
    /\ op \in [Threads -> Ops \cup {NoOp}]
    /\ key \in [Threads -> Keys \cup {NoKey}]
    /\ result \in [Threads -> BOOLEAN]

(* A thread inside insertHelper, deleteHelper or preOrderHelper is alone   *)
(* in the tree: no other thread is inside any of the helpers.  This is     *)
(* what the two mutexes are for (coarsegrained.cpp:19-43).                 *)
InWrite(t) == pc[t] \in {"insert", "delete", "preOrder"}
InRead(t)  == pc[t] = "search"

WriterIsAlone ==
    \A t, u \in Threads : InWrite(t) /\ t # u => ~InWrite(u) /\ ~InRead(u)

(* Whenever no thread is inside startRead or endRead, the readers own      *)
(* writeLock exactly when readCount is positive: the lock is neither kept  *)
(* after the last reader nor given back before it.                         *)
Writing(t) == pc[t] \in {"insert", "delete", "preOrder", "endWrite"}

ReadersHoldWriteLock ==
    readLock = NoThread =>
      ((readCount > 0) <=> (writeLock # NoThread /\ \A t \in Threads : ~Writing(t)))

(* Every call returns once threads stop calling: neither mutex is left     *)
(* locked by a call that has returned, and the wait of a first reader for  *)
(* writeLock, with readLock in its hand, is always ended by the writer.    *)
CallsReturn ==
    <>[][\A t \in Threads : ~Begin(t)]_vars
       => <>[](\A t \in Threads : pc[t] \in {"idle", "exited"})

(* The tree is an atomic set.  A write takes effect when its helper runs,  *)
(* a search when it descends; preOrder is not an operation of the set.     *)
(* deleteHelper also sets err when the node it frees is a leaf (lines      *)
(* 147-149 and 160-163), so that a delete that removed its key may answer  *)
(* FALSE: a delete that answers TRUE did remove the key, one that answers  *)
(* FALSE says nothing.                                                     *)
AbstractCall(t) ==
    IF op[t] \in {NoOp, "preOrder"} THEN [state |-> "idle"]
    ELSE IF pc[t] \in {"endWrite", "endRead", "endRead:dec", "endRead:test",
                       "endRead:last", "endRead:unlock"}
    THEN [state |-> "decided", op |-> op[t], key |-> key[t], result |-> result[t]]
    ELSE [state |-> "pending", op |-> op[t], key |-> key[t]]

DeleteReport(present) == IF present THEN BOOLEAN ELSE {FALSE}

Abstract == INSTANCE AtomicSet WITH
    set <- Contents(root),
    call <- [t \in Threads |-> AbstractCall(t)]

ImplementsAtomicSet == Abstract!ASpec
=============================================================================
