------------------------ MODULE CoarseGrained_proofs ------------------------
(***************************************************************************)
(* Proofs about CoarseGrained for any number of threads and keys and any   *)
(* tree whose helpers satisfy HelpersAssumption.                           *)
(***************************************************************************)
EXTENDS CoarseGrained, FiniteSetTheorems, TLAPS

(* Where a thread owns readLock. *)
InGate == {"startRead:inc", "startRead:test", "startRead:first",
           "startRead:unlock", "endRead:dec", "endRead:test",
           "endRead:last", "endRead:unlock"}

(* Where a thread is counted in readCount. *)
CountedPCs == {"startRead:test", "startRead:first", "startRead:unlock",
               "search", "endRead", "endRead:dec"}
Counted == {t \in Threads : pc[t] \in CountedPCs}

(* Where a reader relies on the readers owning writeLock. *)
SharingPCs == {"startRead:unlock", "search", "endRead", "endRead:dec",
               "endRead:test", "endRead:last"}
Sharing(t) == pc[t] \in SharingPCs

(* The program counter agrees with the function being executed. *)
FrameInv ==
    \A t \in Threads :
        /\ pc[t] \in {"idle", "exited"} <=> op[t] = NoOp
        /\ pc[t] \in ReaderPCs => op[t] = "search"
        /\ pc[t] \in WriterPCs => op[t] \in Writes
        /\ InWrite(t) => op[t] = pc[t]
        /\ op[t] # NoOp => key[t] \in Keys

GateInv == \A t \in Threads : pc[t] \in InGate <=> readLock = t

CountInv == readCount = Cardinality(Counted)

LastInv == \A t \in Threads : pc[t] = "endRead:last" => readCount = 0

WriterInv == \A t \in Threads : Writing(t) => writeLock = t

SharingInv ==
    \A t \in Threads :
        Sharing(t) => writeLock # NoThread /\ \A u \in Threads : ~Writing(u)

NotLostInv ==
    writeLock # NoThread => \E t \in Threads : Writing(t) \/ Sharing(t)

Inv ==
    /\ TypeOK /\ FrameInv
    /\ GateInv /\ CountInv /\ LastInv
    /\ WriterInv /\ SharingInv /\ NotLostInv

-----------------------------------------------------------------------------

(* Initially every variable has a value of its type. *)
LEMMA InitType == Init => TypeOK
BY HelpersAssumption DEF Init, TypeOK, NoOp

(* A step of any thread keeps every variable in its type: the counter does *)
(* not drop below zero because the thread that decrements it is counted.   *)
LEMMA NextType == ASSUME TypeOK, FrameInv, CountInv, [Next]_vars PROVE TypeOK'
<1>1. CASE UNCHANGED vars
  BY <1>1 DEF vars, TypeOK
<1>2. ASSUME NEW t \in Threads, NEW o \in Ops, NEW k \in Keys, Call(t, o, k)
      PROVE  TypeOK'
  BY <1>2 DEF Call, Goto, TypeOK, Ops, Writes, NoOp, ReaderPCs, WriterPCs
<1>3. ASSUME NEW t \in Threads, Exit(t) PROVE TypeOK'
  BY <1>3 DEF Exit, Goto, TypeOK
<1>4. ASSUME NEW t \in Threads, Read(t) PROVE TypeOK'
  <2>1. CASE StartReadLock(t)
    BY <2>1 DEF StartReadLock, Goto, Lock, TypeOK, ReaderPCs
  <2>2. CASE StartReadInc(t)
    BY <2>2 DEF StartReadInc, Goto, TypeOK, ReaderPCs
  <2>3. CASE StartReadTest(t)
    BY <2>3 DEF StartReadTest, Goto, TypeOK, ReaderPCs
  <2>4. CASE StartReadFirst(t)
    BY <2>4 DEF StartReadFirst, Goto, Lock, TypeOK, ReaderPCs
  <2>5. CASE StartReadUnlock(t)
    BY <2>5 DEF StartReadUnlock, Goto, Unlock, TypeOK, ReaderPCs
  <2>6. CASE Search(t)
    <3>1. key[t] \in Keys
      BY <2>6 DEF Search, Goto, FrameInv, TypeOK, NoOp, Ops
    <3>2. SearchHelper(root, key[t]) \in BOOLEAN
      BY <3>1, HelpersAssumption DEF TypeOK
    <3> QED BY <2>6, <3>2 DEF Search, Goto, TypeOK, ReaderPCs
  <2>7. CASE EndReadLock(t)
    BY <2>7 DEF EndReadLock, Goto, Lock, TypeOK, ReaderPCs
  <2>8. CASE EndReadDec(t)
    <3>1. readCount # 0
      <4>1. t \in Counted
        BY <2>8 DEF EndReadDec, Goto, Counted, CountedPCs
      <4>2. IsFiniteSet(Counted)
        BY ThreadsAssumption, FS_Subset DEF Counted
      <4> QED BY <4>1, <4>2, FS_EmptySet DEF CountInv
    <3> QED BY <2>8, <3>1 DEF EndReadDec, Goto, TypeOK, ReaderPCs
  <2>9. CASE EndReadTest(t)
    BY <2>9 DEF EndReadTest, Goto, TypeOK, ReaderPCs
  <2>10. CASE EndReadLast(t)
    BY <2>10 DEF EndReadLast, Goto, Unlock, TypeOK, ReaderPCs
  <2>11. CASE EndReadUnlock(t)
    BY <2>11 DEF EndReadUnlock, Goto, Unlock, Return, TypeOK
  <2> QED
    BY <1>4, <2>1, <2>2, <2>3, <2>4, <2>5, <2>6, <2>7, <2>8, <2>9, <2>10, <2>11
    DEF Read
<1>5. ASSUME NEW t \in Threads, Write(t) PROVE TypeOK'
  <2>1. CASE StartWrite(t)
    <3>1. op[t] \in WriterPCs
      BY <2>1 DEF StartWrite, Goto, FrameInv, Writes, WriterPCs
    <3> QED BY <2>1, <3>1 DEF StartWrite, Goto, Lock, TypeOK
  <2>2. CASE Insert(t) \/ DeleteNode(t)
    <3>1. key[t] \in Keys
      BY <2>2 DEF Insert, DeleteNode, Goto, FrameInv, NoOp
    <3>2. /\ InsertHelper(root, key[t]) \in [root : Trees, err : BOOLEAN]
          /\ DeleteHelper(root, key[t]) \in [root : Trees, err : BOOLEAN]
      BY <3>1, HelpersAssumption DEF TypeOK
    <3> QED BY <2>2, <3>2 DEF Insert, DeleteNode, Goto, TypeOK, WriterPCs
  <2>3. CASE PreOrder(t)
    BY <2>3 DEF PreOrder, Goto, TypeOK, WriterPCs
  <2>4. CASE EndWrite(t)
    BY <2>4 DEF EndWrite, Goto, Unlock, Return, TypeOK
  <2> QED BY <1>5, <2>1, <2>2, <2>3, <2>4 DEF Write
<1> QED BY <1>1, <1>2, <1>3, <1>4, <1>5 DEF Next, Begin

(* A step leaves each thread's program counter and function in agreement.  *)
LEMMA NextFrame == ASSUME TypeOK, FrameInv, [Next]_vars PROVE FrameInv'
<1> USE DEF ReaderPCs, WriterPCs, Writes, InWrite, NoOp
<1>1. CASE UNCHANGED vars
  BY <1>1 DEF vars, FrameInv
<1>2. ASSUME NEW t \in Threads, NEW o \in Ops, NEW k \in Keys, Call(t, o, k)
      PROVE  FrameInv'
  BY <1>2 DEF Call, Goto, FrameInv, TypeOK, Ops
<1>3. ASSUME NEW t \in Threads, Exit(t) PROVE FrameInv'
  BY <1>3 DEF Exit, Goto, FrameInv, TypeOK
<1>4. ASSUME NEW t \in Threads, Read(t) PROVE FrameInv'
  <2>1. CASE StartReadLock(t) \/ StartReadInc(t) \/ StartReadTest(t)
             \/ StartReadFirst(t) \/ StartReadUnlock(t)
    BY <2>1 DEF StartReadLock, StartReadInc, StartReadTest, StartReadFirst,
                StartReadUnlock, Goto, FrameInv, TypeOK
  <2>2. CASE Search(t) \/ EndReadLock(t) \/ EndReadDec(t) \/ EndReadTest(t)
             \/ EndReadLast(t)
    BY <2>2 DEF Search, EndReadLock, EndReadDec, EndReadTest, EndReadLast,
                Goto, FrameInv, TypeOK
  <2>3. CASE EndReadUnlock(t)
    BY <2>3 DEF EndReadUnlock, Return, Goto, FrameInv, TypeOK
  <2> QED BY <1>4, <2>1, <2>2, <2>3 DEF Read
<1>5. ASSUME NEW t \in Threads, Write(t) PROVE FrameInv'
  <2>1. CASE StartWrite(t)
    BY <2>1 DEF StartWrite, Goto, FrameInv, TypeOK
  <2>2. CASE Insert(t) \/ DeleteNode(t) \/ PreOrder(t)
    BY <2>2 DEF Insert, DeleteNode, PreOrder, Goto, FrameInv, TypeOK
  <2>3. CASE EndWrite(t)
    BY <2>3 DEF EndWrite, Return, Goto, FrameInv, TypeOK
  <2> QED BY <1>5, <2>1, <2>2, <2>3 DEF Write
<1> QED BY <1>1, <1>2, <1>3, <1>4, <1>5 DEF Next, Begin
-----------------------------------------------------------------------------
(* The steps by the lock variables they touch. *)

(* Steps that leave both mutexes and the counter alone, outside the gate.  *)
Private(t) ==
    \/ Begin(t) \/ Exit(t) \/ Search(t)
    \/ Insert(t) \/ DeleteNode(t) \/ PreOrder(t)

Steps(t) ==
    \/ Private(t)
    \/ StartReadLock(t) \/ StartReadInc(t) \/ StartReadTest(t)
    \/ StartReadFirst(t) \/ StartReadUnlock(t)
    \/ EndReadLock(t) \/ EndReadDec(t) \/ EndReadTest(t)
    \/ EndReadLast(t) \/ EndReadUnlock(t)
    \/ StartWrite(t) \/ EndWrite(t)

LEMMA NextSteps == Next <=> \E t \in Threads : Steps(t)
BY DEF Next, Read, Write, Steps, Private

(* Only the owner of readLock is between its lock and its unlock. *)
LEMMA NextGate == ASSUME TypeOK, FrameInv, GateInv, [Next]_vars PROVE GateInv'
<1> USE ThreadsAssumption DEF InGate
<1>1. CASE UNCHANGED vars
  BY <1>1 DEF vars, GateInv
<1>2. ASSUME NEW t \in Threads, Steps(t) PROVE GateInv'
  <2>1. CASE Private(t)
    <3>1. ASSUME NEW o \in Ops, NEW k \in Keys, Call(t, o, k) PROVE GateInv'
      BY <3>1 DEF Call, Goto, GateInv, TypeOK
    <3>2. CASE Exit(t) \/ Search(t) \/ Insert(t) \/ DeleteNode(t) \/ PreOrder(t)
      BY <3>2 DEF Exit, Search, Insert, DeleteNode, PreOrder, Goto, GateInv, TypeOK
    <3> QED BY <2>1, <3>1, <3>2 DEF Private, Begin
  <2>2. CASE StartReadLock(t) \/ EndReadLock(t)
    BY <2>2 DEF StartReadLock, EndReadLock, Lock, Goto, GateInv, TypeOK
  <2>3. CASE StartReadInc(t) \/ StartReadTest(t) \/ StartReadFirst(t)
    BY <2>3 DEF StartReadInc, StartReadTest, StartReadFirst, Goto, GateInv, TypeOK
  <2>4. CASE EndReadDec(t) \/ EndReadTest(t) \/ EndReadLast(t)
    BY <2>4 DEF EndReadDec, EndReadTest, EndReadLast, Goto, GateInv, TypeOK
  <2>5. CASE StartReadUnlock(t) \/ EndReadUnlock(t)
    BY <2>5 DEF StartReadUnlock, EndReadUnlock, Unlock, Goto, GateInv, TypeOK
  <2>6. CASE StartWrite(t)
    <3>1. op[t] \in Writes
      BY <2>6 DEF StartWrite, Goto, FrameInv, WriterPCs
    <3> QED BY <2>6, <3>1 DEF StartWrite, Goto, GateInv, TypeOK, Writes
  <2>7. CASE EndWrite(t)
    BY <2>7 DEF EndWrite, Goto, GateInv, TypeOK
  <2> QED BY <1>2, <2>1, <2>2, <2>3, <2>4, <2>5, <2>6, <2>7 DEF Steps
<1> QED BY <1>1, <1>2, NextSteps

(* readCount counts the readers between its two updates, and a reader that *)
(* found it 0 and is about to free writeLock still finds it 0.             *)
LEMMA NextCount ==
    ASSUME TypeOK, FrameInv, GateInv, CountInv, LastInv, [Next]_vars
    PROVE  CountInv' /\ LastInv'
<1> USE DEF CountedPCs
<1>0. IsFiniteSet(Counted)
  BY ThreadsAssumption, FS_Subset DEF Counted
<1>1. CASE UNCHANGED vars
  BY <1>1 DEF vars, CountInv, LastInv, Counted
<1>2. ASSUME NEW t \in Threads, Steps(t) PROVE CountInv' /\ LastInv'
  <2>1. CASE Private(t)
    <3>1. ASSUME NEW o \in Ops, NEW k \in Keys, Call(t, o, k)
          PROVE  CountInv' /\ LastInv'
      <4>1. Counted' = Counted
        BY <3>1 DEF Call, Goto, Counted, TypeOK
      <4> QED BY <3>1, <4>1 DEF Call, Goto, CountInv, LastInv, TypeOK
    <3>2. CASE Exit(t) \/ Search(t) \/ Insert(t) \/ DeleteNode(t) \/ PreOrder(t)
      <4>1. Counted' = Counted
        BY <3>2 DEF Exit, Search, Insert, DeleteNode, PreOrder, Goto, Counted, TypeOK
      <4> QED BY <3>2, <4>1 DEF Exit, Search, Insert, DeleteNode, PreOrder, Goto,
                                CountInv, LastInv, TypeOK
    <3> QED BY <2>1, <3>1, <3>2 DEF Private, Begin
  <2>2. CASE StartReadInc(t)
    <3>1. Counted' = Counted \cup {t} /\ t \notin Counted
      BY <2>2 DEF StartReadInc, Goto, Counted, TypeOK
    <3>2. CountInv'
      BY <1>0, <2>2, <3>1, FS_AddElement DEF StartReadInc, CountInv
    <3>3. LastInv'
      BY <2>2 DEF StartReadInc, Goto, GateInv, LastInv, TypeOK, InGate
    <3> QED BY <3>2, <3>3
  <2>3. CASE EndReadDec(t)
    <3>1. Counted' = Counted \ {t} /\ t \in Counted
      BY <2>3 DEF EndReadDec, Goto, Counted, TypeOK
    <3>2. CountInv'
      BY <1>0, <2>3, <3>1, FS_RemoveElement DEF EndReadDec, CountInv
    <3>3. LastInv'
      BY <2>3 DEF EndReadDec, Goto, GateInv, LastInv, TypeOK, InGate
    <3> QED BY <3>2, <3>3
  <2>4. CASE StartReadLock(t) \/ StartReadTest(t) \/ StartReadFirst(t)
             \/ StartReadUnlock(t)
    <3>1. Counted' = Counted
      BY <2>4 DEF StartReadLock, StartReadTest, StartReadFirst, StartReadUnlock,
                  Goto, Counted, TypeOK
    <3> QED BY <2>4, <3>1 DEF StartReadLock, StartReadTest, StartReadFirst,
                              StartReadUnlock, Goto, CountInv, LastInv, TypeOK
  <2>5. CASE EndReadLock(t) \/ EndReadTest(t) \/ EndReadLast(t) \/ EndReadUnlock(t)
    <3>1. Counted' = Counted
      BY <2>5 DEF EndReadLock, EndReadTest, EndReadLast, EndReadUnlock,
                  Goto, Counted, TypeOK
    <3> QED BY <2>5, <3>1 DEF EndReadLock, EndReadTest, EndReadLast,
                              EndReadUnlock, Goto, CountInv, LastInv, TypeOK
  <2>6. CASE StartWrite(t)
    <3>1. op[t] \in Writes
      BY <2>6 DEF StartWrite, Goto, FrameInv, WriterPCs
    <3>2. Counted' = Counted
      BY <2>6, <3>1 DEF StartWrite, Goto, Counted, TypeOK, Writes
    <3> QED BY <2>6, <3>1, <3>2 DEF StartWrite, Goto, CountInv, LastInv, TypeOK, Writes
  <2>7. CASE EndWrite(t)
    <3>1. Counted' = Counted
      BY <2>7 DEF EndWrite, Goto, Counted, TypeOK
    <3> QED BY <2>7, <3>1 DEF EndWrite, Goto, CountInv, LastInv, TypeOK
  <2> QED BY <1>2, <2>1, <2>2, <2>3, <2>4, <2>5, <2>6, <2>7 DEF Steps
<1> QED BY <1>1, <1>2, NextSteps
(* A second member of Counted, seen by the owner of readLock, is reading   *)
(* or waiting to leave: it relies on the readers owning writeLock.         *)
LEMMA OtherReader ==
    ASSUME TypeOK, GateInv, CountInv, NEW t \in Threads, readLock = t,
           \/ t \in Counted /\ readCount # 1
           \/ t \notin Counted /\ readCount # 0
    PROVE  \E u \in Threads : u # t /\ Sharing(u)
<1>1. IsFiniteSet(Counted)
  BY ThreadsAssumption, FS_Subset DEF Counted
<1>2. PICK u \in Counted : u # t
  <2>1. CASE t \in Counted /\ readCount # 1
    <3>1. Counted # {t}
      BY <2>1, FS_Singleton DEF CountInv
    <3> QED BY <2>1, <3>1
  <2>2. CASE t \notin Counted /\ readCount # 0
    <3>1. Counted # {}
      BY <2>2, FS_EmptySet DEF CountInv
    <3> QED BY <2>2, <3>1
  <2> QED BY <2>1, <2>2
<1>3. pc[u] \in CountedPCs /\ pc[u] \notin InGate
  BY <1>2 DEF Counted, GateInv
<1> QED BY <1>2, <1>3 DEF Counted, CountedPCs, InGate, Sharing, SharingPCs

(* When the count is 0, a thread that relies on the readers owning         *)
(* writeLock is inside the gate.                                           *)
LEMMA NoReader ==
    ASSUME TypeOK, GateInv, CountInv, readCount = 0,
           NEW t \in Threads, readLock = t, NEW u \in Threads, Sharing(u)
    PROVE  u = t
<1>1. Counted = {}
  BY ThreadsAssumption, FS_Subset, FS_EmptySet DEF CountInv, Counted
<1>2. pc[u] \notin CountedPCs
  BY <1>1 DEF Counted
<1> QED BY <1>2 DEF CountedPCs, Sharing, SharingPCs, GateInv, InGate

MutexInv == WriterInv /\ SharingInv /\ NotLostInv

(* The three facts about writeLock survive every step: a writer holds it   *)
(* and excludes readers, the readers hold it together from the first to    *)
(* the last, and it is never held by nobody.                               *)
LEMMA NextMutex ==
    ASSUME TypeOK, FrameInv, GateInv, CountInv, LastInv, MutexInv, [Next]_vars
    PROVE  MutexInv'
<1> USE ThreadsAssumption DEF Writing, Sharing, SharingPCs
<1>1. CASE UNCHANGED vars
  BY <1>1 DEF vars, MutexInv, WriterInv, SharingInv, NotLostInv
<1>2. ASSUME NEW t \in Threads, Steps(t) PROVE MutexInv'
  <2> DEFINE Same == /\ writeLock' = writeLock
                     /\ \A u \in Threads : /\ Writing(u)' <=> Writing(u)
                                           /\ Sharing(u)' <=> Sharing(u)
  <2>0. ASSUME Same PROVE MutexInv'
    BY <2>0 DEF MutexInv, WriterInv, SharingInv, NotLostInv
  <2>1. CASE Private(t)
    <3>1. ASSUME NEW o \in Ops, NEW k \in Keys, Call(t, o, k) PROVE Same
      BY <3>1 DEF Call, Goto, TypeOK
    <3>2. CASE Exit(t) \/ Search(t) \/ Insert(t) \/ DeleteNode(t) \/ PreOrder(t)
      <4>1. Same
        BY <3>2 DEF Exit, Search, Insert, DeleteNode, PreOrder, Goto, TypeOK
      <4> QED BY <2>0, <4>1
    <3> HIDE DEF Same
    <3> QED BY <2>0, <2>1, <3>1, <3>2 DEF Private, Begin
  <2>2. CASE StartReadLock(t) \/ StartReadInc(t) \/ StartReadUnlock(t)
             \/ EndReadLock(t) \/ EndReadDec(t) \/ EndReadUnlock(t)
    <3>1. Same
      BY <2>2 DEF StartReadLock, StartReadInc, StartReadUnlock,
                  EndReadLock, EndReadDec, EndReadUnlock, Goto, TypeOK
    <3> QED BY <2>0, <3>1
  <2>3. CASE StartReadTest(t)
    <3>1. CASE readCount = 1
      <4>1. Same
        BY <2>3, <3>1 DEF StartReadTest, Goto, TypeOK
      <4> QED BY <2>0, <4>1
    <3>2. CASE readCount # 1
      <4>1. \E u \in Threads : u # t /\ Sharing(u)
        BY <2>3, <3>2, OtherReader
        DEF StartReadTest, Goto, GateInv, InGate, Counted, CountedPCs
      <4>2. writeLock # NoThread /\ \A u \in Threads : ~Writing(u)
        BY <4>1 DEF MutexInv, SharingInv
      <4> QED BY <2>3, <3>2, <4>1, <4>2
              DEF StartReadTest, Goto, TypeOK, MutexInv, WriterInv, SharingInv, NotLostInv
    <3> QED BY <3>1, <3>2
  <2>4. CASE StartReadFirst(t)
    <3>1. \A u \in Threads : ~Writing(u)
      BY <2>4 DEF StartReadFirst, Lock, MutexInv, WriterInv
    <3> QED BY <2>4, <3>1 DEF StartReadFirst, Lock, Goto, TypeOK,
                              MutexInv, WriterInv, SharingInv, NotLostInv
  <2>5. CASE EndReadTest(t)
    <3>1. CASE readCount = 0
      <4>1. Same
        BY <2>5, <3>1 DEF EndReadTest, Goto, TypeOK
      <4> QED BY <2>0, <4>1
    <3>2. CASE readCount # 0
      <4>1. \E u \in Threads : u # t /\ Sharing(u)
        BY <2>5, <3>2, OtherReader
        DEF EndReadTest, Goto, GateInv, InGate, Counted, CountedPCs
      <4> QED BY <2>5, <3>2, <4>1 DEF EndReadTest, Goto, TypeOK,
                                      MutexInv, WriterInv, SharingInv, NotLostInv
    <3> QED BY <3>1, <3>2
  <2>6. CASE EndReadLast(t)
    <3>1. readLock = t /\ readCount = 0 /\ Sharing(t)
      BY <2>6 DEF EndReadLast, Goto, GateInv, InGate, LastInv
    <3>2. \A u \in Threads : ~Writing(u)
      BY <3>1 DEF MutexInv, SharingInv
    <3>3. \A u \in Threads : u # t => ~Sharing(u)
      BY <3>1, NoReader
    <3> QED BY <2>6, <3>2, <3>3 DEF EndReadLast, Unlock, Goto, TypeOK,
                                    MutexInv, WriterInv, SharingInv, NotLostInv
  <2>7. CASE StartWrite(t)
    <3>1. op[t] \in Writes
      BY <2>7 DEF StartWrite, Goto, FrameInv, WriterPCs
    <3>2. \A u \in Threads : ~Writing(u) /\ ~Sharing(u)
      BY <2>7 DEF StartWrite, Lock, MutexInv, WriterInv, SharingInv
    <3> QED BY <2>7, <3>1, <3>2 DEF StartWrite, Lock, Goto, TypeOK, Writes,
                                    MutexInv, WriterInv, SharingInv, NotLostInv
  <2>8. CASE EndWrite(t)
    <3>1. writeLock = t /\ \A u \in Threads : ~Sharing(u)
      BY <2>8 DEF EndWrite, Goto, MutexInv, WriterInv, SharingInv
    <3>2. \A u \in Threads : u # t => ~Writing(u)
      BY <3>1 DEF MutexInv, WriterInv
    <3> QED BY <2>8, <3>1, <3>2 DEF EndWrite, Unlock, Goto, TypeOK,
                                    MutexInv, WriterInv, SharingInv, NotLostInv
  <2> QED BY <1>2, <2>1, <2>2, <2>3, <2>4, <2>5, <2>6, <2>7, <2>8 DEF Steps
<1> QED BY <1>1, <1>2, NextSteps
-----------------------------------------------------------------------------

LEMMA InitInv == Init => Inv
<1> SUFFICES ASSUME Init PROVE Inv
  OBVIOUS
<1>1. TypeOK
  BY InitType
<1>2. FrameInv /\ GateInv /\ LastInv
  BY ThreadsAssumption DEF Init, FrameInv, GateInv, LastInv, InGate, ReaderPCs,
                           WriterPCs, InWrite, NoOp
<1>3. Counted = {}
  BY DEF Init, Counted, CountedPCs
<1>4. CountInv
  BY <1>3, FS_EmptySet DEF Init, CountInv
<1>5. WriterInv /\ SharingInv /\ NotLostInv
  BY DEF Init, WriterInv, SharingInv, NotLostInv, Writing, Sharing, SharingPCs
<1> QED BY <1>1, <1>2, <1>4, <1>5 DEF Inv

(* The strengthening of the safety properties that every step preserves. *)
THEOREM InvHolds == Spec => []Inv
<1>1. ASSUME Inv, [Next]_vars PROVE Inv'
  BY <1>1, NextType, NextFrame, NextGate, NextCount, NextMutex DEF Inv, MutexInv
<1> QED BY InitInv, <1>1, PTL DEF Spec

(* TypeOK: every variable of coarsegrained.cpp's model keeps to its type;  *)
(* in particular readCount never goes below zero.                          *)
THEOREM TypeCorrect == Spec => []TypeOK
BY InvHolds, PTL DEF Inv

(* WriterIsAlone: insertHelper, deleteHelper and preOrderHelper never run  *)
(* while another thread is in a helper, for any number of threads.         *)
THEOREM Exclusion == Spec => []WriterIsAlone
<1>1. Inv => WriterIsAlone
  BY DEF Inv, WriterInv, SharingInv, WriterIsAlone, InWrite, InRead, Writing,
         Sharing, SharingPCs
<1> QED BY <1>1, InvHolds, PTL

(* ReadersHoldWriteLock: with the gate free, readCount > 0 says that the   *)
(* readers own writeLock, and 0 that they do not.                          *)
THEOREM Accounting == Spec => []ReadersHoldWriteLock
<1>1. ASSUME Inv PROVE ReadersHoldWriteLock
  <2> SUFFICES ASSUME readLock = NoThread
               PROVE  readCount > 0 <=>
                        (writeLock # NoThread /\ \A t \in Threads : ~Writing(t))
    BY DEF ReadersHoldWriteLock
  <2>1. \A t \in Threads : pc[t] \notin InGate
    BY <1>1, ThreadsAssumption DEF Inv, GateInv
  <2>2. IsFiniteSet(Counted)
    BY ThreadsAssumption, FS_Subset DEF Counted
  <2>3. ASSUME readCount > 0
        PROVE  writeLock # NoThread /\ \A t \in Threads : ~Writing(t)
    <3>1. Counted # {}
      BY <1>1, <2>3, FS_EmptySet DEF Inv, CountInv
    <3>2. PICK u \in Threads : Sharing(u)
      BY <2>1, <3>1 DEF Counted, CountedPCs, InGate, Sharing, SharingPCs
    <3> QED BY <1>1, <3>2 DEF Inv, SharingInv
  <2>4. ASSUME writeLock # NoThread, \A t \in Threads : ~Writing(t)
        PROVE  readCount > 0
    <3>1. PICK u \in Threads : Sharing(u)
      BY <1>1, <2>4 DEF Inv, NotLostInv
    <3>2. u \in Counted
      BY <2>1, <3>1 DEF Sharing, SharingPCs, InGate, Counted, CountedPCs
    <3>3. Cardinality(Counted) # 0
      BY <2>2, <3>2, FS_EmptySet
    <3> QED BY <1>1, <3>3 DEF Inv, CountInv, TypeOK
  <2> QED BY <2>3, <2>4
<1> QED BY <1>1, InvHolds, PTL
-----------------------------------------------------------------------------
(* Refinement *)

DecidedPCs == {"endWrite", "endRead", "endRead:dec", "endRead:test",
               "endRead:last", "endRead:unlock"}

(* The steps that the abstract set does not see. *)
Invisible(t) ==
    \/ \E k \in Keys : Call(t, "preOrder", k)
    \/ Exit(t)
    \/ StartReadLock(t) \/ StartReadInc(t) \/ StartReadTest(t)
    \/ StartReadFirst(t) \/ StartReadUnlock(t)
    \/ EndReadLock(t) \/ EndReadDec(t) \/ EndReadTest(t) \/ EndReadLast(t)
    \/ StartWrite(t) \/ PreOrder(t)
    \/ (EndWrite(t) /\ op[t] = "preOrder")

(* Every step that is not a call is invisible, decides or returns. *)
LEMMA Visibility ==
    ASSUME NEW t \in Threads, Exit(t) \/ Read(t) \/ Write(t)
    PROVE  \/ Search(t) \/ Insert(t) \/ DeleteNode(t)
           \/ EndReadUnlock(t) \/ (EndWrite(t) /\ op[t] # "preOrder")
           \/ Invisible(t)
<1>1. CASE Exit(t)
  BY <1>1 DEF Invisible
<1>2. CASE Read(t)
  BY <1>2 DEF Read, Invisible
<1>3. CASE Write(t)
  BY <1>3 DEF Write, Invisible
<1> QED BY <1>1, <1>2, <1>3

LEMMA Stutters ==
    ASSUME TypeOK, FrameInv, NEW t \in Threads,
           Invisible(t)
    PROVE  UNCHANGED Abstract!avars
<1>1. ASSUME NEW u \in Threads PROVE AbstractCall(u)' = AbstractCall(u)
  <2>1. CASE (\E k \in Keys : Call(t, "preOrder", k)) \/ Exit(t)
    BY <2>1 DEF Call, Exit, Goto, AbstractCall, FrameInv, TypeOK, NoOp
  <2>2. CASE StartReadLock(t) \/ StartReadInc(t) \/ StartReadTest(t)
             \/ StartReadFirst(t) \/ StartReadUnlock(t)
    BY <2>2 DEF StartReadLock, StartReadInc, StartReadTest, StartReadFirst,
                StartReadUnlock, Goto, AbstractCall, TypeOK
  <2>3. CASE EndReadLock(t) \/ EndReadDec(t) \/ EndReadTest(t) \/ EndReadLast(t)
    BY <2>3 DEF EndReadLock, EndReadDec, EndReadTest, EndReadLast, Goto,
                AbstractCall, TypeOK
  <2>4. CASE StartWrite(t)
    BY <2>4 DEF StartWrite, Goto, AbstractCall, FrameInv, TypeOK, Writes, WriterPCs
  <2>5. CASE PreOrder(t)
    BY <2>5 DEF PreOrder, Goto, AbstractCall, FrameInv, InWrite, TypeOK
  <2>6. CASE EndWrite(t) /\ op[t] = "preOrder"
    BY <2>6 DEF EndWrite, Return, Goto, AbstractCall, TypeOK
  <2> QED BY <2>1, <2>2, <2>3, <2>4, <2>5, <2>6 DEF Invisible
<1>2. root' = root
  BY DEF Invisible, Call, Exit, StartReadLock, StartReadInc, StartReadTest, StartReadFirst,
         StartReadUnlock, EndReadLock, EndReadDec, EndReadTest, EndReadLast,
         StartWrite, PreOrder, EndWrite
<1> QED BY <1>1, <1>2 DEF Abstract!avars

(* A call of a set operation is an abstract call. *)
LEMMA CallRefines ==
    ASSUME TypeOK, FrameInv, NEW t \in Threads, NEW o \in Abstract!SetOps,
           NEW k \in Keys, Call(t, o, k)
    PROVE  Abstract!Call(t, o, k)
<1>1. ASSUME NEW u \in Threads, u # t PROVE AbstractCall(u)' = AbstractCall(u)
  BY <1>1 DEF Call, Goto, AbstractCall, TypeOK
<1>2. AbstractCall(t) = Abstract!NoCall
  BY DEF Call, Goto, AbstractCall, FrameInv, Abstract!NoCall
<1>3. AbstractCall(t)' = [state |-> "pending", op |-> o, key |-> k]
  BY DEF Call, Goto, AbstractCall, TypeOK, Abstract!SetOps, NoOp, Writes
<1>4. root' = root
  BY DEF Call
<1> QED BY <1>1, <1>2, <1>3, <1>4 DEF Abstract!Call

(* A helper's run is the instant at which the operation takes effect. *)
LEMMA DecideRefines ==
    ASSUME TypeOK, FrameInv, NEW t \in Threads,
           Search(t) \/ Insert(t) \/ DeleteNode(t)
    PROVE  Abstract!Decide(t)
<1> DEFINE o == op[t]
           k == key[t]
<1>0. k \in Keys /\ root \in Trees
  BY DEF Search, Insert, DeleteNode, Goto, FrameInv, TypeOK, ReaderPCs, InWrite, NoOp
<1>1. ASSUME NEW u \in Threads, u # t PROVE AbstractCall(u)' = AbstractCall(u)
  BY <1>1 DEF Search, Insert, DeleteNode, Goto, AbstractCall, TypeOK
<1>2. AbstractCall(t) = [state |-> "pending", op |-> o, key |-> k]
  BY DEF Search, Insert, DeleteNode, Goto, AbstractCall, FrameInv, ReaderPCs,
         InWrite, NoOp
<1>3. AbstractCall(t)' =
        [state |-> "decided", op |-> o, key |-> k, result |-> result'[t]]
  BY DEF Search, Insert, DeleteNode, Goto, AbstractCall, FrameInv, TypeOK,
         ReaderPCs, InWrite, NoOp
<1>4. /\ result'[t] \in Abstract!Answers(Contents(root), o, k)
      /\ Contents(root') = Abstract!After(Contents(root), o, k)
  <2>1. CASE Search(t)
    <3>1. o = "search"
      BY <2>1 DEF Search, Goto, FrameInv, ReaderPCs
    <3> QED BY <1>0, <2>1, <3>1, HelpersAssumption
            DEF Search, TypeOK, Abstract!Answers, Abstract!After
  <2>2. CASE Insert(t)
    <3>1. o = "insert"
      BY <2>2 DEF Insert, Goto, FrameInv, InWrite
    <3> QED BY <1>0, <2>2, <3>1, HelpersAssumption
            DEF Insert, TypeOK, Abstract!Answers, Abstract!After
  <2>3. CASE DeleteNode(t)
    <3>1. o = "delete"
      BY <2>3 DEF DeleteNode, Goto, FrameInv, InWrite
    <3>2. Contents(root') = Abstract!After(Contents(root), o, k)
      BY <1>0, <2>3, <3>1, HelpersAssumption DEF DeleteNode, Abstract!After
    <3>3. result'[t] = ~DeleteHelper(root, k).err
      BY <2>3 DEF DeleteNode, TypeOK
    <3>4. result'[t] \in DeleteReport(k \in Contents(root))
      BY <1>0, <3>3, HelpersAssumption DEF DeleteReport
    <3>5. result'[t] \in Abstract!Answers(Contents(root), o, k)
      BY <3>1, <3>4 DEF Abstract!Answers
    <3> QED BY <3>2, <3>5
  <2> QED BY <2>1, <2>2, <2>3
<1> DEFINE abs == [u \in Threads |-> AbstractCall(u)]
<1>5. abs[t].state = "pending" /\ abs[t].op = o /\ abs[t].key = k
  BY <1>2
<1>6. abs' = [abs EXCEPT ![t] = [state |-> "decided", op |-> o, key |-> k,
                                 result |-> result'[t]]]
  BY <1>1, <1>3
<1> HIDE DEF abs, o, k
<1>7. \E r \in Abstract!Answers(Contents(root), abs[t].op, abs[t].key) :
        abs' = [abs EXCEPT ![t] = [state |-> "decided", op |-> abs[t].op,
                                   key |-> abs[t].key, result |-> r]]
  BY <1>4, <1>5, <1>6
<1>8. Contents(root') = Abstract!After(Contents(root), abs[t].op, abs[t].key)
  BY <1>4, <1>5
<1> QED BY <1>5, <1>7, <1>8 DEF Abstract!Decide, abs

(* Leaving a set operation is the abstract return. *)
LEMMA ReturnRefines ==
    ASSUME TypeOK, FrameInv, NEW t \in Threads,
           EndReadUnlock(t) \/ (EndWrite(t) /\ op[t] # "preOrder")
    PROVE  Abstract!Return(t)
<1>1. ASSUME NEW u \in Threads, u # t PROVE AbstractCall(u)' = AbstractCall(u)
  BY <1>1 DEF EndReadUnlock, EndWrite, Return, Goto, AbstractCall, TypeOK
<1>2. AbstractCall(t).state = "decided"
  BY DEF EndReadUnlock, EndWrite, Goto, AbstractCall, FrameInv, ReaderPCs,
         WriterPCs, NoOp, Writes
<1>3. AbstractCall(t)' = Abstract!NoCall
  BY DEF EndReadUnlock, EndWrite, Return, AbstractCall, TypeOK, Abstract!NoCall
<1>4. root' = root
  BY DEF EndReadUnlock, EndWrite
<1> QED BY <1>1, <1>2, <1>3, <1>4 DEF Abstract!Return

(* ImplementsAtomicSet: every step of the locked tree is a step of the     *)
(* atomic set or invisible to it, so that the answers that insert,         *)
(* deleteNode and search give are those of a set used by one thread at a   *)
(* time.                                                                   *)
THEOREM Refinement == Spec => ImplementsAtomicSet
<1>1. Init => Abstract!AInit
  BY HelpersAssumption
  DEF Init, Abstract!AInit, AbstractCall, Abstract!NoCall, NoOp
<1>2. ASSUME Inv, [Next]_vars
      PROVE  [Abstract!ANext]_(Abstract!avars)
  <2>0. TypeOK /\ FrameInv
    BY <1>2 DEF Inv
  <2>1. CASE UNCHANGED vars
    BY <2>1 DEF vars, Abstract!avars, AbstractCall
  <2>2. ASSUME NEW t \in Threads, NEW o \in Ops, NEW k \in Keys, Call(t, o, k)
        PROVE  [Abstract!ANext]_(Abstract!avars)
    <3>1. CASE o = "preOrder"
      BY <2>0, <2>2, <3>1, Stutters DEF Invisible
    <3>2. CASE o # "preOrder"
      <4>1. o \in Abstract!SetOps
        BY <2>2, <3>2 DEF Ops, Abstract!SetOps
      <4> QED BY <2>0, <2>2, <4>1, CallRefines DEF Abstract!ANext
    <3> QED BY <3>1, <3>2
  <2>3. ASSUME NEW t \in Threads, Exit(t) \/ Read(t) \/ Write(t)
        PROVE  [Abstract!ANext]_(Abstract!avars)
    <3>1. CASE Search(t) \/ Insert(t) \/ DeleteNode(t)
      BY <2>0, <3>1, DecideRefines DEF Abstract!ANext
    <3>2. CASE EndReadUnlock(t) \/ (EndWrite(t) /\ op[t] # "preOrder")
      BY <2>0, <3>2, ReturnRefines DEF Abstract!ANext
    <3>3. CASE Invisible(t)
      BY <2>0, <3>3, Stutters
    <3> QED BY <2>3, <3>1, <3>2, <3>3, Visibility
  <2> QED BY <1>2, <2>1, <2>2, <2>3 DEF Next, Begin
<1> QED BY <1>1, <1>2, InvHolds, PTL DEF Spec, ImplementsAtomicSet, Abstract!ASpec
=============================================================================
