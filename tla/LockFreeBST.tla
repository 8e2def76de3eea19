----------------------------- MODULE LockFreeBST -----------------------------
(***************************************************************************)
(* AVLTreeLF (src/lockfree.cpp): a non-blocking internal search tree.  A   *)
(* node carries an operation word: the address of the last operation that  *)
(* changed it and a flag in the two low bits.  A thread that wants to      *)
(* change a node first swings this word to its operation; another thread   *)
(* that meets a flagged word finishes that operation before its own.       *)
(*                                                                         *)
(* Every action is one access to shared memory, a load or a CAS, with the  *)
(* local computation that follows it; its comment gives the line.          *)
(*                                                                         *)
(* Nodes and operations are never freed, so an address means one object    *)
(* for ever.  An object that no other thread has seen needs no address: a  *)
(* node or operation gets its number when the CAS that publishes it        *)
(* succeeds, and one whose CAS fails leaves no trace.                      *)
(***************************************************************************)
EXTENDS Integers, Sequences, FiniteSets, Functions

CONSTANTS
    Threads,    \* the threads launched on the tree
    Main,       \* the thread that fills the tree before they are launched
    Keys,       \* Keys[t]: the keys thread t uses
    Fills,      \* what Main may insert first: sequences of keys
    MaxCalls    \* MaxCalls[t]: the calls thread t makes (bound)

ASSUME LFAssumption ==
    /\ Main \notin Threads
    /\ Keys \in [Threads -> SUBSET Nat]
    /\ Fills \subseteq Seq(Nat)
    /\ MaxCalls \in [Threads -> Nat]

VARIABLES
    key,    \* key[n]: node n's key
    op,     \* op[n]: node n's operation word
    child,  \* child[n].left, child[n].right: node n's child pointers
    desc,   \* desc[i]: the i-th operation published
    pc,     \* pc[t]: the access thread t makes next
    loc,    \* loc[t]: its local variables
    calls,  \* calls[t]: the calls t has made
    fill    \* the keys Main has still to insert

heap == <<key, op, child, desc>>
vars == <<key, op, child, desc, pc, loc, calls, fill>>

All == Threads \cup {Main}

-----------------------------------------------------------------------------
(* Tagged words.  A null child pointer keeps an address under its tag:     *)
(* SET_NULL(NULL) at first, SET_NULL(n) after leaf n was removed there.    *)

Sides == {"left", "right"}
Root  == 1
NoNode == 0

Ptr(n)     == [null |-> FALSE, node |-> n]
SetNull(n) == [null |-> TRUE, node |-> n]

Flags == {"NONE", "MARK", "CHILDCAS", "RELOCATE"}
Word(flag, i) == [flag |-> flag, op |-> i]
NullWord == Word("NONE", 0)

NoChildren == [left |-> SetNull(NoNode), right |-> SetNull(NoNode)]

ChildCASOp(side, expected, update) ==
    [side |-> side, expected |-> expected, update |-> update]

RelocateOp(dest, dest_op, remove, put) ==
    [state |-> "ONGOING", dest |-> dest, dest_op |-> dest_op,
     key_to_remove |-> remove, key_to_put |-> put]

(* The locals of find (also those it returns by reference), of deleteNode  *)
(* around its second find, and the arguments of the helpers.  start is     *)
(* find's parameter root.  then is what follows the helper that runs.      *)
NoLocals ==
    [fn |-> "none", k |-> 0, result |-> FALSE,
     start |-> Root, found |-> "NOTFOUND_R", next |-> NoNode,
     parent |-> NoNode, parent_op |-> NullWord,
     curr |-> NoNode, curr_op |-> NullWord,
     last_right |-> NoNode, last_right_op |-> NullWord,
     old |-> SetNull(NoNode), new_key |-> 0,
     dest |-> NoNode, dest_op |-> NullWord,
     target |-> NoNode, helped |-> 0, side |-> "left", state |-> "ONGOING",
     then |-> "none"]

Init ==
    /\ key = <<-1>>
    /\ op = <<NullWord>>
    /\ child = <<NoChildren>>
    /\ desc = <<>>
    /\ pc = [t \in All |-> "idle"]
    /\ loc = [t \in All |-> NoLocals]
    /\ calls = [t \in Threads |-> 0]
    /\ fill \in Fills

-----------------------------------------------------------------------------
(* Control flow *)

(* Thread t goes on at label to with locals l.  A label is the name of the *)
(* action that takes it up.                                                *)
Step(t, to, l) ==
    /\ pc' = [pc EXCEPT ![t] = to]
    /\ loc' = [loc EXCEPT ![t] = l]
    /\ UNCHANGED <<calls, fill>>

(* CAS on the operation word of node n. *)
CASOp(n, old, new) ==
    /\ op' = IF op[n] = old THEN [op EXCEPT ![n] = new] ELSE op
    /\ UNCHANGED <<key, child, desc>>

(* CAS on the state of relocation i. *)
CASState(i, new) ==
    /\ desc' = IF desc[i].state = "ONGOING" THEN [desc EXCEPT ![i].state = new] ELSE desc
    /\ UNCHANGED <<key, op, child>>

Frame(l) == [NoLocals EXCEPT !.fn = l.fn, !.k = l.k]

(* find starts over (lines 78, 115, 117); it keeps what deleteNode holds   *)
(* around its second find.                                                 *)
Rewind(l) ==
    IF l.start = Root THEN Frame(l)
    ELSE [Frame(l) EXCEPT !.start = l.start, !.dest = l.dest, !.dest_op = l.dest_op,
                          !.parent = l.parent, !.parent_op = l.parent_op]

FindAgain(t, l) == Step(t, "FindOp", Rewind(l))

(* insert or deleteNode goes round its loop. *)
Retry(t, l) == Step(t, "FindOp", Frame(l))

Answer(t, l, r) == Step(t, "Return", [Frame(l) EXCEPT !.result = r])

(* The helper that t runs is over and returned ok: back to find, which     *)
(* starts over, or to insert (142) or deleteNode (158, 167).               *)
HelperReturns(t, l, ok) ==
    IF l.then = "find" THEN FindAgain(t, l)
    ELSE IF ok THEN Answer(t, l, TRUE)
    ELSE Retry(t, l)

-----------------------------------------------------------------------------
(* Calls *)

Enter(t, fn, k) ==
    /\ pc[t] = "idle"
    /\ pc' = [pc EXCEPT ![t] = "FindOp"]
    /\ loc' = [loc EXCEPT ![t] = Frame([fn |-> fn, k |-> k])]
    /\ UNCHANGED heap

(* Main inserts its keys one after the other, then launches the threads. *)
Fill ==
    /\ fill # <<>>
    /\ Enter(Main, "insert", Head(fill))
    /\ fill' = Tail(fill)
    /\ UNCHANGED calls

Call(t, fn, k) ==
    /\ fill = <<>> /\ pc[Main] = "idle"
    /\ calls[t] < MaxCalls[t]
    /\ Enter(t, fn, k)
    /\ calls' = [calls EXCEPT ![t] = @ + 1]
    /\ UNCHANGED fill

Return(t) == Step(t, "idle", NoLocals)

-----------------------------------------------------------------------------
(* find: loads only.  Here and below l stands for the locals of t.         *)

(* 74-81: the word of the node find starts from.  The root is helped; any  *)
(* other start means ABORT, and deleteNode continues (163).                *)
FindOp(t, l) ==
    LET w == op[l.start]
    IN  \/ /\ w.flag = "NONE"
           /\ Step(t, "FindRight", [l EXCEPT !.curr = l.start, !.curr_op = w])
        \/ /\ w.flag # "NONE" /\ l.start = Root
           /\ Step(t, "ChildCAS",
                   [l EXCEPT !.helped = w.op, !.target = Root, !.then = "find"])
        \/ /\ w.flag # "NONE" /\ l.start # Root
           /\ Retry(t, l)

(* The loop test of line 86 on the pointer p just loaded. *)
Follow(t, p, l) ==
    Step(t, IF p.null THEN "FindCheck" ELSE "FindNext", [l EXCEPT !.next = p.node])

(* 82-84, 102-105: the right child; curr is now the last right turn. *)
FindRight(t, l) ==
    Follow(t, child[l.curr].right,
           [l EXCEPT !.found = "NOTFOUND_R",
                     !.last_right = l.curr, !.last_right_op = l.curr_op])

(* 98-99 *)
FindLeft(t, l) ==
    Follow(t, child[l.curr].left, [l EXCEPT !.found = "NOTFOUND_L"])

(* 87-95: step down; a flagged node is helped first (174-181). *)
HelperOf == [CHILDCAS |-> "ChildCAS", RELOCATE |-> "RelocateState", MARK |-> "MarkedSide"]

FindNext_Waits(t, l) ==
    LET w == op[l.next]
    IN  IF w.flag # "NONE" THEN FindAgain(t, l)
        ELSE Step(t, "FindKey", [l EXCEPT !.parent = l.curr, !.parent_op = l.curr_op,
                                          !.curr = l.next, !.curr_op = w])

FindNext(t, l) ==
    LET w == op[l.next]
        down == [l EXCEPT !.parent = l.curr, !.parent_op = l.curr_op,
                          !.curr = l.next, !.curr_op = w]
    IN  IF w.flag = "NONE" THEN Step(t, "FindKey", down)
        ELSE Step(t, HelperOf[w.flag],
                  [down EXCEPT !.helped = w.op, !.target = l.next, !.then = "find"])

(* 96-110 *)
FindKey(t, l) ==
    \/ l.k < key[l.curr] /\ Step(t, "FindLeft", l)
    \/ l.k > key[l.curr] /\ Step(t, "FindRight", l)
    \/ l.k = key[l.curr] /\ Step(t, "FindCheckCurr",
                                 [l EXCEPT !.found = "FOUND"])

(* 117, first test: has the last right turn been undisturbed? *)
FindCheck_Omitted(t, l) == Step(t, "FindCheckCurr", l)

FindCheck(t, l) ==
    IF op[l.last_right] = l.last_right_op
    THEN Step(t, "FindCheckCurr", l)
    ELSE FindAgain(t, l)

(* 117, second test; then find returns to its caller (125, 135, 153, 163). *)
FindReturns(t, l) ==
    LET found == l.found = "FOUND"
    IN  \/ l.start # Root /\ Step(t, "DeleteRecheck", l)
        \/ l.start = Root /\ l.fn = "search" /\ Answer(t, l, found)
        \/ l.start = Root /\ l.fn = "insert" /\ found /\ Answer(t, l, FALSE)
        \/ l.start = Root /\ l.fn = "insert" /\ ~found /\ Step(t, "InsertOld", l)
        \/ l.start = Root /\ l.fn = "delete" /\ found /\ Step(t, "DeleteLeft", l)
        \/ l.start = Root /\ l.fn = "delete" /\ ~found /\ Answer(t, l, FALSE)

FindCheckCurr(t, l) ==
    IF op[l.curr] = l.curr_op THEN FindReturns(t, l)
                              ELSE FindAgain(t, l)

-----------------------------------------------------------------------------
(* insert *)

(* The side on which find ended. *)
FoundSide(l) == IF l.found = "NOTFOUND_L" THEN "left" ELSE "right"

(* 138-139 *)
InsertOld(t, l) ==
    Step(t, "InsertCAS", [l EXCEPT !.old = child[l.curr][FoundSide(l)]])

(* 137, 140-145: publish the operation and with it the new node. *)
InsertCAS_Blind(t, l) ==
    LET i == Len(desc) + 1
    IN  /\ Step(t, "ChildCAS", [l EXCEPT !.helped = i, !.target = l.curr, !.then = "answer"])
        /\ op' = Append([op EXCEPT ![l.curr] = Word("CHILDCAS", i)], NullWord)
        /\ key' = Append(key, l.k)
        /\ child' = Append(child, NoChildren)
        /\ desc' = Append(desc, ChildCASOp(FoundSide(l), l.old, Ptr(Len(key) + 1)))

InsertCAS_IgnoresFlag(t, l) ==
    IF op[l.curr].op = l.curr_op.op THEN InsertCAS_Blind(t, l)
    ELSE Retry(t, l) /\ UNCHANGED heap

InsertCAS(t, l) ==
    LET i == Len(desc) + 1
        new_node == Len(key) + 1
    IN  IF op[l.curr] = l.curr_op
        THEN /\ Step(t, "ChildCAS",
                     [l EXCEPT !.helped = i, !.target = l.curr, !.then = "answer"])
             /\ op' = Append([op EXCEPT ![l.curr] = Word("CHILDCAS", i)], NullWord)
             /\ key' = Append(key, l.k)
             /\ child' = Append(child, NoChildren)
             /\ desc' = Append(desc, ChildCASOp(FoundSide(l), l.old, Ptr(new_node)))
        ELSE Retry(t, l) /\ UNCHANGED heap

-----------------------------------------------------------------------------
(* deleteNode *)

(* 156, left child: a node with one child at most is marked. *)
DeleteLeft(t, l) ==
    Step(t, IF child[l.curr].left.null THEN "DeleteMark" ELSE "DeleteRight", l)

(* 156, right child; 163: the second find looks for k from curr on, which  *)
(* leads it to the successor.                                              *)
DeleteRight(t, l) ==
    IF child[l.curr].right.null THEN Step(t, "DeleteMark", l)
    ELSE Step(t, "FindOp",
              Rewind([l EXCEPT !.start = l.curr, !.dest = l.curr, !.dest_op = l.curr_op]))

(* 163, second test *)
DeleteRecheck_KeyUnread(t, l) ==
    IF op[l.dest] = l.dest_op THEN Step(t, "DeleteRelocate", l)
                              ELSE Retry(t, l)

DeleteRecheck(t, l) ==
    IF op[l.dest] = l.dest_op THEN Step(t, "DeleteKey", l)
                              ELSE Retry(t, l)

(* 165 *)
DeleteKey(t, l) ==
    Step(t, "DeleteRelocate", [l EXCEPT !.new_key = key[l.curr]])

(* 157-160: the flag changes, the address it sits on stays. *)
DeleteMark(t, l) ==
    /\ IF op[l.curr] = l.curr_op
       THEN Step(t, "MarkedSide", [l EXCEPT !.then = "answer"])
       ELSE Retry(t, l)
    /\ CASOp(l.curr, l.curr_op, Word("MARK", l.curr_op.op))

(* 165-169: publish the relocation at the successor. *)
DeleteRelocate(t, l) ==
    LET i == Len(desc) + 1
    IN  IF op[l.curr] = l.curr_op
        THEN /\ Step(t, "RelocateState", [l EXCEPT !.helped = i, !.then = "answer"])
             /\ op' = [op EXCEPT ![l.curr] = Word("RELOCATE", i)]
             /\ desc' = Append(desc, RelocateOp(l.dest, l.dest_op, l.k, l.new_key))
             /\ UNCHANGED <<key, child>>
        ELSE Retry(t, l) /\ UNCHANGED heap

-----------------------------------------------------------------------------
(* helpMarked: take the marked node curr out of parent *)

(* 185-189.  The children of a marked node do not change any more (the     *)
(* property MarkedIsFinal), so that loading them is part of the next step. *)
Replacement_Null(n) ==
    IF ~child[n].left.null THEN child[n].left
    ELSE IF ~child[n].right.null THEN child[n].right
    ELSE SetNull(NoNode)

Replacement(n) ==
    IF ~child[n].left.null THEN child[n].left
    ELSE IF ~child[n].right.null THEN child[n].right
    ELSE SetNull(n)

(* 191 *)
MarkedSide(t, l) ==
    Step(t, "MarkedCAS",
         [l EXCEPT !.side = IF child[l.parent].left = Ptr(l.curr) THEN "left" ELSE "right"])

(* 192-196 *)
MarkedCAS(t, l) ==
    LET i == Len(desc) + 1
    IN  IF op[l.parent] = l.parent_op
        THEN /\ Step(t, "ChildCAS", [l EXCEPT !.helped = i, !.target = l.parent])
             /\ op' = [op EXCEPT ![l.parent] = Word("CHILDCAS", i)]
             /\ desc' = Append(desc, ChildCASOp(l.side, Ptr(l.curr), Replacement(l.curr)))
             /\ UNCHANGED <<key, child>>
        ELSE HelperReturns(t, l, TRUE) /\ UNCHANGED heap

-----------------------------------------------------------------------------
(* helpChildCAS: operation d, published at node target *)

(* 202 *)
ChildCAS(t, l, d) ==
    /\ Step(t, "ChildCASDone", l)
    /\ child' = IF child[l.target][d.side] = d.expected
                THEN [child EXCEPT ![l.target][d.side] = d.update]
                ELSE child
    /\ UNCHANGED <<key, op, desc>>

(* 203 *)
ChildCASDone(t, l) ==
    /\ HelperReturns(t, l, TRUE)
    /\ CASOp(l.target, Word("CHILDCAS", l.helped), Word("NONE", l.helped))

-----------------------------------------------------------------------------
(* helpRelocate: relocation d, met at node curr *)

(* 228-229: the outcome is known and carried out at dest.  When curr is    *)
(* dest nothing is left to do.                                             *)
Outcome(t, l, state) ==
    IF desc[l.helped].dest = l.curr
    THEN HelperReturns(t, l, state = "SUCCEED")
    ELSE Step(t, "RelocateMark", [l EXCEPT !.state = state])

(* 223-229 *)
ActOnState(t, l, state) ==
    IF state = "SUCCEED" THEN Step(t, "RelocateKey", l) ELSE Outcome(t, l, state)

(* 209-211 *)
RelocateState(t, l, d) ==
    IF d.state = "ONGOING" THEN Step(t, "RelocateDest", l) ELSE ActOnState(t, l, d.state)

(* 220 *)
RelocateReread(t, l, d) == ActOnState(t, l, d.state)

(* 212 *)
RelocateDest(t, l, d) ==
    /\ Step(t, "RelocateSeen", l)
    /\ CASOp(d.dest, d.dest_op, Word("RELOCATE", l.helped))

(* 213-214 *)
RelocateSeen(t, l, d) ==
    IF op[d.dest] \in {d.dest_op, Word("RELOCATE", l.helped)}
    THEN Step(t, "RelocateSucceed", l)
    ELSE Step(t, "RelocateFail", l)

(* 215-216 *)
RelocateSucceed(t, l) ==
    Step(t, "RelocateKey", l) /\ CASState(l.helped, "SUCCEED")

(* 219 *)
RelocateFail(t, l) ==
    Step(t, "RelocateReread", l) /\ CASState(l.helped, "FAILED")

(* 224 *)
RelocateKey_Store(t, l, d) ==
    /\ Step(t, "RelocateUnflag", l)
    /\ key' = [key EXCEPT ![d.dest] = d.key_to_put]
    /\ UNCHANGED <<op, child, desc>>

RelocateKey(t, l, d) ==
    /\ Step(t, "RelocateUnflag", l)
    /\ key' = IF key[d.dest] = d.key_to_remove
              THEN [key EXCEPT ![d.dest] = d.key_to_put] ELSE key
    /\ UNCHANGED <<op, child, desc>>

(* 225 *)
RelocateUnflag(t, l, d) ==
    /\ Outcome(t, l, "SUCCEED")
    /\ CASOp(d.dest, Word("RELOCATE", l.helped), Word("NONE", l.helped))

(* 231-235: mark the node whose key has moved, or release it.  If dest is  *)
(* the parent, the word expected there is the one line 225 leaves.         *)
RelocateMark_KeepsFlag(t, l, d) ==
    IF l.state = "SUCCEED"
    THEN /\ Step(t, "MarkedSide",
                 [l EXCEPT !.parent_op = IF d.dest = l.parent THEN Word("NONE", l.helped)
                                                              ELSE l.parent_op])
         /\ CASOp(l.curr, Word("RELOCATE", l.helped), Word("MARK", l.helped))
    ELSE HelperReturns(t, l, FALSE) /\ UNCHANGED heap

RelocateMark(t, l, d) ==
    IF l.state = "SUCCEED"
    THEN /\ Step(t, "MarkedSide",
                 [l EXCEPT !.parent_op = IF d.dest = l.parent THEN Word("NONE", l.helped)
                                                              ELSE l.parent_op])
         /\ CASOp(l.curr, Word("RELOCATE", l.helped), Word("MARK", l.helped))
    ELSE /\ HelperReturns(t, l, FALSE)
         /\ CASOp(l.curr, Word("RELOCATE", l.helped), Word("NONE", l.helped))

-----------------------------------------------------------------------------

At(t, label) == pc[t] = label

Load(t, l) ==
    /\ \/ At(t, "FindOp")         /\ FindOp(t, l)
       \/ At(t, "FindRight")      /\ FindRight(t, l)
       \/ At(t, "FindLeft")       /\ FindLeft(t, l)
       \/ At(t, "FindNext")       /\ FindNext(t, l)
       \/ At(t, "FindKey")        /\ FindKey(t, l)
       \/ At(t, "FindCheck")      /\ FindCheck(t, l)
       \/ At(t, "FindCheckCurr")  /\ FindCheckCurr(t, l)
       \/ At(t, "InsertOld")      /\ InsertOld(t, l)
       \/ At(t, "DeleteLeft")     /\ DeleteLeft(t, l)
       \/ At(t, "DeleteRight")    /\ DeleteRight(t, l)
       \/ At(t, "DeleteRecheck")  /\ DeleteRecheck(t, l)
       \/ At(t, "DeleteKey")      /\ DeleteKey(t, l)
       \/ At(t, "MarkedSide")     /\ MarkedSide(t, l)
       \/ At(t, "RelocateState")  /\ RelocateState(t, l, desc[l.helped])
       \/ At(t, "RelocateSeen")   /\ RelocateSeen(t, l, desc[l.helped])
       \/ At(t, "RelocateReread") /\ RelocateReread(t, l, desc[l.helped])
       \/ At(t, "Return")         /\ Return(t)
    /\ UNCHANGED heap

CAS(t, l) ==
    \/ At(t, "InsertCAS")       /\ InsertCAS(t, l)
    \/ At(t, "DeleteMark")      /\ DeleteMark(t, l)
    \/ At(t, "DeleteRelocate")  /\ DeleteRelocate(t, l)
    \/ At(t, "MarkedCAS")       /\ MarkedCAS(t, l)
    \/ At(t, "ChildCAS")        /\ ChildCAS(t, l, desc[l.helped])
    \/ At(t, "ChildCASDone")    /\ ChildCASDone(t, l)
    \/ At(t, "RelocateDest")    /\ RelocateDest(t, l, desc[l.helped])
    \/ At(t, "RelocateSucceed") /\ RelocateSucceed(t, l)
    \/ At(t, "RelocateFail")    /\ RelocateFail(t, l)
    \/ At(t, "RelocateKey")     /\ RelocateKey(t, l, desc[l.helped])
    \/ At(t, "RelocateUnflag")  /\ RelocateUnflag(t, l, desc[l.helped])
    \/ At(t, "RelocateMark")    /\ RelocateMark(t, l, desc[l.helped])

Work(t) == Load(t, loc[t]) \/ CAS(t, loc[t])

Next ==
    \/ Fill
    \/ \E t \in Threads, fn \in {"insert", "delete", "search"} : \E k \in Keys[t] : Call(t, fn, k)
    \/ \E t \in All : Work(t)

Spec == Init /\ [][Next]_vars

-----------------------------------------------------------------------------
(* Properties of the heap.  LockFreeSet says what the heap stands for.     *)

Nodes == 1 .. Len(key)

AllKeys == (UNION Range(Keys)) \cup (UNION {Range(f) : f \in Fills})

(* The node is to receive another key. *)
Receives(n) == op[n].flag = "RELOCATE" /\ desc[op[n].op].dest = n

TypeOK ==
    /\ Len(op) = Len(key) /\ Len(child) = Len(key)
    /\ \A n \in Nodes :
         /\ key[n] \in AllKeys \cup {-1}
         /\ op[n] \in [flag : Flags, op : 0 .. Len(desc)]
         /\ \A s \in Sides : child[n][s] \in [null : BOOLEAN, node : 0 .. Len(key)]
    /\ \A t \in All : loc[t].helped \in 0 .. Len(desc)

(* A thread finishes an operation that others may have finished already,   *)
(* because a published operation still applies: nothing but the operation  *)
(* itself changes the pointer it expects, and a relocation that reached    *)
(* its destination is not given up (lockfree.cpp:202, 212-219).            *)
PublishedStillApplies ==
    \A n \in Nodes :
        LET d == desc[op[n].op]
        IN  /\ op[n].flag = "CHILDCAS" => child[n][d.side] \in {d.expected, d.update}
            /\ Receives(n) => d.state # "FAILED"

(* An operation flag is never left behind: while a node shows one, a       *)
(* thread is at work on that operation, so that a tree at rest has marked  *)
(* nodes at most (lockfree.cpp:199-237).                                   *)
FlagsAreAttended ==
    \A n \in Nodes : op[n].flag \in {"CHILDCAS", "RELOCATE"} =>
        \E t \in All : pc[t] # "Return" /\ loc[t].helped = op[n].op

(* Nobody changes the word or the children of a marked node again;         *)
(* helpMarked counts on it when it copies the child of one                 *)
(* (lockfree.cpp:157, 185-192, 231).                                       *)
MarkedIsFinal ==
    [][\A n \in Nodes : op[n].flag = "MARK" =>
         op'[n] = op[n] /\ child'[n] = child[n]]_vars

(* Relocation i will succeed: its word has reached the node that takes the *)
(* key (line 212), or somebody has already noted that it did.              *)
Committed(i) ==
    desc[i].state = "SUCCEED" \/ op[desc[i].dest] = Word("RELOCATE", i)

(* The node gives its key away and goes. *)
Leaves(n) ==
    \/ op[n].flag = "MARK"
    \/ op[n].flag = "RELOCATE" /\ desc[op[n].op].dest # n /\ Committed(op[n].op)

(* A set of nodes that nothing leads out of. *)
Closed(S) == \A n \in S, s \in Sides : child[n][s].null \/ child[n][s].node \in S

(* The nodes that a traversal from pointer p can reach, with the pointers  *)
(* as they are: those that no closed set with p's node leaves out.         *)
Below(p) ==
    IF p.null THEN {}
    ELSE Nodes \ UNION {Nodes \ S : S \in {C \in SUBSET Nodes : p.node \in C /\ Closed(C)}}

Reachable == Below(Ptr(Root))

(* The nodes in reach are in search order at every moment, so that a      *)
(* traversal that starts now is never misled; two have the same key only   *)
(* while the lower one, whose key has moved, waits to be taken out         *)
(* (lockfree.cpp:97-106, 224).                                             *)
SearchOrder ==
    \A n \in Reachable :
        /\ \A m \in Below(child[n].left) : key[m] < key[n]
        /\ \A m \in Below(child[n].right) :
             key[m] > key[n] \/ (key[m] = key[n] /\ Leaves(m))

(* A step takes at most one node out of the tree, and a marked one; a      *)
(* marked node never comes back, however late a helper's CAS is            *)
(* (lockfree.cpp:183-204: SET_NULL(curr) keeps the address for that).      *)
RemovalIsFinal ==
    [][LET before == Reachable
           after == Reachable'
       IN  /\ Cardinality(before \ after) <= 1
           /\ \A n \in before \ after : op[n].flag = "MARK"
           /\ \A n \in after \ before : n \in Nodes => op[n].flag # "MARK"]_vars

(* The key of a node only grows, so that line 224's CAS cannot be fooled   *)
(* by a key that comes back; it changes to the one that the operation the  *)
(* node shows brings, never once the node is marked                        *)
(* (lockfree.cpp:165, 224).                                                *)
KeysOnlyGrow ==
    [][\A n \in Nodes :
         LET d == desc[op[n].op]
         IN  /\ key'[n] >= key[n]
             /\ op[n].flag = "MARK" => key'[n] = key[n]
             /\ Receives(n) => {key[n], key'[n]} \subseteq {d.key_to_remove, d.key_to_put}]_vars
=============================================================================
