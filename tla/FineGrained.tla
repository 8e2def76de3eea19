----------------------------- MODULE FineGrained -----------------------------
(***************************************************************************)
(* AVLTreeFG (src/finegrained.cpp): an AVL tree with a mutex in every      *)
(* node.  insert and deleteNode go down hand over hand, but what they do   *)
(* on the way back up (storing the subtree each level returns, heights and *)
(* rotations) and the root pointer are under no lock, and search takes     *)
(* none.                                                                   *)
(*                                                                         *)
(* An action of search is one load.  An action of insert and deleteNode is *)
(* at most one store, lock or unlock, with the loads of that thread that   *)
(* come before it; a rotation is four stores.  A process that dereferences *)
(* null or throws is dead.  Freed nodes keep their contents.               *)
(***************************************************************************)
EXTENDS Integers, Sequences, FiniteSetsExt

CONSTANTS
    Threads,    \* the threads launched on the tree
    Main,       \* the thread that fills the tree before they are launched
    Keys,       \* the keys they use
    Ops,        \* Ops[t]: the functions thread t calls
    Fills,      \* what Main may insert first: sequences of keys
    MaxCalls    \* MaxCalls[t]: how many calls it makes (bound)

ASSUME FGAssumption ==
    /\ Main \notin Threads
    /\ Fills \subseteq Seq(Nat)
    /\ Keys \subseteq Nat
    /\ Ops \in [Threads -> SUBSET {"insert", "delete", "search"}]
    /\ MaxCalls \in [Threads -> Nat]

VARIABLES
    node,   \* node[n]: key, left, right and height of node n
    owner,  \* owner[n]: the thread that holds n's nodeLock, or Free
    root,
    pc,     \* pc[t]: the next step of thread t
    loc,    \* loc[t]: its locals and its recursion stack
    calls,  \* calls[t]: the calls t has made
    fill,   \* the keys Main has still to insert
    alive   \* FALSE once the process has died

vars == <<node, owner, root, pc, loc, calls, fill, alive>>

All == Threads \cup {Main}

Null == 0
Free == "free"

(* The parameter of a rotation, the side of the child that takes its place,*)
(* that child, and the subtree between them, T2.                           *)
NoTurn == [top |-> Null, side |-> "left", child |-> Null, mid |-> Null]

NewNode(k) == [key |-> k, left |-> Null, right |-> Null, height |-> 1]

(* node is the parameter node; lock is the node about to be locked; side   *)
(* the child this level goes to; stack the levels above, with their key,   *)
(* which deleteHelper changes; ret what a level returns; turn the rotation *)
(* that goes on.                                                           *)
NoLocals ==
    [fn |-> "none", k |-> 0, node |-> Null, lock |-> Null, side |-> "left",
     stack |-> <<>>, ret |-> Null, err |-> FALSE, turn |-> NoTurn]

-----------------------------------------------------------------------------
(* Nodes, given the heap h. *)

HeightOf(h, n) == IF n = Null THEN 0 ELSE h[n].height

Balance(h, n) == HeightOf(h, h[n].left) - HeightOf(h, h[n].right)

WithHeight_OffByOne(h, n) ==
    [h EXCEPT ![n].height = Max({HeightOf(h, h[n].left), HeightOf(h, h[n].right)})]

WithHeight(h, n) ==
    [h EXCEPT ![n].height = 1 + Max({HeightOf(h, h[n].left), HeightOf(h, h[n].right)})]

Other(side) == IF side = "left" THEN "right" ELSE "left"

-----------------------------------------------------------------------------
(* Control flow *)

Go(t, to, l) ==
    /\ pc' = [pc EXCEPT ![t] = to]
    /\ loc' = [loc EXCEPT ![t] = l]

Heap == <<node, owner, root>>
Rest == <<calls, fill, alive>>

(* A step that touches no shared variable. *)
Step(t, to, l) == Go(t, to, l) /\ UNCHANGED Heap /\ UNCHANGED Rest

(* The call of t returns r. *)
Result(l, r) == [NoLocals EXCEPT !.fn = l.fn, !.k = l.k, !.err = ~r]

(* A null dereference or an exception that nobody catches. *)
Die == alive' = FALSE /\ UNCHANGED <<node, owner, root, pc, loc, calls, fill>>

Acquire(t, n) ==
    /\ owner[n] = Free
    /\ owner' = [owner EXCEPT ![n] = t]

Release(n) == owner' = [owner EXCEPT ![n] = Free]

(* Steps that only take the lock in hand, give back that of n, and store.  *)
Lock(t, to, l) ==
    /\ Acquire(t, l.lock)
    /\ Go(t, to, l)
    /\ UNCHANGED <<node, root, calls, fill, alive>>

Unlock(t, n, to, l) ==
    /\ Release(n)
    /\ Go(t, to, l)
    /\ UNCHANGED <<node, root, calls, fill, alive>>

Write(t, h, to, l) ==
    /\ node' = h
    /\ Go(t, to, l)
    /\ UNCHANGED <<owner, root, calls, fill, alive>>

Store(t, n, field, v, to, l) == Write(t, [node EXCEPT ![n][field] = v], to, l)

(* The side of the present node on which the key belongs. *)
Side(l) == IF l.k < node[l.node].key THEN "left" ELSE "right"

(* The next level of the recursion, at node n with key k. *)
Recurse(l, n, k) ==
    [l EXCEPT !.stack = Append(@, [node |-> l.node, side |-> l.side, k |-> l.k]),
              !.node = n, !.k = k]

Level(l) == IF l.fn = "insert" THEN "InsertNode" ELSE "DeleteNode"

(* This level returns n. *)
Returns(t, l, n) == Step(t, "Ascend", [l EXCEPT !.ret = n])

-----------------------------------------------------------------------------
(* The public functions *)

Enter(t, fn, k) ==
    /\ pc[t] = "idle" /\ alive
    /\ Go(t, "Begin", [NoLocals EXCEPT !.fn = fn, !.k = k])
    /\ UNCHANGED Heap /\ UNCHANGED alive

(* Main inserts its keys one after the other, then launches the threads. *)
FillTree ==
    /\ fill # <<>>
    /\ Enter(Main, "insert", Head(fill))
    /\ fill' = Tail(fill)
    /\ UNCHANGED calls

Call(t, fn, k) ==
    /\ fill = <<>> /\ pc[Main] = "idle"
    /\ calls[t] < MaxCalls[t]
    /\ Enter(t, fn, k)
    /\ calls' = [calls EXCEPT ![t] = @ + 1]
    /\ UNCHANGED fill

(* 128, 212, 234: root is read without a lock. *)
Begin(t, l) ==
    \/ l.fn = "search" /\ Step(t, "SearchNode", [l EXCEPT !.node = root])
    \/ l.fn # "search" /\ root # Null /\ Step(t, "LoadRoot", l)
    \/ l.fn = "insert" /\ root = Null /\ Step(t, "InsertFirst", l)
    \/ l.fn = "delete" /\ root = Null /\ Die

(* 129-130 *)
InsertFirst(t, l) ==
    /\ node' = Append(node, NewNode(l.k))
    /\ owner' = Append(owner, Free)
    /\ root' = Len(node) + 1
    /\ Go(t, "Return", Result(l, TRUE))
    /\ UNCHANGED Rest

(* 132, 216 *)
LoadRoot(t, l) ==
    IF root = Null THEN Die ELSE Step(t, "LockRoot", [l EXCEPT !.lock = root])

LockRoot(t, l) == Lock(t, "EnterRoot", l)

(* 133, 217: root is read again. *)
EnterRoot(t, l) == Step(t, Level(l), [l EXCEPT !.node = root])

Return(t) == Step(t, "idle", NoLocals)

(* 222-225: null, or the key that is looked for *)
SearchNode(t, l) ==
    IF l.node = Null THEN Step(t, "Return", Result(l, FALSE))
    ELSE IF l.k = node[l.node].key THEN Step(t, "Return", Result(l, TRUE))
    ELSE Step(t, "SearchSide", l)

SearchSide_Swapped(t, l) ==
    Step(t, "SearchChild", [l EXCEPT !.side = Other(Side(l))])

(* 227: the key is read a second time. *)
SearchSide(t, l) == Step(t, "SearchChild", [l EXCEPT !.side = Side(l)])

(* 228-229 *)
SearchChild(t, l) ==
    Step(t, "SearchNode", [l EXCEPT !.node = node[l.node][l.side]])

-----------------------------------------------------------------------------
(* Going down *)

(* 84-87, 95-98, 145-148, 151-153: go to the child on side s. *)
GoDown(t, l, s) ==
    Step(t, "LockChild", [l EXCEPT !.side = s, !.lock = node[l.node][s]])

LockChild(t, l) == Lock(t, "UnlockParent", l)

UnlockParent_Omitted(t, l) == Step(t, "Descend", l)

UnlockParent(t, l) == Unlock(t, l.node, "Descend", l)

(* The child pointer is read again, after the unlock. *)
Descend(t, l) == Step(t, Level(l), Recurse(l, node[l.node][l.side], l.k))

(* 69-104 *)
InsertNode_NoErr(t, l) ==
    \/ l.node = Null /\ Die
    \/ l.node # Null /\ l.k = node[l.node].key /\ Returns(t, l, l.node)
    \/ /\ l.node # Null /\ l.k # node[l.node].key
       /\ IF node[l.node][Side(l)] = Null
          THEN Step(t, "InsertLeaf", [l EXCEPT !.side = Side(l)])
          ELSE GoDown(t, l, Side(l))

InsertNode(t, l) ==
    \/ l.node = Null /\ Die
    \/ /\ l.node # Null /\ l.k = node[l.node].key
       /\ Returns(t, [l EXCEPT !.err = TRUE], l.node)
    \/ /\ l.node # Null /\ l.k # node[l.node].key
       /\ IF node[l.node][Side(l)] = Null
          THEN Step(t, "InsertLeaf", [l EXCEPT !.side = Side(l)])
          ELSE GoDown(t, l, Side(l))

(* 77, 92 *)
InsertLeaf(t, l) ==
    /\ node' = Append([node EXCEPT ![l.node][l.side] = Len(node) + 1], NewNode(l.k))
    /\ owner' = Append(owner, Free)
    /\ Go(t, "UnlockNode", l)
    /\ UNCHANGED <<root, calls, fill, alive>>

(* 79, 93; 172 *)
UnlockNode(t, l) == Unlock(t, l.node, "UpdateHeight", l)

(* 140-184 *)
DeleteNode(t, l) ==
    \/ l.node = Null /\ Returns(t, [l EXCEPT !.err = TRUE], Null)
    \/ /\ l.node # Null /\ l.k # node[l.node].key
       /\ IF node[l.node][Side(l)] = Null THEN Die ELSE GoDown(t, l, Side(l))
    \/ /\ l.node # Null /\ l.k = node[l.node].key
       /\ LET n == node[l.node]
          IN  \/ /\ n.left = Null /\ n.right = Null
                 /\ Returns(t, [l EXCEPT !.err = TRUE], Null)
              \/ /\ (n.left = Null) # (n.right = Null)
                 /\ Step(t, "LockOnly", [l EXCEPT !.lock = Max({n.left, n.right})])
              \/ /\ n.left # Null /\ n.right # Null
                 /\ Step(t, "LockRight", [l EXCEPT !.lock = n.right])

(* 166 *)
LockOnly(t, l) == Lock(t, "CopyKey", l)

(* 167-171: the node becomes its only child, whose memory goes, a field at *)
(* a time.                                                                 *)
Copy(t, l, field, to) == Store(t, l.node, field, node[l.lock][field], to, l)

CopyKey(t, l) == Copy(t, l, "key", "CopyLeft")
CopyLeft(t, l) == Copy(t, l, "left", "CopyRight")
CopyRight(t, l) == Copy(t, l, "right", "UnlockOnly")

UnlockOnly(t, l) == Unlock(t, l.lock, "UnlockNode", l)

(* 175 *)
LockRight(t, l) == Lock(t, "MinValueNode", [l EXCEPT !.ret = l.lock])

(* 58-65: the successor so far is ret. *)
MinValueNode(t, l) ==
    IF node[l.ret].left = Null THEN Step(t, "TakeKey", l)
    ELSE Step(t, "LockLeft", [l EXCEPT !.lock = node[l.ret].left])

LockLeft(t, l) == Lock(t, "UnlockCurrent", l)

UnlockCurrent(t, l) == Unlock(t, l.ret, "CurrentLeft", l)

(* 62: the child pointer is read again. *)
CurrentLeft(t, l) == Step(t, "MinValueNode", [l EXCEPT !.ret = node[l.ret].left])

(* 177 *)
TakeKey(t, l) == Store(t, l.node, "key", node[l.ret].key, "UnlockTaken", l)

(* 181 *)
UnlockTaken(t, l) == Unlock(t, l.node, "DeleteSuccessor", l)

(* 182: pointer and key are read again, after the unlock. *)
DeleteSuccessor(t, l) ==
    Step(t, "DeleteNode",
         Recurse([l EXCEPT !.side = "right"], node[l.node].right, node[l.ret].key))

-----------------------------------------------------------------------------
(* Going up *)

(* The caller stores what the level below returned (87, 98, 148, 153, 182; *)
(* 133, 217).                                                              *)
Ascend(t, l) ==
    IF l.stack = <<>>
    THEN /\ root' = l.ret
         /\ Go(t, "Return", Result(l, ~l.err))
         /\ UNCHANGED <<node, owner, calls, fill, alive>>
    ELSE LET f == l.stack[Len(l.stack)]
         IN  Store(t, f.node, f.side, l.ret, "UpdateHeight",
                   [l EXCEPT !.node = f.node, !.k = f.k,
                             !.stack = SubSeq(@, 1, Len(@) - 1)])

(* 106, 190 *)
UpdateHeight(t, l) == Write(t, WithHeight(node, l.node), "Rebalance", l)

(* rightRotate or leftRotate of n, so that its child on side s takes its   *)
(* place.                                                                  *)
Turn(n, s) ==
    LET x == node[n][s]
    IN  [top |-> n, side |-> s, child |-> x, mid |-> IF x = Null THEN Null ELSE node[x][Other(s)]]

(* Begins a rotation (21-23, 32-34). *)
BeginTurn(t, l, n, s) ==
    IF node[n][s] = Null THEN Die ELSE Step(t, "TurnUp", [l EXCEPT !.turn = Turn(n, s)])

(* 108-122, 192-206: the heavy side s, if there is one, and whether the    *)
(* key went to its outer or its inner side, where the child turns first.   *)
Rebalance(t, l) ==
    LET b == Balance(node, l.node)
        s == IF b > 1 THEN "left" ELSE "right"
        c == node[l.node][s]
        outer == IF s = "left" THEN l.k < node[c].key ELSE l.k > node[c].key
    IN  \/ b \in -1 .. 1 /\ Returns(t, l, l.node)
        \/ /\ b \notin -1 .. 1 /\ l.k = node[c].key
           /\ Returns(t, l, l.node)
        \/ /\ b \notin -1 .. 1 /\ outer
           /\ BeginTurn(t, l, l.node, s)
        \/ /\ b \notin -1 .. 1 /\ ~outer /\ l.k # node[c].key
           /\ BeginTurn(t, l, c, Other(s))

(* 24-25, 35-36 *)
TurnUp(t, l) ==
    Store(t, l.turn.child, Other(l.turn.side), l.turn.top, "TurnDown", l)

TurnDown_LosesMiddle(t, l) ==
    Store(t, l.turn.top, l.turn.side, Null, "TopHeight", l)

TurnDown(t, l) ==
    Store(t, l.turn.top, l.turn.side, l.turn.mid, "TopHeight", l)

TopHeight_OfChild(t, l) == Write(t, WithHeight(node, l.turn.child), "ChildHeight", l)

(* 26-27, 37-38 *)
TopHeight(t, l) == Write(t, WithHeight(node, l.turn.top), "ChildHeight", l)

(* The rotation of the node itself is what this level returns. *)
TurnReturns(t, l, h) ==
    IF l.turn.top = l.node
    THEN Write(t, h, "Ascend", [l EXCEPT !.ret = l.turn.child, !.turn = NoTurn])
    ELSE Write(t, h, "LinkTurned", [l EXCEPT !.ret = l.turn.child])

ChildHeight(t, l) == TurnReturns(t, l, WithHeight(node, l.turn.child))

(* 115, 119, 199, 203: after the child has turned *)
LinkTurned(t, l) ==
    Store(t, l.node, Other(l.turn.side), l.ret, "TurnNode", l)

(* 116, 120, 200, 204 *)
TurnNode(t, l) == BeginTurn(t, l, l.node, Other(l.turn.side))

-----------------------------------------------------------------------------

Init ==
    /\ node = <<>>
    /\ owner = <<>>
    /\ root = Null
    /\ pc = [t \in All |-> "idle"]
    /\ loc = [t \in All |-> NoLocals]
    /\ calls = [t \in Threads |-> 0]
    /\ fill \in Fills
    /\ alive = TRUE

At(t, label) == pc[t] = label

Work(t, l) ==
    /\ alive
    /\ \/ At(t, "Begin")        /\ Begin(t, l)
       \/ At(t, "InsertFirst")  /\ InsertFirst(t, l)
       \/ At(t, "LoadRoot")     /\ LoadRoot(t, l)
       \/ At(t, "LockRoot")     /\ LockRoot(t, l)
       \/ At(t, "EnterRoot")    /\ EnterRoot(t, l)
       \/ At(t, "SearchNode")   /\ SearchNode(t, l)
       \/ At(t, "SearchSide")   /\ SearchSide(t, l)
       \/ At(t, "SearchChild")  /\ SearchChild(t, l)
       \/ At(t, "LockChild")    /\ LockChild(t, l)
       \/ At(t, "UnlockParent") /\ UnlockParent(t, l)
       \/ At(t, "Descend")      /\ Descend(t, l)
       \/ At(t, "InsertNode")   /\ InsertNode(t, l)
       \/ At(t, "InsertLeaf")   /\ InsertLeaf(t, l)
       \/ At(t, "UnlockNode")   /\ UnlockNode(t, l)
       \/ At(t, "DeleteNode")   /\ DeleteNode(t, l)
       \/ At(t, "LockOnly")     /\ LockOnly(t, l)
       \/ At(t, "CopyKey")      /\ CopyKey(t, l)
       \/ At(t, "CopyLeft")     /\ CopyLeft(t, l)
       \/ At(t, "CopyRight")    /\ CopyRight(t, l)
       \/ At(t, "UnlockOnly")   /\ UnlockOnly(t, l)
       \/ At(t, "LockRight")    /\ LockRight(t, l)
       \/ At(t, "MinValueNode") /\ MinValueNode(t, l)
       \/ At(t, "LockLeft")     /\ LockLeft(t, l)
       \/ At(t, "UnlockCurrent")   /\ UnlockCurrent(t, l)
       \/ At(t, "CurrentLeft")     /\ CurrentLeft(t, l)
       \/ At(t, "TakeKey")         /\ TakeKey(t, l)
       \/ At(t, "UnlockTaken")     /\ UnlockTaken(t, l)
       \/ At(t, "DeleteSuccessor") /\ DeleteSuccessor(t, l)
       \/ At(t, "Ascend")       /\ Ascend(t, l)
       \/ At(t, "UpdateHeight") /\ UpdateHeight(t, l)
       \/ At(t, "Rebalance")    /\ Rebalance(t, l)
       \/ At(t, "TurnUp")       /\ TurnUp(t, l)
       \/ At(t, "TurnDown")     /\ TurnDown(t, l)
       \/ At(t, "TopHeight")    /\ TopHeight(t, l)
       \/ At(t, "ChildHeight")  /\ ChildHeight(t, l)
       \/ At(t, "LinkTurned")   /\ LinkTurned(t, l)
       \/ At(t, "TurnNode")     /\ TurnNode(t, l)
       \/ At(t, "Return")       /\ Return(t)

Next ==
    \/ FillTree
    \/ \E t \in Threads, k \in Keys : \E fn \in Ops[t] : Call(t, fn, k)
    \/ \E t \in All : Work(t, loc[t])

Spec == Init /\ [][Next]_vars
=============================================================================
