------------------------------ MODULE BronsonAVL ------------------------------
(***************************************************************************)
(* AVLTreeFG of src/finegrainedBronson.cpp: an optimistic AVL tree with    *)
(* versions, which the repository keeps beside the tree it uses.           *)
(*                                                                         *)
(* The model is the public functions, an action for each access to shared  *)
(* memory or mutex.  They wait while the root's version is other than      *)
(* Unlinked, and a root has version 0, so that the descents below the root *)
(* (attemptSearch, attemptInsert, attemptDeleteNode) have no action: that  *)
(* nobody gets to label "attempt" is among the properties.                 *)
(***************************************************************************)
EXTENDS Integers, Sequences

CONSTANTS
    Threads,
    Keys,
    MaxCalls    \* calls each thread makes (bound)

ASSUME BronsonAssumption == Keys \subseteq Nat /\ MaxCalls \in Nat

VARIABLES
    node,   \* node[n]: the fields of the n-th node made
    owner,  \* owner[n]: the thread that holds n's nodeLock, or Free
    pc,     \* pc[t]: the next access of thread t
    loc,    \* loc[t]: its locals
    calls   \* calls[t]: the calls it has made

vars == <<node, owner, pc, loc, calls>>

Null == 0
Free == "free"
RootHolder == 1

(* Versions are words of bits. *)
Unlinked == 1
Bit(v, b) == (v \div b) % 2 = 1
Growing(v) == Bit(v, 2)
Shrinking(v) == Bit(v, 4)

NodeFG(k) ==
    [key |-> k, version |-> 0, height |-> 1, value |-> "INT",
     left |-> Null, right |-> Null, parent |-> Null]

NoLocals == [fn |-> "none", k |-> 0, root |-> Null, result |-> FALSE]

Init ==
    /\ node = <<NodeFG(-1)>>
    /\ owner = <<Free>>
    /\ pc = [t \in Threads |-> "idle"]
    /\ loc = [t \in Threads |-> NoLocals]
    /\ calls = [t \in Threads |-> 0]

-----------------------------------------------------------------------------

Go(t, to, l) == pc' = [pc EXCEPT ![t] = to] /\ loc' = [loc EXCEPT ![t] = l]

(* A step that changes no shared variable. *)
Step(t, to, l) == Go(t, to, l) /\ UNCHANGED <<node, owner, calls>>

Answer(t, l, r) == Go(t, "Return", [l EXCEPT !.result = r])

Acquire(t, n) == owner[n] = Free /\ owner' = [owner EXCEPT ![n] = t]

Release(n) == owner' = [owner EXCEPT ![n] = Free]

Call(t, fn, k) ==
    /\ pc[t] = "idle" /\ calls[t] < MaxCalls
    /\ calls' = [calls EXCEPT ![t] = @ + 1]
    /\ Go(t, "LoadRoot", [NoLocals EXCEPT !.fn = fn, !.k = k])
    /\ UNCHANGED <<node, owner>>

(* 545-555, 637-651, 749-764: the loop of the three functions starts. *)
LoadRoot(t, l) ==
    LET root == node[RootHolder].right
        found == root # Null /\ node[root].key = l.k
        seen == [l EXCEPT !.root = root]
    IN  \/ root = Null /\ l.fn = "insert" /\ Step(t, "LockHolder", seen)
        \/ root = Null /\ l.fn # "insert" /\ Answer(t, seen, FALSE) /\ UNCHANGED <<node, owner, calls>>
        \/ found /\ l.fn = "delete" /\ Step(t, "RemoveNode", seen)
        \/ /\ found /\ l.fn # "delete"
           /\ Answer(t, seen, l.fn = "search")
           /\ UNCHANGED <<node, owner, calls>>
        \/ root # Null /\ ~found /\ Step(t, "LoadVersion", seen)

(* 640, 885 *)
LockHolder(t, l) ==
    /\ Acquire(t, RootHolder)
    /\ Go(t, IF l.fn = "insert" THEN "InsertRoot" ELSE "Unlink", l)
    /\ UNCHANGED <<node, calls>>

(* 641-644: the new node becomes the root, whether or not there is one by  *)
(* now; its parent pointer stays null.                                     *)
InsertRoot(t, l) ==
    /\ node' = Append([node EXCEPT ![RootHolder].right = Len(node) + 1,
                                   ![RootHolder].height = 2], NodeFG(l.k))
    /\ owner' = Append([owner EXCEPT ![RootHolder] = Free], Free)
    /\ Answer(t, l, TRUE)
    /\ UNCHANGED calls

(* Waits for an unlinked root only. *)
LoadVersion_Unlinked(t, l) ==
    LET rootV == node[l.root].version
    IN  IF Shrinking(rootV) \/ rootV = Unlinked
        THEN Step(t, "WaitUntilNotChanging", l)
        ELSE Step(t, IF l.root = node[RootHolder].right THEN "attempt" ELSE "LoadRoot", l)

(* 556-561, 652-657, 766-771: wait, or go down from a root that is still   *)
(* linked.                                                                 *)
LoadVersion(t, l) ==
    LET rootV == node[l.root].version
    IN  IF Shrinking(rootV) \/ rootV # Unlinked
        THEN Step(t, "WaitUntilNotChanging", l)
        ELSE Step(t, IF l.root = node[RootHolder].right THEN "attempt" ELSE "LoadRoot", l)

(* 519-533: the spinning and the wait for the node's lock end when nobody  *)
(* holds it.                                                               *)
WaitUntilNotChanging(t, l) ==
    LET v == node[l.root].version
    IN  /\ Growing(v) \/ Shrinking(v) => owner[l.root] = Free
        /\ Step(t, "LoadRoot", l)

CanUnlink(n) == node[n].left = Null \/ node[n].right = Null

(* 861-868: what is to be removed is a root, which can always be unlinked. *)
RemoveNode(t, l) ==
    IF node[l.root].value = "REM"
    THEN Answer(t, l, FALSE) /\ UNCHANGED <<node, owner, calls>>
    ELSE CanUnlink(l.root) /\ Step(t, "LockHolder", l)

(* 837-850: the child takes the node's place. *)
AttemptUnlink(parent, n) ==
    LET child == IF node[n].left # Null THEN node[n].left ELSE node[n].right
        linked == IF node[parent].left = n THEN [node EXCEPT ![parent].left = child]
                                           ELSE [node EXCEPT ![parent].right = child]
    IN  [linked EXCEPT ![n].version = Unlinked, ![n].value = "REM"]

(* Returns with the parent locked when the link has changed. *)
Unlink_KeepsLock(t, l) ==
    /\ IF \/ node[RootHolder].version = Unlinked
          \/ node[l.root].parent # RootHolder
          \/ node[l.root].version = Unlinked
       THEN UNCHANGED <<node, owner>> /\ Answer(t, l, FALSE)
       ELSE /\ owner[l.root] = Free
            /\ node' = AttemptUnlink(RootHolder, l.root)
            /\ Answer(t, l, TRUE)
            /\ Release(RootHolder)
    /\ UNCHANGED calls

(* 887-906: with the parent locked the link is validated; a node whose     *)
(* parent pointer names another node is left alone, and deleteNode takes   *)
(* RETRY for a failure (763).                                              *)
Unlink(t, l) ==
    /\ IF \/ node[RootHolder].version = Unlinked
          \/ node[l.root].parent # RootHolder
          \/ node[l.root].version = Unlinked
       THEN UNCHANGED node /\ Answer(t, l, FALSE)
       ELSE /\ owner[l.root] = Free
            /\ node' = AttemptUnlink(RootHolder, l.root)
            /\ Answer(t, l, TRUE)
    /\ Release(RootHolder)
    /\ UNCHANGED calls

Return(t) == Step(t, "idle", NoLocals)

At(t, label) == pc[t] = label

Work(t, l) ==
    \/ At(t, "LoadRoot")             /\ LoadRoot(t, l)
    \/ At(t, "LockHolder")           /\ LockHolder(t, l)
    \/ At(t, "InsertRoot")           /\ InsertRoot(t, l)
    \/ At(t, "LoadVersion")          /\ LoadVersion(t, l)
    \/ At(t, "WaitUntilNotChanging") /\ WaitUntilNotChanging(t, l)
    \/ At(t, "RemoveNode")           /\ RemoveNode(t, l)
    \/ At(t, "Unlink")               /\ Unlink(t, l)
    \/ At(t, "Return")               /\ Return(t)

Next ==
    \E t \in Threads :
        \/ \E fn \in {"insert", "delete", "search"}, k \in Keys : Call(t, fn, k)
        \/ Work(t, loc[t])

Spec == Init /\ [][Next]_vars

FairSpec == Spec /\ \A t \in Threads : WF_vars(Work(t, loc[t]))

-----------------------------------------------------------------------------
(* Properties *)

TheRoot == node[RootHolder].right

InCall(t) == pc[t] # "idle"

(* Nothing below the root is ever reached or made: nodes have no children, *)
(* no parents and version 0, so that no descent, no rotation and no        *)
(* waiting for a change bit takes place (556-562, 652-658, 766-772).  And  *)
(* no deletion succeeds: the root's parent pointer, which the removal      *)
(* compares with the holder, is null (641, 887).                           *)
NeverBelowRoot ==
    /\ \A n \in 1 .. Len(node) :
         /\ node[n] = [NodeFG(node[n].key) EXCEPT !.right = node[n].right, !.height = node[n].height]
         /\ n # RootHolder => node[n].right = Null
    /\ \A t \in Threads :
         /\ pc[t] # "attempt"
         /\ pc[t] = "Return" /\ loc[t].fn = "delete" => ~loc[t].result

(* t looks for another key than the root's.                                *)
Stuck(t) ==
    /\ pc[t] \in {"LoadRoot", "LoadVersion", "WaitUntilNotChanging"}
    /\ TheRoot # Null /\ node[TheRoot].key # loc[t].k

(* A call returns, or it is stuck from some moment on for ever, whatever   *)
(* the others do: version 0 is not Unlinked, and so it waits, finds        *)
(* nothing to wait for, and starts over (556-558, 652-654, 766-768).  Only *)
(* a call for another key than the root's comes to that: whoever needs the *)
(* holder's lock gets it, and first insertions that replace each other's   *)
(* root all come to an end (637-645, 885-906).                             *)
ReturnsOrStuck == \A t \in Threads : InCall(t) ~> (~InCall(t) \/ []Stuck(t))
=============================================================================
