--------------------------- MODULE FineGrainedTest ---------------------------
(***************************************************************************)
(* FineGrained with a record of what its callers were told, and what       *)
(* src/correctness.cpp and the comments of the code say of it.             *)
(***************************************************************************)
EXTENDS FineGrained

VARIABLES       \* history variables
    present,    \* the keys that the calls that returned put in the tree
    refused,    \* the keys whose insertion was refused
    deleted,    \* the keys whose deletion returned
    watch       \* watch[t]: what happened to t's key since t began a search

fvars == <<node, owner, root, pc, loc, calls, fill, alive, present, refused, deleted, watch>>

hvars == <<present, refused, deleted>>

Below(S) == {node[n].left : n \in S} \cup {node[n].right : n \in S}

RECURSIVE Closure(_)
Closure(S) ==
    LET T == S \cup (Below(S) \ {Null})
    IN  IF T = S THEN S ELSE Closure(T)

(* The nodes that a traversal from n can reach. *)
Reach(n) == IF n = Null THEN {} ELSE Closure({n})

KeysFrom(n) == {node[m].key : m \in Reach(n)}

Told(t) ==
    LET l == loc[t]
        told(fn, err) == l.fn = fn /\ l.err = err
    IN  IF pc[t] # "Return" \/ pc'[t] # "idle" THEN UNCHANGED hvars
        ELSE /\ present' = IF told("insert", FALSE) THEN present \cup {l.k}
                           ELSE IF l.fn = "delete" THEN present \ {l.k}
                           ELSE present
             /\ refused' = IF told("insert", TRUE) THEN refused \cup {l.k} ELSE refused
             /\ deleted' = IF l.fn = "delete" THEN deleted \cup {l.k} ELSE deleted

(* The key that call l was made with; deleteHelper goes on with another. *)
Asked(l) == IF l.stack = <<>> THEN l.k ELSE l.stack[1].k

(* A call that inserts or deletes k is under way. *)
Changing(fn, k) == \E u \in All : pc[u] # "idle" /\ loc[u].fn = fn /\ Asked(loc[u]) = k

(* Searches can pass by the keys below this node, because t                *)
(* - has rotated it up and its parent's pointer does not lead to it yet (a *)
(*   search between the two stores of the rotation goes round in a circle  *)
(*   until the second),                                                    *)
(* - copies it, an only child, into its parent, which t deletes.           *)
Unsettled(t) ==
    LET l == loc[t]
        f == l.stack[Len(l.stack)]
        linked == IF l.stack = <<>> THEN root ELSE node[f.node][f.side]
    IN  CASE pc[t] \in {"TopHeight", "ChildHeight", "LinkTurned"} -> l.turn.child
          [] pc[t] = "Ascend" /\ l.ret # linked -> l.ret
          [] pc[t] \in {"CopyLeft", "CopyRight"} -> l.lock
          [] OTHER -> Null

(* A change that may hide k goes on: one of these, or k takes the place of *)
(* a deleted key, and t removes it further down.                           *)
Moving(k) ==
    \E t \in All :
        /\ pc[t] # "idle"
        /\ \/ k \in KeysFrom(Unsettled(t))
           \/ loc[t].fn = "delete" /\ loc[t].k = k /\ Asked(loc[t]) # k

NoWatch == [sure |-> TRUE, maybe |-> FALSE, moved |-> FALSE]

Searching(t) == pc[t] # "idle" /\ loc[t].fn = "search"

(* sure: the key is there; maybe: it may be there; moved: something is     *)
(* going on that may hide it.                                              *)
Now(t) ==
    LET k == loc[t].k
    IN  [sure  |-> k \in present /\ ~Changing("delete", k),
         maybe |-> k \in present \/ Changing("insert", k),
         moved |-> Moving(k)]

(* The same over the whole of the search: sure all the time, the others at *)
(* some time.                                                              *)
Watched ==
    watch' = [t \in Threads |->
                IF ~Searching(t)' THEN NoWatch
                ELSE LET now == Now(t)'
                     IN  [sure  |-> watch[t].sure /\ now.sure,
                          maybe |-> watch[t].maybe \/ now.maybe,
                          moved |-> watch[t].moved \/ now.moved]]

TInit ==
    /\ Init
    /\ present = {} /\ refused = {} /\ deleted = {}
    /\ watch = [t \in Threads |-> NoWatch]

TNext ==
    /\ \/ /\ FillTree \/ \E t \in Threads, k \in Keys : \E fn \in Ops[t] : Call(t, fn, k)
          /\ UNCHANGED hvars
       \/ \E t \in All : Work(t, loc[t]) /\ Told(t)
    /\ Watched

TSpec == TInit /\ [][TNext]_fvars

-----------------------------------------------------------------------------

(* No call is going on, and the process lives. *)
AtRest == alive /\ \A t \in All : pc[t] = "idle"

-----------------------------------------------------------------------------
(* Properties *)

TypeOK ==
    /\ root \in 0 .. Len(node)
    /\ Len(owner) = Len(node)
    /\ \A n \in 1 .. Len(node) :
         /\ node[n].left \in 0 .. Len(node) /\ node[n].right \in 0 .. Len(node)
         /\ node[n].height \in 1 .. Len(node)
         /\ owner[n] \in All \cup {Free}

(* One thread: between calls the tree holds the keys its callers were told *)
(* of, in search order, and each once (finegrained.cpp:68-219).            *)
TreeHoldsKeys ==
    AtRest =>
        /\ KeysFrom(root) = present
        /\ \A n \in Reach(root) :
             /\ \A k \in KeysFrom(node[n].left) : k < node[n].key
             /\ \A k \in KeysFrom(node[n].right) : k > node[n].key

(* One thread: while nothing has been deleted every height is right and no *)
(* node leans by more than one, what checkHeightAndBalanceFG tests         *)
(* (correctness.cpp:116-135, finegrained.cpp:105-121).                     *)
TreeIsBalanced ==
    AtRest /\ deleted = {} =>
        \A n \in Reach(root) :
            /\ node[n].height = WithHeight(node, n)[n].height
            /\ Balance(node, n) \in -1 .. 1

(* One thread: a call leaves no node locked but the one that held the key  *)
(* an insertion was refused for (finegrained.cpp:79-103, 146-181).         *)
LocksReleased ==
    AtRest =>
        \A n \in Reach(root) : owner[n] # Free => node[n].key \in refused

(* One thread changes the tree: insert answers as the set of keys would    *)
(* (finegrained.cpp:101-103, 126-135).                                     *)
InsertAnswers ==
    [][\A t \in All :
         pc[t] = "Return" /\ pc'[t] = "idle" /\ loc[t].fn = "insert" =>
             (loc[t].err <=> loc[t].k \in present)]_fvars

(* One thread changes the tree while others search, under no lock: a       *)
(* search finds no key that was in nobody's tree, and misses a key that    *)
(* was there all the time only if meanwhile a rotation above it went on, a *)
(* deletion copied the subtree with the key one level up, or the key took  *)
(* the place of a deleted one (finegrained.cpp:222-236, 20-40, 167-169,    *)
(* 177-182).  Nothing else hides a key: no insertion or deletion without a *)
(* rotation, no store of a pointer or height on the way up.                *)
SearchAnswers ==
    [][\A t \in Threads :
         pc[t] = "Return" /\ pc'[t] = "idle" /\ loc[t].fn = "search" =>
             /\ ~loc[t].err => watch[t].maybe
             /\ loc[t].err /\ watch[t].sure => watch[t].moved]_fvars

-----------------------------------------------------------------------------
(* What the tests and the comments say, and the code does not do. *)

(* "Concurrent insert failed, missing" (correctness.cpp:256-261): when all *)
(* insertions have returned, each key is found.                            *)
InsertedKeysAreFound ==
    AtRest => present \subseteq KeysFrom(root)

(* testSequentialDelete deletes keys that are in the tree, one by one, and *)
(* expects to come to an end (correctness.cpp:268-307): no call kills the  *)
(* process or waits for a lock that its own thread holds.                  *)
Waiting(t) == pc[t] \in {"LockRoot", "LockChild", "LockOnly", "LockRight", "LockLeft"}

CallsComplete ==
    refused = {} => alive /\ \A t \in All : Waiting(t) => owner[loc[t].lock] # t
=============================================================================
