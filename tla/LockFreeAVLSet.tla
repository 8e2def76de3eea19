--------------------------- MODULE LockFreeAVLSet ---------------------------
(***************************************************************************)
(* What the tree of LockFreeAVL stands for, and its properties.  The set   *)
(* is that of the keys below minRoot: a KCAS changes it at one instant.    *)
(***************************************************************************)
EXTENDS LockFreeAVL, FiniteSets

VARIABLES       \* history variables
    contents,   \* the set the tree stands for
    seen        \* seen[t]: the presence of t's key at each moment of its call

svars == <<node, pc, loc, calls, fill, alive, contents, seen>>

Nodes == 1 .. Len(node)

RECURSIVE Below(_)
Below(n) == IF n = Null THEN {} ELSE {n} \cup Below(node[n].left) \cup Below(node[n].right)

InTree == Below(MaxRoot)

KeySet == {node[n].key : n \in Below(node[MinRoot].right)}

InCall(t) == pc[t] # "idle"

LInit ==
    /\ Init
    /\ contents = KeySet
    /\ seen = [t \in All |-> {}]

Observed ==
    /\ contents' = KeySet'
    /\ seen' = [t \in All |->
                  IF ~InCall(t)' \/ loc'[t].result THEN {}
                  ELSE seen[t] \cup {loc'[t].k \in contents'}]

LNext == Next /\ Observed

LSpec == LInit /\ [][LNext]_svars

-----------------------------------------------------------------------------
(* Properties *)

AllKeys ==
    (UNION {{r[2] : r \in Requests[t]} : t \in Threads})
    \cup (UNION {{f[i] : i \in DOMAIN f} : f \in Fills})

AbstractCall(t) ==
    IF ~InCall(t) THEN [state |-> "idle"]
    ELSE IF pc[t] = "Return" \/ loc[t].result
    THEN [state |-> "answered", fn |-> loc[t].fn, k |-> loc[t].k, result |-> loc[t].result]
    ELSE [state |-> "pending", fn |-> loc[t].fn, k |-> loc[t].k, seen |-> seen[t]]

Abstract == INSTANCE ConcurrentSet WITH
    Threads <- All, Keys <- AllKeys, set <- contents, call <- [t \in All |-> AbstractCall(t)]

(* insert, deleteNode and search answer as a set would at some moment      *)
(* between call and return, while others insert and delete other keys and  *)
(* rotate (lockfree2.cpp:76-210).  Two deletions of one key do break it,   *)
(* which is what UndeletedKeysStay is about.                               *)
ImplementsConcurrentSet == Abstract!CSpec

(* At every moment the words make one search tree: keys in order, each     *)
(* node reached once, parents pointing back, and the nodes in it are those *)
(* whose version is even (lockfree2.cpp:199-204, 225-235, 436-444).        *)
OneSearchTree ==
    /\ \A n \in InTree :
         /\ \A m \in Below(node[n].left) : node[m].key < node[n].key
         /\ \A m \in Below(node[n].right) : node[m].key > node[n].key
         /\ \A side \in {"left", "right"} :
              node[n][side] # Null => node[node[n][side]].parent = n
    /\ InTree = {n \in Nodes : ~IsMarked(node[n].ver)}

(* When no call is going on every height is right and no node leans by     *)
(* more than one, the check that checkHeightAndBalanceLF would make        *)
(* (correctness.cpp:137-156, lockfree2.cpp:282-364).                       *)
AtRest == alive /\ \A t \in All : ~InCall(t)

HeightOf(n) == IF n = Null THEN 0 ELSE node[n].height

BalancedAtRest ==
    AtRest => \A n \in Below(node[MinRoot].right) :
        LET l == HeightOf(node[n].left)
            r == HeightOf(node[n].right)
        IN  node[n].height = 1 + Max2(l, r) /\ l - r \in -1 .. 1

(* Whatever changes in a node, its version changes in the same step, so    *)
(* that an update prepared from older loads fails (lockfree2.cpp:140,      *)
(* 199-204, 234-235, 391, 442-444).                                        *)
ChangesAreVersioned ==
    [][\A n \in Nodes : node'[n] # node[n] => node'[n].ver > node[n].ver]_svars

(* The process dies in one place only: getSuccessor has returned null, or  *)
(* a child that had gone, because other threads were at work below the     *)
(* node being deleted.  Every other pointer is there when it is followed   *)
(* (lockfree2.cpp:180, 274, 298).                                          *)
DiesOnlyOfSuccessor ==
    [][alive /\ ~alive' =>
         \E t \in All : /\ pc[t] \in {"EraseTwoChild", "SuccessorVer"}
                        /\ loc[t].s = Null]_svars

-----------------------------------------------------------------------------
(* What the tests say, and the code does not do. *)

(* "Concurrent delete failed, missing" (correctness.cpp:323-327): a key    *)
(* that was inserted and that nobody deletes is there when the threads are *)
(* done.                                                                   *)
UndeletedKeysStay ==
    AtRest /\ fill = <<>> =>
        \A k \in AllKeys :
            /\ \A f \in Fills : \E i \in DOMAIN f : f[i] = k
            /\ \A t \in Threads : <<"delete", k>> \notin Requests[t]
            => k \in contents
=============================================================================
