--------------------------------- MODULE AVL ---------------------------------
(***************************************************************************)
(* The AVL algorithm that sequential.cpp and coarsegrained.cpp share, as   *)
(* functions on trees.  A tree is a value: nullptr is Nil and a node is a  *)
(* record with the fields of class Node.  "node->left = ...; return node"  *)
(* becomes the record with the field replaced; err, an out parameter,      *)
(* comes back beside the subtree.                                          *)
(*                                                                         *)
(* The operators are recursive, as the code is: TLC evaluates them.        *)
(***************************************************************************)
EXTENDS Integers, FiniteSets

Nil == [height |-> 0]

NewNode(k) == [key |-> k, left |-> Nil, right |-> Nil, height |-> 1]

IsNil(n) == n = Nil

LOCAL Larger(a, b) == IF a > b THEN a ELSE b

Height(n) == n.height

GetBalance(n) == IF IsNil(n) THEN 0 ELSE Height(n.left) - Height(n.right)

(* node->height = 1 + max(height(node->left), height(node->right)) *)
UpdateHeight(n) ==
    [n EXCEPT !.height = 1 + Larger(Height(n.left), Height(n.right))]

RightRotate(y) ==
    LET x == y.left
    IN  UpdateHeight([x EXCEPT !.right = UpdateHeight([y EXCEPT !.left = x.right])])

LeftRotate(x) ==
    LET y == x.right
    IN  UpdateHeight([y EXCEPT !.left = UpdateHeight([x EXCEPT !.right = y.left])])

RECURSIVE MinValueNode(_)
MinValueNode(n) == IF IsNil(n.left) THEN n ELSE MinValueNode(n.left)

(* The four cases after an insertion look at the inserted key. *)
RebalanceInsert(n, k) ==
    LET balance == GetBalance(n)
    IN  CASE balance > 1 /\ k < n.left.key -> RightRotate(n)
          [] balance < -1 /\ k > n.right.key -> LeftRotate(n)
          [] balance > 1 /\ k > n.left.key ->
               RightRotate([n EXCEPT !.left = LeftRotate(n.left)])
          [] balance < -1 /\ k < n.right.key ->
               LeftRotate([n EXCEPT !.right = RightRotate(n.right)])
          [] OTHER -> n

(* A child in balance counts as leaning the other way. *)
RebalanceDelete_Strict(n) ==
    LET balance == GetBalance(n)
    IN  CASE balance > 1 /\ GetBalance(n.left) > 0 -> RightRotate(n)
          [] balance > 1 /\ GetBalance(n.left) < 0 ->
               RightRotate([n EXCEPT !.left = LeftRotate(n.left)])
          [] balance < -1 /\ GetBalance(n.right) < 0 -> LeftRotate(n)
          [] balance < -1 /\ GetBalance(n.right) > 0 ->
               LeftRotate([n EXCEPT !.right = RightRotate(n.right)])
          [] OTHER -> n

(* The four cases after a deletion look at the balance of the taller child. *)
RebalanceDelete(n) ==
    LET balance == GetBalance(n)
    IN  CASE balance > 1 /\ GetBalance(n.left) >= 0 -> RightRotate(n)
          [] balance > 1 /\ GetBalance(n.left) < 0 ->
               RightRotate([n EXCEPT !.left = LeftRotate(n.left)])
          [] balance < -1 /\ GetBalance(n.right) <= 0 -> LeftRotate(n)
          [] balance < -1 /\ GetBalance(n.right) > 0 ->
               LeftRotate([n EXCEPT !.right = RightRotate(n.right)])
          [] OTHER -> n

RECURSIVE AVLInsert(_, _)
AVLInsert(n, k) ==
    IF IsNil(n) THEN [root |-> NewNode(k), err |-> FALSE]
    ELSE IF k = n.key THEN [root |-> n, err |-> TRUE]
    ELSE LET sub == AVLInsert(IF k < n.key THEN n.left ELSE n.right, k)
             linked == IF k < n.key THEN [n EXCEPT !.left = sub.root]
                                    ELSE [n EXCEPT !.right = sub.root]
         IN  [root |-> RebalanceInsert(UpdateHeight(linked), k), err |-> sub.err]

(* err is set below a missing key and above a freed leaf alike; once set   *)
(* it stays set.  A node with one child takes the child's contents.        *)
RECURSIVE AVLDelete(_, _)
AVLDelete(n, k) ==
    IF IsNil(n) THEN [root |-> Nil, err |-> TRUE]
    ELSE LET sub ==
               CASE k < n.key -> AVLDelete(n.left, k)
                 [] k > n.key -> AVLDelete(n.right, k)
                 [] OTHER -> IF IsNil(n.left) \/ IsNil(n.right)
                             THEN [root |-> Nil, err |-> FALSE]
                             ELSE AVLDelete(n.right, MinValueNode(n.right).key)
             after ==
               CASE k < n.key -> [n EXCEPT !.left = sub.root]
                 [] k > n.key -> [n EXCEPT !.right = sub.root]
                 [] OTHER ->
                      CASE IsNil(n.left) -> n.right
                        [] IsNil(n.right) -> n.left
                        [] OTHER -> [n EXCEPT !.key = MinValueNode(n.right).key,
                                              !.right = sub.root]
         IN  IF IsNil(after) THEN [root |-> Nil, err |-> TRUE]
             ELSE [root |-> RebalanceDelete(UpdateHeight(after)), err |-> sub.err]

RECURSIVE AVLSearch(_, _)
AVLSearch(n, k) ==
    IF IsNil(n) THEN FALSE
    ELSE IF k = n.key THEN TRUE
    ELSE AVLSearch(IF k < n.key THEN n.left ELSE n.right, k)

-----------------------------------------------------------------------------
(* What a tree must be *)

RECURSIVE KeysOf(_)
KeysOf(n) == IF IsNil(n) THEN {} ELSE {n.key} \cup KeysOf(n.left) \cup KeysOf(n.right)

(* Every key left of a node is smaller, every key right of it larger. *)
RECURSIVE Ordered(_)
Ordered(n) ==
    IsNil(n) \/ /\ \A k \in KeysOf(n.left) : k < n.key
                /\ \A k \in KeysOf(n.right) : k > n.key
                /\ Ordered(n.left) /\ Ordered(n.right)

(* checkHeightAndBalanceCG of correctness.cpp finds nothing to throw. *)
RECURSIVE TrueHeight(_)
TrueHeight(n) == IF IsNil(n) THEN 0
                 ELSE 1 + Larger(TrueHeight(n.left), TrueHeight(n.right))

RECURSIVE CheckHeightAndBalance(_)
CheckHeightAndBalance(n) ==
    IsNil(n) \/ /\ n.height = TrueHeight(n)
                /\ TrueHeight(n.left) - TrueHeight(n.right) \in -1 .. 1
                /\ ~IsNil(n.left) => n.left.key < n.key
                /\ ~IsNil(n.right) => n.right.key > n.key
                /\ CheckHeightAndBalance(n.left) /\ CheckHeightAndBalance(n.right)
=============================================================================
