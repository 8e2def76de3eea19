---------------------------- MODULE SequentialAVL ----------------------------
(***************************************************************************)
(* AVLTree of sequential.cpp: one tree, of which module AVL is the         *)
(* algorithm; here there is no err, insert and deleteNode return nothing.  *)
(* Who calls it is in module Programs.  The coarse-grained tree does the   *)
(* same to its keys, one call at a time.                                   *)
(***************************************************************************)
EXTENDS AVL

CONSTANT Keys    \* the keys the properties ask about

VARIABLE root

InsertHelper(n, k) == AVLInsert(n, k).root

(* Removes the successor and forgets to move its key up. *)
DeleteNodeHelper_KeepsKey(n, k) ==
    IF ~IsNil(n) /\ k = n.key /\ ~IsNil(n.left) /\ ~IsNil(n.right)
    THEN AVLDelete(n, MinValueNode(n.right).key).root
    ELSE AVLDelete(n, k).root

DeleteNodeHelper(n, k) == AVLDelete(n, k).root

SearchHelper(n, k) == AVLSearch(n, k)

Insert(k) == root' = InsertHelper(root, k)

DeleteNode(k) == root' = DeleteNodeHelper(root, k)

Search(k) == UNCHANGED root

-----------------------------------------------------------------------------
(* Properties *)

(* At every moment the tree is a search tree on all levels, not only       *)
(* between a node and its children, its stored heights are the true ones   *)
(* and no node is out of balance (what correctness.cpp:98-114 checks after *)
(* its test sequences).                                                    *)
Balanced == Ordered(root) /\ CheckHeightAndBalance(root)

(* One more call from any tree that was built: insertHelper adds its key,  *)
(* deleteNodeHelper removes its key, neither disturbs another one, and     *)
(* searchHelper finds exactly the keys that are there                      *)
(* (sequential.cpp:50-183).                                                *)
CallsMatchSet ==
    \A k \in Keys :
        /\ KeysOf(InsertHelper(root, k)) = KeysOf(root) \cup {k}
        /\ KeysOf(DeleteNodeHelper(root, k)) = KeysOf(root) \ {k}
        /\ SearchHelper(root, k) = (k \in KeysOf(root))
=============================================================================
