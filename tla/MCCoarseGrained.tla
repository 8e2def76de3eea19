--------------------------- MODULE MCCoarseGrained ---------------------------
(* CoarseGrained with the helpers of module AVL, for TLC.  Trees are the   *)
(* trees that sequences of the two operations can build from nullptr.      *)
EXTENDS CoarseGrained, AVL

RECURSIVE Closure(_)
Closure(S) ==
    LET T == S \cup {AVLInsert(n, k).root : n \in S, k \in Keys}
               \cup {AVLDelete(n, k).root : n \in S, k \in Keys}
    IN  IF T = S THEN S ELSE Closure(T)

MCTrees == Closure({Nil})
=============================================================================
