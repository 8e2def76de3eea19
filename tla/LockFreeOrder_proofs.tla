-------------------------- MODULE LockFreeOrder_proofs --------------------------
(***************************************************************************)
(* Proofs about the order of the non-blocking tree, for any number of      *)
(* threads, keys and calls: it is a search tree at every moment, although  *)
(* a thread adds or takes out a node, or gives a node another key, by one  *)
(* CAS in the middle of what the others do, and a node is taken out for    *)
(* good.                                                                   *)
(*                                                                         *)
(* The argument needs the order in which the nodes stand in the tree, not  *)
(* just the pointers: it is an order g of all nodes from left to right,    *)
(* which every change of a pointer carries on to a new one.  Along it the  *)
(* keys grow.  A thread on its way down knows between which nodes of it    *)
(* its key belongs, as long as the words it has read are still there.      *)
(***************************************************************************)
EXTENDS LockFreeBST_proofs, FiniteSetTheorems

(* The nodes of the tree: published, linked and not taken out. *)
Tree == {n \in Nodes : Known(n) /\ ~Gone(n)}

(* An order of nodes from left to right: node x is at pos, and the nodes   *)
(* under it are between lo and hi.                                         *)
Labels == [lo : [Nat -> Int], pos : [Nat -> Int], hi : [Nat -> Int]]

(* Node x of T has its place.  The bounds of its subtree are those of the  *)
(* whole or nodes that have it below them, on the right or on the left;    *)
(* its children share what is between them; and where it has none there    *)
(* are no nodes.                                                           *)
Placed(T, ch, g, x) ==
    /\ g.lo[x] < g.pos[x] /\ g.pos[x] < g.hi[x]
    /\ g.lo[Root] <= g.lo[x] /\ g.hi[x] <= g.hi[Root]
    /\ \/ g.lo[x] = g.lo[Root]
       \/ \E y \in T : g.pos[y] = g.lo[x] /\ ~ch[y].right.null /\ g.hi[x] <= g.hi[y]
    /\ \/ g.hi[x] = g.hi[Root]
       \/ \E y \in T : g.pos[y] = g.hi[x] /\ ~ch[y].left.null /\ g.lo[y] <= g.lo[x]
    /\ \A y : ch[x].left = Ptr(y) => y \in T /\ g.lo[y] = g.lo[x] /\ g.hi[y] = g.pos[x]
    /\ \A y : ch[x].right = Ptr(y) => y \in T /\ g.lo[y] = g.pos[x] /\ g.hi[y] = g.hi[x]
    /\ \A y \in T : ch[x].left.null => g.pos[y] <= g.lo[x] \/ g.pos[x] <= g.pos[y]
    /\ \A y \in T : ch[x].right.null => g.pos[y] <= g.pos[x] \/ g.hi[x] <= g.pos[y]

Shape(T, ch, g) ==
    /\ \A x \in T : Placed(T, ch, g, x)
    /\ \A x, y \in T : g.pos[x] = g.pos[y] => x = y

(* Keys grow from left to right, but for a node that has given its key to  *)
(* one before it and waits to be taken out.                                *)
KeysInv(g) ==
    /\ key[Root] = -1
    /\ \A x, y \in Tree : g.pos[x] < g.pos[y] =>
         key[x] < key[y] \/ (key[x] = key[y] /\ Leaves(y) /\ child[y].left.null)

(* A node that is marked has one child at most. *)
MarkedInv == \A n \in Nodes : op[n].flag = "MARK" => \E s \in Sides : child[n][s].null

(* The pointer of c on side s is right of x. *)
LeftOf(g, x, c, s) == g.pos[x] < g.pos[c] \/ (x = c /\ s = "right")

(* A node with key k belongs there. *)
Fits(g, c, s, k) ==
    \A x \in Tree : /\ LeftOf(g, x, c, s) => key[x] < k
                    /\ ~LeftOf(g, x, c, s) => k < key[x]

(* The nodes that wait to be added are added where they belong. *)
AddsInv(g) ==
    \A n \in Nodes :
        LET d == desc[op[n].op]
        IN  Waiting(n) /\ d.expected.null => Fits(g, n, d.side, key[d.update.node])

(* Relocation i gives dest the key of the node that comes right after it.  *)
MoveOK(g, i) ==
    LET d == desc[i]
        w == Word("RELOCATE", i)
    IN  /\ d.key_to_remove \in Int /\ d.key_to_put \in Int /\ d.key_to_remove < d.key_to_put
        /\ op[d.dest] = d.dest_op => key[d.dest] = d.key_to_remove
        /\ op[d.dest] = w =>
             /\ key[d.dest] \in {d.key_to_remove, d.key_to_put}
             /\ \E m \in Nodes : m # d.dest /\ op[m] = w
        /\ d.state = "SUCCEED" /\ op[d.dest] # w => key[d.dest] >= d.key_to_put
        /\ \A m \in Nodes : m # d.dest /\ op[m] = w =>
             /\ child[m].left.null /\ key[m] = d.key_to_put
             /\ op[d.dest] \in {d.dest_op, w} => g.lo[m] = g.pos[d.dest]
        /\ \A m \in Nodes : m # d.dest /\ op[m].op = i /\ op[m] # w =>
             op[d.dest] \notin {d.dest_op, w}

MovesInv(g) == \A i \in 1 .. Len(desc) : IsRelocate(i) => MoveOK(g, i)

(* Key k is not right of the subtree of x. *)
Upper(g, x, k) == \A y \in Tree : g.hi[x] <= g.pos[y] => k < key[y]

(* The subtree of x has place for what find looks for. *)
Good(g, x, l) ==
    /\ l.start = Root => Upper(g, x, l.k)
    /\ l.start = Root /\ op[l.last_right] = l.last_right_op =>
         g.lo[x] = g.pos[l.last_right] /\ key[l.last_right] < l.k
    /\ l.start # Root /\ op[l.dest] = l.dest_op => g.lo[x] = g.pos[l.dest]

(* The node of the tree that a thread at c is at, or comes to next.        *)
Heirs(c) == {x \in Tree : x = c \/ (Gone(c) /\ \E s \in Sides : child[c][s] = Ptr(x))}

Bounded(g, l) == l.start = Root => \A x \in Heirs(l.curr) : Upper(g, x, l.k)
Leads(g, l) == Seen(l.last_right, l.last_right_op) /\ \A x \in Heirs(l.curr) : Good(g, x, l)

IsHere(l) == op[l.curr] = l.curr_op
AtDest(l) == op[l.dest] = l.dest_op

(* The key of dest is the one to delete. *)
KeyAtDest(l) == l.start # Root /\ AtDest(l) => key[l.dest] = l.k

(* find turns right at curr. *)
RightTurn(g, l) ==
    /\ l.start = Root /\ IsHere(l) => key[l.curr] < l.k
    /\ l.start # Root /\ l.curr # l.start => ~AtDest(l)
    /\ l.curr = l.start \/ Bounded(g, l)

FitsHere(g, l) == IsHere(l) => Fits(g, l.curr, FoundSide(l), l.k)

(* curr is the node right after dest. *)
Follows(g, l) == IsHere(l) /\ AtDest(l) => g.lo[l.curr] = g.pos[l.dest]
Chosen(l) == l.curr # l.dest /\ child[l.curr].left.null /\ l.k < key[l.curr]

(* What is known of the order of the tree and the locals l of a thread at p. *)
Course(g, p, l) ==
    LET d == desc[l.helped]
    IN
    /\ KeyAtDest(l)
    /\ p = "FindRight" => RightTurn(g, l)
    /\ p = "FindNext" =>
         Seen(l.last_right, l.last_right_op) /\ (l.next \in Tree => Good(g, l.next, l))
    /\ p = "FindKey" => Leads(g, l) /\ (l.start # Root /\ AtDest(l) => key[l.curr] >= l.k)
    /\ p = "FindLeft" \/ (p = "FindCheck" /\ l.found = "NOTFOUND_L") =>
         Leads(g, l) /\ l.k < key[l.curr]
    /\ p = "FindCheck" /\ l.found = "NOTFOUND_R" =>
         RightTurn(g, l) /\ l.last_right = l.curr /\ l.last_right_op = l.curr_op
    /\ p = "FindCheckCurr" /\ l.found # "FOUND" /\ l.start = Root => FitsHere(g, l)
    /\ p \in Inserting => FitsHere(g, l)
    /\ (p = "FindCheckCurr" /\ l.found = "FOUND") \/ p \in {"DeleteLeft", "DeleteRight", "DeleteMark"} =>
         (IsHere(l) => key[l.curr] = l.k)
    /\ p = "DeleteMark" => (IsHere(l) => \E s \in Sides : child[l.curr][s].null)
    /\ (p = "FindCheckCurr" /\ l.start # Root) \/ p = "DeleteRecheck" =>
         Follows(g, l) /\ (IsHere(l) /\ AtDest(l) => Chosen(l))
    /\ p \in {"DeleteKey", "DeleteRelocate"} => Follows(g, l) /\ (IsHere(l) => Chosen(l))
    /\ p = "DeleteRelocate" => (IsHere(l) => l.new_key = key[l.curr])
    /\ p = "RelocateUnflag" => (op[d.dest] = Word("RELOCATE", l.helped) => key[d.dest] = d.key_to_put)

OrderInv(g) ==
    /\ Shape(Tree, child, g) /\ KeysInv(g) /\ MarkedInv /\ AddsInv(g) /\ MovesInv(g)
    /\ \A t \in All : Course(g, pc[t], loc[t])

-----------------------------------------------------------------------------
(* The order when a node is added or taken out. *)

(* Node z comes next to c, on side s. *)
Grown(g, c, s, z) ==
    [lo |-> [x \in Nat |-> IF x # z THEN 2 * g.lo[x]
                           ELSE IF s = "left" THEN 2 * g.lo[c] ELSE 2 * g.pos[c]],
     pos |-> [x \in Nat |-> IF x # z THEN 2 * g.pos[x]
                            ELSE IF s = "left" THEN 2 * g.pos[c] - 1 ELSE 2 * g.pos[c] + 1],
     hi |-> [x \in Nat |-> IF x # z THEN 2 * g.hi[x]
                           ELSE IF s = "left" THEN 2 * g.pos[c] ELSE 2 * g.hi[c]]]

(* Node e goes; the bound v takes the place of e as a bound. *)
Pruned(g, e, v) ==
    [lo |-> [x \in Nat |-> IF g.lo[x] = g.pos[e] THEN v ELSE g.lo[x]],
     pos |-> g.pos,
     hi |-> [x \in Nat |-> IF g.hi[x] = g.pos[e] THEN v ELSE g.hi[x]]]

LEMMA GrownIs ==
    ASSUME NEW g \in Labels, NEW c \in Nat, NEW s, NEW z \in Nat, NEW h, h = Grown(g, c, s, z)
    PROVE  /\ h \in Labels
           /\ \A x \in Nat : x # z =>
                h.lo[x] = 2 * g.lo[x] /\ h.pos[x] = 2 * g.pos[x] /\ h.hi[x] = 2 * g.hi[x]
           /\ s = "left" =>
                h.lo[z] = 2 * g.lo[c] /\ h.pos[z] = 2 * g.pos[c] - 1 /\ h.hi[z] = 2 * g.pos[c]
           /\ s # "left" =>
                h.lo[z] = 2 * g.pos[c] /\ h.pos[z] = 2 * g.pos[c] + 1 /\ h.hi[z] = 2 * g.hi[c]
<1>1. g.lo \in [Nat -> Int] /\ g.pos \in [Nat -> Int] /\ g.hi \in [Nat -> Int]
  BY DEF Labels
<1>2. /\ h.lo = [x \in Nat |-> IF x # z THEN 2 * g.lo[x]
                               ELSE IF s = "left" THEN 2 * g.lo[c] ELSE 2 * g.pos[c]]
      /\ h.pos = [x \in Nat |-> IF x # z THEN 2 * g.pos[x]
                                ELSE IF s = "left" THEN 2 * g.pos[c] - 1 ELSE 2 * g.pos[c] + 1]
      /\ h.hi = [x \in Nat |-> IF x # z THEN 2 * g.hi[x]
                               ELSE IF s = "left" THEN 2 * g.pos[c] ELSE 2 * g.hi[c]]
      /\ h = [lo |-> h.lo, pos |-> h.pos, hi |-> h.hi]
  BY DEF Grown
<1>3. h.lo \in [Nat -> Int] /\ h.pos \in [Nat -> Int] /\ h.hi \in [Nat -> Int]
  BY <1>1, <1>2
<1> QED BY <1>2, <1>3 DEF Labels

(* In h node e has left its bound to what was bounded by it.               *)
HasBounds(h, g, e, v) ==
    /\ h \in Labels /\ h.pos = g.pos
    /\ \A x \in Nat :
         /\ h.lo[x] = (IF g.lo[x] = g.pos[e] THEN v ELSE g.lo[x])
         /\ h.hi[x] = (IF g.hi[x] = g.pos[e] THEN v ELSE g.hi[x])

LEMMA PrunedIs ==
    ASSUME NEW g \in Labels, NEW e \in Nat, NEW v, v \in Int
    PROVE  HasBounds(Pruned(g, e, v), g, e, v)
<1>0. PICK h : h = Pruned(g, e, v)
  OBVIOUS
<1>1. g.lo \in [Nat -> Int] /\ g.pos \in [Nat -> Int] /\ g.hi \in [Nat -> Int]
  BY DEF Labels
<1>2. /\ h.lo = [x \in Nat |-> IF g.lo[x] = g.pos[e] THEN v ELSE g.lo[x]]
      /\ h.pos = g.pos
      /\ h.hi = [x \in Nat |-> IF g.hi[x] = g.pos[e] THEN v ELSE g.hi[x]]
      /\ h = [lo |-> h.lo, pos |-> h.pos, hi |-> h.hi]
  BY <1>0 DEF Pruned
<1>3. h.lo \in [Nat -> Int] /\ h.pos \in [Nat -> Int] /\ h.hi \in [Nat -> Int]
  BY <1>1, <1>2
<1>4. h \in Labels
  BY <1>2, <1>3 DEF Labels
<1> QED BY <1>0, <1>2, <1>4 DEF HasBounds

LEMMA LabelTypes ==
    ASSUME NEW g \in Labels
    PROVE  \A x \in Nat : g.lo[x] \in Int /\ g.pos[x] \in Int /\ g.hi[x] \in Int
BY DEF Labels

(* A new leaf keeps the shape. *)
LEMMA ShapeGrows ==
    ASSUME NEW g \in Labels, NEW T, T \subseteq Nat, Root \in T, NEW ch, NEW ch2, Shape(T, ch, g),
           NEW c \in T, NEW s \in Sides, NEW z \in Nat, z \notin T,
           ch[c][s].null, ch2[c][s] = Ptr(z),
           \A x \in T, r \in Sides : x # c \/ r # s => ch2[x][r] = ch[x][r],
           \A r \in Sides : ch2[z][r].null,
           NEW h, h = Grown(g, c, s, z)
    PROVE  Shape(T \cup {z}, ch2, h)
<1> DEFINE T2 == T \cup {z}
<1>1. /\ \A x \in T : g.lo[x] \in Int /\ g.pos[x] \in Int /\ g.hi[x] \in Int
      /\ \A x \in T : h.lo[x] = 2 * g.lo[x] /\ h.pos[x] = 2 * g.pos[x] /\ h.hi[x] = 2 * g.hi[x]
      /\ s = "left" => h.lo[z] = 2 * g.lo[c] /\ h.pos[z] = 2 * g.pos[c] - 1 /\ h.hi[z] = 2 * g.pos[c]
      /\ s # "left" => h.lo[z] = 2 * g.pos[c] /\ h.pos[z] = 2 * g.pos[c] + 1 /\ h.hi[z] = 2 * g.hi[c]
  BY GrownIs, LabelTypes
<1>2. s \in {"left", "right"} /\ "left" \in Sides /\ "right" \in Sides
  BY DEF Sides
<1>3. \A y : Ptr(y).null = FALSE /\ Ptr(y).node = y
  BY DEF Ptr
<1>4. \A x \in T, r \in Sides : ~ch[x][r].null => ch2[x][r] = ch[x][r]
  OBVIOUS
<1>5. \A x \in T : Placed(T, ch, g, x)
  BY DEF Shape
<1>50. \A x, y \in T : g.pos[x] = g.pos[y] => x = y
  BY DEF Shape
<1>6. ASSUME NEW x \in T PROVE Placed(T2, ch2, h, x)
  <2>1. h.lo[x] < h.pos[x] /\ h.pos[x] < h.hi[x] /\ h.lo[Root] <= h.lo[x] /\ h.hi[x] <= h.hi[Root]
    BY <1>1, <1>5 DEF Placed
  <2>2. \/ h.lo[x] = h.lo[Root]
        \/ \E y \in T2 : h.pos[y] = h.lo[x] /\ ~ch2[y].right.null /\ h.hi[x] <= h.hi[y]
    <3>1. CASE g.lo[x] = g.lo[Root]
      BY <1>1, <3>1
    <3>2. CASE \E y \in T : g.pos[y] = g.lo[x] /\ ~ch[y].right.null /\ g.hi[x] <= g.hi[y]
      <4>1. PICK y \in T : g.pos[y] = g.lo[x] /\ ~ch[y].right.null /\ g.hi[x] <= g.hi[y]
        BY <3>2
      <4>2. h.pos[y] = h.lo[x] /\ h.hi[x] <= h.hi[y]
        BY <1>1, <4>1
      <4>3. ~ch2[y].right.null
        BY <1>2, <1>4, <4>1
      <4> QED BY <4>2, <4>3
    <3> QED BY <1>5, <3>1, <3>2 DEF Placed
  <2>3. \/ h.hi[x] = h.hi[Root]
        \/ \E y \in T2 : h.pos[y] = h.hi[x] /\ ~ch2[y].left.null /\ h.lo[y] <= h.lo[x]
    <3>1. CASE g.hi[x] = g.hi[Root]
      BY <1>1, <3>1
    <3>2. CASE \E y \in T : g.pos[y] = g.hi[x] /\ ~ch[y].left.null /\ g.lo[y] <= g.lo[x]
      <4>1. PICK y \in T : g.pos[y] = g.hi[x] /\ ~ch[y].left.null /\ g.lo[y] <= g.lo[x]
        BY <3>2
      <4>2. h.pos[y] = h.hi[x] /\ h.lo[y] <= h.lo[x]
        BY <1>1, <4>1
      <4>3. ~ch2[y].left.null
        BY <1>2, <1>4, <4>1
      <4> QED BY <4>2, <4>3
    <3> QED BY <1>5, <3>1, <3>2 DEF Placed
  <2>4. \A y : ch2[x].left = Ptr(y) => y \in T2 /\ h.lo[y] = h.lo[x] /\ h.hi[y] = h.pos[x]
    <3>1. CASE x = c /\ s = "left"
      BY <1>1, <1>3, <3>1
    <3>2. CASE ~(x = c /\ s = "left")
      <4>1. ch2[x].left = ch[x].left
        <5>1. x # c \/ "left" # s
          BY <3>2
        <5>2. ch2[x]["left"] = ch[x]["left"]
          BY <1>2, <5>1
        <5> QED BY <5>2
      <4>2. ASSUME NEW y, ch[x].left = Ptr(y) PROVE y \in T /\ g.lo[y] = g.lo[x] /\ g.hi[y] = g.pos[x]
        <5>1. Placed(T, ch, g, x)
          BY <1>5
        <5> QED BY <4>2, <5>1 DEF Placed
      <4>3. ASSUME NEW y, ch[x].left = Ptr(y) PROVE y \in T2 /\ h.lo[y] = h.lo[x] /\ h.hi[y] = h.pos[x]
        <5>1. y \in T /\ g.lo[y] = g.lo[x] /\ g.hi[y] = g.pos[x]
          BY <4>2, <4>3
        <5>2. h.lo[y] = 2 * g.lo[y] /\ h.hi[y] = 2 * g.hi[y] /\ h.lo[x] = 2 * g.lo[x] /\ h.pos[x] = 2 * g.pos[x]
          BY <1>1, <5>1
        <5> QED BY <5>1, <5>2
      <4> QED BY <4>1, <4>3
    <3> QED BY <3>1, <3>2
  <2>5. \A y : ch2[x].right = Ptr(y) => y \in T2 /\ h.lo[y] = h.pos[x] /\ h.hi[y] = h.hi[x]
    <3>1. CASE x = c /\ s = "right"
      BY <1>1, <1>3, <3>1
    <3>2. CASE ~(x = c /\ s = "right")
      <4>1. ch2[x].right = ch[x].right
        <5>1. x # c \/ "right" # s
          BY <3>2
        <5>2. ch2[x]["right"] = ch[x]["right"]
          BY <1>2, <5>1
        <5> QED BY <5>2
      <4>2. ASSUME NEW y, ch[x].right = Ptr(y) PROVE y \in T /\ g.lo[y] = g.pos[x] /\ g.hi[y] = g.hi[x]
        <5>1. Placed(T, ch, g, x)
          BY <1>5
        <5> QED BY <4>2, <5>1 DEF Placed
      <4>3. ASSUME NEW y, ch[x].right = Ptr(y) PROVE y \in T2 /\ h.lo[y] = h.pos[x] /\ h.hi[y] = h.hi[x]
        <5>1. y \in T /\ g.lo[y] = g.pos[x] /\ g.hi[y] = g.hi[x]
          BY <4>2, <4>3
        <5>2. h.lo[y] = 2 * g.lo[y] /\ h.hi[y] = 2 * g.hi[y] /\ h.pos[x] = 2 * g.pos[x] /\ h.hi[x] = 2 * g.hi[x]
          BY <1>1, <5>1
        <5> QED BY <5>1, <5>2
      <4> QED BY <4>1, <4>3
    <3> QED BY <3>1, <3>2
  <2>6. ASSUME NEW y \in T2, ch2[x].left.null PROVE h.pos[y] <= h.lo[x] \/ h.pos[x] <= h.pos[y]
    <3>1. ~(x = c /\ s = "left") /\ ch[x].left.null
      <4>1. ~(x = c /\ s = "left")
        BY <1>3, <2>6
      <4>2. ~ch[x].left.null => ch2[x].left = ch[x].left
        BY <1>2, <1>4
      <4> QED BY <2>6, <4>1, <4>2
    <3>2. \A w \in T : g.pos[w] <= g.lo[x] \/ g.pos[x] <= g.pos[w]
      BY <1>5, <3>1 DEF Placed
    <3>3. CASE y \in T
      BY <1>1, <3>2, <3>3
    <3>4. CASE y = z /\ s = "left"
      <4>1. x # c /\ g.pos[x] # g.pos[c]
        BY <1>50, <3>1, <3>4
      <4>2. g.pos[c] <= g.lo[x] \/ g.pos[x] <= g.pos[c]
        BY <3>2
      <4> QED BY <1>1, <3>4, <4>1, <4>2
    <3>5. CASE y = z /\ s = "right"
      <4>1. g.lo[x] = g.pos[c] => FALSE
        <5> SUFFICES ASSUME g.lo[x] = g.pos[c] PROVE FALSE
          OBVIOUS
        <5>1. g.lo[x] # g.lo[Root]
          BY <1>1, <1>5 DEF Placed
        <5>2. PICK w \in T : g.pos[w] = g.lo[x] /\ ~ch[w].right.null
          BY <1>5, <5>1 DEF Placed
        <5>3. w = c
          BY <1>50, <5>2
        <5> QED BY <3>5, <5>2, <5>3
      <4> QED BY <1>1, <3>2, <3>5, <4>1
    <3> QED BY <1>2, <3>3, <3>4, <3>5
  <2>7. ASSUME NEW y \in T2, ch2[x].right.null PROVE h.pos[y] <= h.pos[x] \/ h.hi[x] <= h.pos[y]
    <3>1. ~(x = c /\ s = "right") /\ ch[x].right.null
      <4>1. ~(x = c /\ s = "right")
        BY <1>3, <2>7
      <4> QED BY <1>2, <2>7, <4>1
    <3>2. \A w \in T : g.pos[w] <= g.pos[x] \/ g.hi[x] <= g.pos[w]
      BY <1>5, <3>1 DEF Placed
    <3>3. CASE y \in T
      BY <1>1, <3>2, <3>3
    <3>4. CASE y = z /\ s = "right"
      <4>1. x # c => g.pos[x] # g.pos[c]
        BY <1>50
      <4> QED BY <1>1, <3>1, <3>2, <3>4, <4>1
    <3>5. CASE y = z /\ s = "left"
      <4>1. g.hi[x] = g.pos[c] => FALSE
        <5> SUFFICES ASSUME g.hi[x] = g.pos[c] PROVE FALSE
          OBVIOUS
        <5>1. g.hi[x] # g.hi[Root]
          BY <1>1, <1>5 DEF Placed
        <5>2. PICK w \in T : g.pos[w] = g.hi[x] /\ ~ch[w].left.null
          BY <1>5, <5>1 DEF Placed
        <5>3. w = c
          BY <1>50, <5>2
        <5> QED BY <3>5, <5>2, <5>3
      <4> QED BY <1>1, <3>2, <3>5, <4>1
    <3> QED BY <1>2, <3>3, <3>4, <3>5
  <2> QED BY <2>1, <2>2, <2>3, <2>4, <2>5, <2>6, <2>7 DEF Placed
<1>7. Placed(T2, ch2, h, z)
  <2>1. Placed(T, ch, g, c)
    BY <1>5
  <2>2. h.lo[z] < h.pos[z] /\ h.pos[z] < h.hi[z] /\ h.lo[Root] <= h.lo[z] /\ h.hi[z] <= h.hi[Root]
    BY <1>1, <1>2, <2>1 DEF Placed
  <2>3. CASE s = "left"
    <3>1. \/ h.lo[z] = h.lo[Root]
          \/ \E y \in T2 : h.pos[y] = h.lo[z] /\ ~ch2[y].right.null /\ h.hi[z] <= h.hi[y]
      <4>1. CASE g.lo[c] = g.lo[Root]
        BY <1>1, <2>3, <4>1
      <4>2. CASE \E y \in T : g.pos[y] = g.lo[c] /\ ~ch[y].right.null /\ g.hi[c] <= g.hi[y]
        <5>1. PICK y \in T : g.pos[y] = g.lo[c] /\ ~ch[y].right.null /\ g.hi[c] <= g.hi[y]
          BY <4>2
        <5>2. h.pos[y] = h.lo[z] /\ h.hi[z] <= h.hi[y]
          BY <1>1, <2>1, <2>3, <5>1 DEF Placed
        <5> QED BY <1>2, <1>4, <5>1, <5>2
      <4> QED BY <2>1, <4>1, <4>2 DEF Placed
    <3>2. h.pos[c] = h.hi[z] /\ ~ch2[c].left.null /\ h.lo[c] <= h.lo[z]
      BY <1>1, <1>3, <2>3
    <3>3. \A y \in T2 : h.pos[y] <= h.lo[z] \/ h.pos[z] <= h.pos[y]
      <4>1. \A y \in T : g.pos[y] <= g.lo[c] \/ g.pos[c] <= g.pos[y]
        BY <2>1, <2>3 DEF Placed
      <4> QED BY <1>1, <2>2, <2>3, <4>1
    <3>4. \A y \in T2 : h.pos[y] <= h.pos[z] \/ h.hi[z] <= h.pos[y]
      BY <1>1, <2>2, <2>3
    <3>5. \A y : ch2[z].left # Ptr(y) /\ ch2[z].right # Ptr(y)
      BY <1>2, <1>3
    <3> QED BY <2>2, <3>1, <3>2, <3>3, <3>4, <3>5 DEF Placed
  <2>4. CASE s = "right"
    <3>1. \/ h.hi[z] = h.hi[Root]
          \/ \E y \in T2 : h.pos[y] = h.hi[z] /\ ~ch2[y].left.null /\ h.lo[y] <= h.lo[z]
      <4>1. CASE g.hi[c] = g.hi[Root]
        BY <1>1, <2>4, <4>1
      <4>2. CASE \E y \in T : g.pos[y] = g.hi[c] /\ ~ch[y].left.null /\ g.lo[y] <= g.lo[c]
        <5>1. PICK y \in T : g.pos[y] = g.hi[c] /\ ~ch[y].left.null /\ g.lo[y] <= g.lo[c]
          BY <4>2
        <5>2. h.pos[y] = h.hi[z] /\ h.lo[y] <= h.lo[z]
          BY <1>1, <2>1, <2>4, <5>1 DEF Placed
        <5> QED BY <1>2, <1>4, <5>1, <5>2
      <4> QED BY <2>1, <4>1, <4>2 DEF Placed
    <3>2. h.pos[c] = h.lo[z] /\ ~ch2[c].right.null /\ h.hi[z] <= h.hi[c]
      BY <1>1, <1>3, <2>4
    <3>3. \A y \in T2 : h.pos[y] <= h.lo[z] \/ h.pos[z] <= h.pos[y]
      BY <1>1, <2>2, <2>4
    <3>4. \A y \in T2 : h.pos[y] <= h.pos[z] \/ h.hi[z] <= h.pos[y]
      <4>1. \A y \in T : g.pos[y] <= g.pos[c] \/ g.hi[c] <= g.pos[y]
        BY <2>1, <2>4 DEF Placed
      <4>2. ASSUME NEW y \in T PROVE h.pos[y] <= h.pos[z] \/ h.hi[z] <= h.pos[y]
        BY <1>1, <2>4, <4>1
      <4>3. h.pos[z] <= h.pos[z]
        BY <1>1, <2>4
      <4> QED BY <4>2, <4>3
    <3>5. \A y : ch2[z].left # Ptr(y) /\ ch2[z].right # Ptr(y)
      BY <1>2, <1>3
    <3> QED BY <2>2, <3>1, <3>2, <3>3, <3>4, <3>5 DEF Placed
  <2> QED BY <1>2, <2>3, <2>4
<1>8. \A x, y \in T2 : h.pos[x] = h.pos[y] => x = y
  <2>1. \A x, y \in T : g.pos[x] = g.pos[y] => x = y
    BY DEF Shape
  <2>2. h.pos[z] \in {2 * g.pos[c] - 1, 2 * g.pos[c] + 1}
    BY <1>1, <1>2
  <2>3. ASSUME NEW x \in T PROVE h.pos[x] # h.pos[z]
    <3>1. h.pos[x] = 2 * g.pos[x] /\ g.pos[x] \in Int /\ g.pos[c] \in Int
      BY <1>1
    <3> QED BY <2>2, <3>1
  <2> QED BY <1>1, <2>1, <2>3
<1> QED BY <1>6, <1>7, <1>8 DEF Shape

(* The pointer of p to e is replaced by that of e to its only child. *)
(* Node e, under p on side s, has no child on side a, and its place goes to *)
(* what is on side b.                                                      *)
Cut(T, ch, ch2, g, h, p, s, e, a, b) ==
    /\ T \subseteq Nat /\ Root \in T /\ p \in T /\ s \in Sides /\ e \in T /\ e # Root /\ e # p
    /\ ch[p][s] = Ptr(e) /\ a \in Sides /\ b \in Sides /\ a # b /\ ch[e][a].null
    /\ ch[e][b].null => ch2[p][s].null
    /\ ~ch[e][b].null => ch2[p][s] = ch[e][b]
    /\ \A x \in T, r \in Sides : ~ch[x][r].null => ch[x][r] = Ptr(ch[x][r].node)
    /\ \A x \in T, r \in Sides : x # p \/ r # s => ch2[x][r] = ch[x][r] /\ ch[x][r] # Ptr(e)
    /\ h = Pruned(g, e, IF a = "left" THEN g.lo[e] ELSE g.hi[e])

LEMMA ShapeShrinks ==
    ASSUME NEW g \in Labels, NEW T, NEW ch, NEW ch2, Shape(T, ch, g), NEW h,
           NEW p, NEW s, NEW e, NEW a, NEW b, Cut(T, ch, ch2, g, h, p, s, e, a, b)
    PROVE  Shape(T \ {e}, ch2, h)
<1> USE DEF Cut
<1>0. PICK v : v = (IF a = "left" THEN g.lo[e] ELSE g.hi[e])
  OBVIOUS
<1>1. /\ \A x \in T : g.lo[x] \in Int /\ g.pos[x] \in Int /\ g.hi[x] \in Int
      /\ v \in Int
      /\ \A x \in T : /\ h.lo[x] = (IF g.lo[x] = g.pos[e] THEN v ELSE g.lo[x])
                      /\ h.hi[x] = (IF g.hi[x] = g.pos[e] THEN v ELSE g.hi[x])
                      /\ h.pos[x] = g.pos[x]
  <2>1. \A x \in T : g.lo[x] \in Int /\ g.pos[x] \in Int /\ g.hi[x] \in Int
    BY LabelTypes
  <2>2. v \in Int /\ e \in Nat
    BY <1>0, <2>1
  <2>3. h = Pruned(g, e, v)
    BY <1>0
  <2>4. /\ h.pos = g.pos
        /\ \A x \in Nat :
             /\ h.lo[x] = (IF g.lo[x] = g.pos[e] THEN v ELSE g.lo[x])
             /\ h.hi[x] = (IF g.hi[x] = g.pos[e] THEN v ELSE g.hi[x])
    <3>1. HasBounds(h, g, e, v)
      BY <2>2, <2>3, PrunedIs
    <3> QED BY <3>1 DEF HasBounds
  <2>5. \A x \in T : x \in Nat
    OBVIOUS
  <2> QED BY <2>1, <2>2, <2>4, <2>5
<1>2. /\ Sides = {"left", "right"} /\ {a, b} = Sides /\ s \in {"left", "right"}
      /\ \A y : Ptr(y).null = FALSE /\ Ptr(y).node = y
  BY DEF Sides, Ptr
<1>3. \A x \in T : Placed(T, ch, g, x)
  BY DEF Shape
<1>4. \A x, y \in T : g.pos[x] = g.pos[y] => x = y
  BY DEF Shape
(* Where e stands under p. *)
<1>5. /\ g.lo[e] < g.pos[e] /\ g.pos[e] < g.hi[e]
      /\ s = "left" => g.lo[e] = g.lo[p] /\ g.hi[e] = g.pos[p]
      /\ s = "right" => g.lo[e] = g.pos[p] /\ g.hi[e] = g.hi[p]
  BY <1>3 DEF Placed
(* Nothing is between e and v. *)
<1>6. ASSUME NEW x \in T, x # e
      PROVE  /\ a = "left" => g.pos[x] <= g.lo[e] \/ g.pos[e] < g.pos[x]
             /\ a = "right" => g.pos[x] < g.pos[e] \/ g.hi[e] <= g.pos[x]
  <2>1. g.pos[x] # g.pos[e]
    BY <1>4, <1>6
  <2>2. ASSUME a = "left" PROVE g.pos[x] <= g.lo[e] \/ g.pos[e] <= g.pos[x]
    BY <1>3, <2>2 DEF Placed
  <2>3. ASSUME a = "right" PROVE g.pos[x] <= g.pos[e] \/ g.hi[e] <= g.pos[x]
    BY <1>3, <2>3 DEF Placed
  <2> QED BY <1>1, <2>1, <2>2, <2>3
(* The bounds that e is. *)
<1>7. ASSUME NEW x \in T
      PROVE  /\ g.lo[x] = g.pos[e] => a = "left" /\ g.hi[x] <= g.hi[e] /\ ~ch2[p][s].null
             /\ g.hi[x] = g.pos[e] => a = "right" /\ g.lo[e] <= g.lo[x] /\ ~ch2[p][s].null
  <2>1. ASSUME g.lo[x] = g.pos[e] PROVE a = "left" /\ g.hi[x] <= g.hi[e] /\ ~ch2[p][s].null
    <3>1. g.lo[x] # g.lo[Root]
      BY <1>1, <1>3, <2>1 DEF Placed
    <3>2. PICK y \in T : g.pos[y] = g.lo[x] /\ ~ch[y].right.null /\ g.hi[x] <= g.hi[y]
      BY <1>3, <3>1 DEF Placed
    <3>3. y = e
      BY <1>4, <2>1, <3>2
    <3> QED BY <1>2, <3>2, <3>3
  <2>2. ASSUME g.hi[x] = g.pos[e] PROVE a = "right" /\ g.lo[e] <= g.lo[x] /\ ~ch2[p][s].null
    <3>1. g.hi[x] # g.hi[Root]
      BY <1>1, <1>3, <2>2 DEF Placed
    <3>2. PICK y \in T : g.pos[y] = g.hi[x] /\ ~ch[y].left.null /\ g.lo[y] <= g.lo[x]
      BY <1>3, <3>1 DEF Placed
    <3>3. y = e
      BY <1>4, <2>2, <3>2
    <3> QED BY <1>2, <3>2, <3>3
  <2> QED BY <2>1, <2>2
(* The other bounds are not between e and v. *)
<1>8. ASSUME NEW x \in T
      PROVE  /\ a = "left" => /\ g.lo[x] <= g.lo[e] \/ g.pos[e] <= g.lo[x]
                              /\ g.hi[x] <= g.lo[e] \/ g.pos[e] <= g.hi[x]
             /\ a = "right" => /\ g.lo[x] <= g.pos[e] \/ g.hi[e] <= g.lo[x]
                               /\ g.hi[x] <= g.pos[e] \/ g.hi[e] <= g.hi[x]
  <2>1. \A y \in T : /\ a = "left" => g.pos[y] <= g.lo[e] \/ g.pos[e] <= g.pos[y]
                     /\ a = "right" => g.pos[y] <= g.pos[e] \/ g.hi[e] <= g.pos[y]
    BY <1>1, <1>6
  <2>2. g.lo[x] = g.lo[Root] \/ \E y \in T : g.pos[y] = g.lo[x]
    BY <1>3 DEF Placed
  <2>3. g.hi[x] = g.hi[Root] \/ \E y \in T : g.pos[y] = g.hi[x]
    BY <1>3 DEF Placed
  <2>4. g.lo[Root] <= g.lo[e] /\ g.hi[e] <= g.hi[Root]
    BY <1>3 DEF Placed
  <2>5. /\ a = "left" => g.lo[x] <= g.lo[e] \/ g.pos[e] <= g.lo[x]
        /\ a = "right" => g.lo[x] <= g.pos[e] \/ g.hi[e] <= g.lo[x]
    BY <1>1, <1>5, <2>1, <2>2, <2>4
  <2>6. /\ a = "left" => g.hi[x] <= g.lo[e] \/ g.pos[e] <= g.hi[x]
        /\ a = "right" => g.hi[x] <= g.pos[e] \/ g.hi[e] <= g.hi[x]
    BY <1>1, <1>5, <2>1, <2>3, <2>4
  <2> QED BY <2>5, <2>6
(* The pointers that are null after the step. *)
<1>9. \A x \in T, r \in Sides : ~ch[x][r].null /\ ch2[x][r].null => x = p /\ r = s
  BY <1>2
<1>10. ASSUME ch2[p][s].null, NEW x \in T
       PROVE  g.pos[x] <= g.lo[e] \/ x = e \/ g.hi[e] <= g.pos[x]
  <2>1. ch[e].left.null /\ ch[e].right.null
    BY <1>2, <1>10
  <2>2. g.pos[x] <= g.lo[e] \/ g.pos[e] <= g.pos[x]
    BY <1>3, <2>1 DEF Placed
  <2>3. g.pos[x] <= g.pos[e] \/ g.hi[e] <= g.pos[x]
    BY <1>3, <2>1 DEF Placed
  <2> QED BY <1>1, <1>4, <2>2, <2>3
<1>11. ASSUME NEW x \in T, x # e PROVE Placed(T \ {e}, ch2, h, x)
  <2>0. Placed(T, ch, g, x) /\ Placed(T, ch, g, e) /\ Placed(T, ch, g, p) /\ Placed(T, ch, g, Root)
    BY <1>3
  <2>1. h.lo[x] < h.pos[x] /\ h.pos[x] < h.hi[x]
    <3>0. g.lo[x] < g.pos[x] /\ g.pos[x] < g.hi[x]
      BY <2>0 DEF Placed
    <3>1. /\ g.lo[x] \in Int /\ g.pos[x] \in Int /\ g.hi[x] \in Int /\ h.pos[x] = g.pos[x]
          /\ g.lo[e] \in Int /\ g.pos[e] \in Int /\ g.hi[e] \in Int
          /\ h.lo[x] = (IF g.lo[x] = g.pos[e] THEN v ELSE g.lo[x])
          /\ h.hi[x] = (IF g.hi[x] = g.pos[e] THEN v ELSE g.hi[x])
      BY <1>1
    <3>2. CASE g.lo[x] = g.pos[e]
      <4>1. a = "left"
        BY <1>7, <3>2
      <4>2. v = g.lo[e] /\ h.lo[x] = v
        BY <1>0, <1>2, <3>1, <3>2, <4>1
      <4>3. h.hi[x] = g.hi[x]
        BY <1>2, <1>7, <3>1, <4>1
      <4> QED BY <1>5, <3>0, <3>1, <3>2, <4>2, <4>3
    <3>3. CASE g.hi[x] = g.pos[e]
      <4>1. a = "right"
        BY <1>7, <3>3
      <4>2. v = g.hi[e] /\ h.hi[x] = v
        BY <1>0, <1>2, <3>1, <3>3, <4>1
      <4>3. h.lo[x] = g.lo[x]
        BY <1>2, <1>7, <3>1, <4>1
      <4> QED BY <1>5, <3>0, <3>1, <3>3, <4>2, <4>3
    <3>4. CASE g.lo[x] # g.pos[e] /\ g.hi[x] # g.pos[e]
      BY <3>0, <3>1, <3>4
    <3> QED BY <3>2, <3>3, <3>4
  <2>2. h.lo[Root] = g.lo[Root] /\ h.hi[Root] = g.hi[Root]
    <3>1. g.lo[Root] <= g.lo[e] /\ g.hi[e] <= g.hi[Root]
      BY <2>0 DEF Placed
    <3>2. g.lo[Root] # g.pos[e] /\ g.hi[Root] # g.pos[e]
      BY <1>1, <1>5, <3>1
    <3> QED BY <1>1, <3>2
  <2>3. h.lo[Root] <= h.lo[x] /\ h.hi[x] <= h.hi[Root]
    <3>1. g.lo[Root] <= g.lo[x] /\ g.hi[x] <= g.hi[Root] /\ g.lo[Root] <= g.lo[e] /\ g.hi[e] <= g.hi[Root]
      BY <2>0 DEF Placed
    <3>2. g.lo[Root] <= v /\ v <= g.hi[Root]
      BY <1>0, <1>1, <1>5, <3>1
    <3> QED BY <1>1, <2>2, <3>1, <3>2
  <2>4. \/ h.lo[x] = h.lo[Root]
        \/ \E y \in T \ {e} : h.pos[y] = h.lo[x] /\ ~ch2[y].right.null /\ h.hi[x] <= h.hi[y]
    <3>1. ASSUME NEW w \in T, w = x \/ ~ch2[p][s].null, h.lo[x] = g.lo[w], h.hi[x] <= h.hi[w],
                 NEW y \in T, g.pos[y] = g.lo[w], ~ch[y].right.null, g.hi[w] <= g.hi[y], y # e
          PROVE  \E k \in T \ {e} : h.pos[k] = h.lo[x] /\ ~ch2[k].right.null /\ h.hi[x] <= h.hi[k]
      <4>1. h.pos[y] = h.lo[x]
        BY <1>1, <3>1
      <4>2. h.hi[w] <= h.hi[y]
        <5>1. g.hi[y] = g.pos[e] => a = "right"
          BY <1>7
        <5>2. g.hi[w] = g.pos[e] => a = "right"
          BY <1>7
        <5>3. CASE a = "left"
          BY <1>1, <3>1, <5>1, <5>2, <5>3
        <5>4. CASE a = "right"
          <6>1. v = g.hi[e]
            BY <1>0, <5>4
          <6>2. g.hi[y] <= g.pos[e] \/ g.hi[e] <= g.hi[y]
            BY <1>8, <5>4
          <6> QED BY <1>1, <1>5, <3>1, <6>1, <6>2
        <5> QED BY <1>2, <5>3, <5>4
      <4>3. ~ch2[y].right.null
        <5> SUFFICES ASSUME ch2[y].right.null PROVE FALSE
          OBVIOUS
        <5>1. y = p /\ s = "right"
          BY <1>2, <1>9, <3>1
        <5>2. ch2[p][s].null /\ w = x
          BY <3>1, <5>1
        <5>3. g.lo[x] = g.lo[e] /\ g.hi[e] = g.hi[p] /\ g.hi[x] <= g.hi[p]
          BY <1>5, <3>1, <5>1, <5>2
        <5>4. g.pos[x] <= g.lo[e] \/ g.hi[e] <= g.pos[x]
          BY <1>10, <1>11, <5>2
        <5>5. g.lo[x] < g.pos[x] /\ g.pos[x] < g.hi[x]
          BY <2>0 DEF Placed
        <5>6. g.lo[x] \in Int /\ g.pos[x] \in Int /\ g.hi[x] \in Int /\ g.lo[e] \in Int /\ g.hi[e] \in Int
          BY <1>1
        <5> QED BY <5>3, <5>4, <5>5, <5>6
      <4> QED
        <5>1. h.hi[x] <= h.hi[y]
          BY <1>1, <3>1, <4>2
        <5> QED BY <3>1, <4>1, <4>3, <5>1
    <3>2. CASE g.lo[x] # g.pos[e]
      <4>1. h.lo[x] = g.lo[x] /\ h.hi[x] <= h.hi[x]
        BY <1>1, <3>2
      <4>2. CASE g.lo[x] = g.lo[Root]
        BY <2>2, <4>1, <4>2
      <4>3. CASE \E y \in T : g.pos[y] = g.lo[x] /\ ~ch[y].right.null /\ g.hi[x] <= g.hi[y]
        <5>1. PICK y \in T : g.pos[y] = g.lo[x] /\ ~ch[y].right.null /\ g.hi[x] <= g.hi[y]
          BY <4>3
        <5>2. y # e
          BY <3>2, <5>1
        <5> QED BY <3>1, <4>1, <5>1, <5>2
      <4> QED BY <2>0, <4>2, <4>3 DEF Placed
    <3>3. CASE g.lo[x] = g.pos[e]
      <4>1. a = "left" /\ g.hi[x] <= g.hi[e] /\ ~ch2[p][s].null
        BY <1>7, <3>3
      <4>2. h.lo[x] = g.lo[e] /\ g.hi[x] # g.pos[e]
        BY <1>0, <1>1, <1>7, <3>3, <4>1
      <4>3. h.hi[x] <= h.hi[e]
        <5>1. h.hi[x] = g.hi[x]
          BY <1>1, <4>2
        <5>2. h.hi[e] = g.hi[e]
          BY <1>1, <1>5
        <5> QED BY <4>1, <5>1, <5>2
      <4>4. CASE g.lo[e] = g.lo[Root]
        BY <2>2, <4>2, <4>4
      <4>5. CASE \E y \in T : g.pos[y] = g.lo[e] /\ ~ch[y].right.null /\ g.hi[e] <= g.hi[y]
        <5>1. PICK y \in T : g.pos[y] = g.lo[e] /\ ~ch[y].right.null /\ g.hi[e] <= g.hi[y]
          BY <4>5
        <5>2. y # e
          BY <1>1, <1>5, <5>1
        <5> QED BY <3>1, <4>1, <4>2, <4>3, <5>1, <5>2
      <4> QED BY <2>0, <4>4, <4>5 DEF Placed
    <3> QED BY <3>2, <3>3
  <2>5. \/ h.hi[x] = h.hi[Root]
        \/ \E y \in T \ {e} : h.pos[y] = h.hi[x] /\ ~ch2[y].left.null /\ h.lo[y] <= h.lo[x]
    <3>1. ASSUME NEW w \in T, w = x \/ ~ch2[p][s].null, h.hi[x] = g.hi[w], h.lo[w] <= h.lo[x],
                 NEW y \in T, g.pos[y] = g.hi[w], ~ch[y].left.null, g.lo[y] <= g.lo[w], y # e
          PROVE  \E k \in T \ {e} : h.pos[k] = h.hi[x] /\ ~ch2[k].left.null /\ h.lo[k] <= h.lo[x]
      <4>1. h.pos[y] = h.hi[x]
        BY <1>1, <3>1
      <4>2. h.lo[y] <= h.lo[w]
        <5>1. g.lo[y] = g.pos[e] => a = "left"
          BY <1>7
        <5>2. g.lo[w] = g.pos[e] => a = "left"
          BY <1>7
        <5>3. CASE a = "right"
          BY <1>1, <3>1, <5>1, <5>2, <5>3
        <5>4. CASE a = "left"
          <6>1. v = g.lo[e]
            BY <1>0, <5>4
          <6>2. g.lo[y] <= g.lo[e] \/ g.pos[e] <= g.lo[y]
            BY <1>8, <5>4
          <6> QED BY <1>1, <1>5, <3>1, <6>1, <6>2
        <5> QED BY <1>2, <5>3, <5>4
      <4>3. ~ch2[y].left.null
        <5> SUFFICES ASSUME ch2[y].left.null PROVE FALSE
          OBVIOUS
        <5>1. y = p /\ s = "left"
          BY <1>2, <1>9, <3>1
        <5>2. ch2[p][s].null /\ w = x
          BY <3>1, <5>1
        <5>3. g.hi[x] = g.hi[e] /\ g.lo[e] = g.lo[p] /\ g.lo[p] <= g.lo[x]
          BY <1>5, <3>1, <5>1, <5>2
        <5>4. g.pos[x] <= g.lo[e] \/ g.hi[e] <= g.pos[x]
          BY <1>10, <1>11, <5>2
        <5>5. g.lo[x] < g.pos[x] /\ g.pos[x] < g.hi[x]
          BY <2>0 DEF Placed
        <5>6. g.lo[x] \in Int /\ g.pos[x] \in Int /\ g.hi[x] \in Int /\ g.lo[e] \in Int /\ g.hi[e] \in Int
          BY <1>1
        <5> QED BY <5>3, <5>4, <5>5, <5>6
      <4> QED
        <5>1. h.lo[y] <= h.lo[x]
          BY <1>1, <3>1, <4>2
        <5> QED BY <3>1, <4>1, <4>3, <5>1
    <3>2. CASE g.hi[x] # g.pos[e]
      <4>1. h.hi[x] = g.hi[x] /\ h.lo[x] <= h.lo[x]
        BY <1>1, <3>2
      <4>2. CASE g.hi[x] = g.hi[Root]
        BY <2>2, <4>1, <4>2
      <4>3. CASE \E y \in T : g.pos[y] = g.hi[x] /\ ~ch[y].left.null /\ g.lo[y] <= g.lo[x]
        <5>1. PICK y \in T : g.pos[y] = g.hi[x] /\ ~ch[y].left.null /\ g.lo[y] <= g.lo[x]
          BY <4>3
        <5>2. y # e
          BY <3>2, <5>1
        <5> QED BY <3>1, <4>1, <5>1, <5>2
      <4> QED BY <2>0, <4>2, <4>3 DEF Placed
    <3>3. CASE g.hi[x] = g.pos[e]
      <4>1. a = "right" /\ g.lo[e] <= g.lo[x] /\ ~ch2[p][s].null
        BY <1>7, <3>3
      <4>2. h.hi[x] = g.hi[e] /\ g.lo[x] # g.pos[e] /\ a # "left"
        BY <1>0, <1>1, <1>7, <3>3, <4>1
      <4>3. h.lo[e] <= h.lo[x]
        <5>1. h.lo[x] = g.lo[x]
          BY <1>1, <4>2
        <5>2. h.lo[e] = g.lo[e]
          BY <1>1, <1>5
        <5> QED BY <4>1, <5>1, <5>2
      <4>4. CASE g.hi[e] = g.hi[Root]
        BY <2>2, <4>2, <4>4
      <4>5. CASE \E y \in T : g.pos[y] = g.hi[e] /\ ~ch[y].left.null /\ g.lo[y] <= g.lo[e]
        <5>1. PICK y \in T : g.pos[y] = g.hi[e] /\ ~ch[y].left.null /\ g.lo[y] <= g.lo[e]
          BY <4>5
        <5>2. y # e
          BY <1>1, <1>5, <5>1
        <5> QED BY <3>1, <4>1, <4>2, <4>3, <5>1, <5>2
      <4> QED BY <2>0, <4>4, <4>5 DEF Placed
    <3> QED BY <3>2, <3>3
  <2>6. ASSUME NEW y, ch2[x].left = Ptr(y)
        PROVE  y \in T \ {e} /\ h.lo[y] = h.lo[x] /\ h.hi[y] = h.pos[x]
    <3>1. CASE x # p \/ s # "left"
      <4>1. ch[x].left = Ptr(y) /\ y # e
        <5>1. ch2[x].left = ch[x].left /\ ch[x].left # Ptr(e)
          BY <1>2, <3>1
        <5> QED BY <2>6, <5>1
      <4>2. y \in T /\ g.lo[y] = g.lo[x] /\ g.hi[y] = g.pos[x]
        BY <2>0, <4>1 DEF Placed
      <4>3. g.pos[x] # g.pos[e]
        BY <1>4, <1>11
      <4> QED BY <1>1, <4>1, <4>2, <4>3
    <3>2. CASE x = p /\ s = "left"
      <4>1. ch[e][b] = Ptr(y)
        BY <1>2, <2>6, <3>2
      <4>2. y # e
        BY <4>1
      <4>3. g.lo[x] # g.pos[e] /\ g.hi[e] # g.pos[e] /\ g.lo[e] = g.lo[x] /\ g.hi[e] = g.pos[x]
        BY <1>1, <1>5, <3>2
      <4>4. CASE a = "left"
        <5>1. y \in T /\ g.lo[y] = g.pos[e] /\ g.hi[y] = g.hi[e]
          <6>1. ch[e].right = Ptr(y)
            BY <1>2, <4>1, <4>4
          <6> QED BY <2>0, <6>1 DEF Placed
        <5> QED BY <1>0, <1>1, <4>2, <4>3, <4>4, <5>1
      <4>5. CASE a = "right"
        <5>1. y \in T /\ g.lo[y] = g.lo[e] /\ g.hi[y] = g.pos[e]
          <6>1. ch[e].left = Ptr(y)
            BY <1>2, <4>1, <4>5
          <6> QED BY <2>0, <6>1 DEF Placed
        <5> QED BY <1>0, <1>1, <4>2, <4>3, <4>5, <5>1
      <4> QED BY <1>2, <4>4, <4>5
    <3> QED BY <3>1, <3>2
  <2>7. ASSUME NEW y, ch2[x].right = Ptr(y)
        PROVE  y \in T \ {e} /\ h.lo[y] = h.pos[x] /\ h.hi[y] = h.hi[x]
    <3>1. CASE x # p \/ s # "right"
      <4>1. ch[x].right = Ptr(y) /\ y # e
        <5>1. ch2[x].right = ch[x].right /\ ch[x].right # Ptr(e)
          BY <1>2, <3>1
        <5> QED BY <2>7, <5>1
      <4>2. y \in T /\ g.lo[y] = g.pos[x] /\ g.hi[y] = g.hi[x]
        BY <2>0, <4>1 DEF Placed
      <4>3. g.pos[x] # g.pos[e]
        BY <1>4, <1>11
      <4> QED BY <1>1, <4>1, <4>2, <4>3
    <3>2. CASE x = p /\ s = "right"
      <4>1. ch[e][b] = Ptr(y)
        BY <1>2, <2>7, <3>2
      <4>2. y # e
        BY <4>1
      <4>3. g.hi[x] # g.pos[e] /\ g.lo[e] # g.pos[e] /\ g.lo[e] = g.pos[x] /\ g.hi[e] = g.hi[x]
        BY <1>1, <1>5, <3>2
      <4>4. CASE a = "left"
        <5>1. y \in T /\ g.lo[y] = g.pos[e] /\ g.hi[y] = g.hi[e]
          <6>1. ch[e].right = Ptr(y)
            BY <1>2, <4>1, <4>4
          <6> QED BY <2>0, <6>1 DEF Placed
        <5> QED BY <1>0, <1>1, <4>2, <4>3, <4>4, <5>1
      <4>5. CASE a = "right"
        <5>1. y \in T /\ g.lo[y] = g.lo[e] /\ g.hi[y] = g.pos[e]
          <6>1. ch[e].left = Ptr(y)
            BY <1>2, <4>1, <4>5
          <6> QED BY <2>0, <6>1 DEF Placed
        <5> QED BY <1>0, <1>1, <4>2, <4>3, <4>5, <5>1
      <4> QED BY <1>2, <4>4, <4>5
    <3> QED BY <3>1, <3>2
  <2>8. ASSUME NEW y \in T \ {e}, ch2[x].left.null PROVE h.pos[y] <= h.lo[x] \/ h.pos[x] <= h.pos[y]
    <3>1. CASE ch[x].left.null
      <4>1. g.pos[y] <= g.lo[x] \/ g.pos[x] <= g.pos[y]
        BY <2>0, <3>1 DEF Placed
      <4>2. CASE g.lo[x] # g.pos[e]
        BY <1>1, <4>1, <4>2
      <4>3. CASE g.lo[x] = g.pos[e]
        <5>1. a = "left"
          BY <1>7, <4>3
        <5>2. g.pos[y] <= g.lo[e] \/ g.pos[e] < g.pos[y]
          BY <1>6, <5>1
        <5> QED BY <1>0, <1>1, <1>5, <4>1, <4>3, <5>1, <5>2
      <4> QED BY <4>2, <4>3
    <3>2. CASE ~ch[x].left.null
      <4>1. x = p /\ s = "left"
        BY <1>2, <1>9, <2>8, <3>2
      <4>2. g.pos[y] <= g.lo[e] \/ g.hi[e] <= g.pos[y]
        BY <1>10, <2>8, <4>1
      <4> QED BY <1>1, <1>5, <4>1, <4>2
    <3> QED BY <3>1, <3>2
  <2>9. ASSUME NEW y \in T \ {e}, ch2[x].right.null PROVE h.pos[y] <= h.pos[x] \/ h.hi[x] <= h.pos[y]
    <3>1. CASE ch[x].right.null
      <4>1. g.pos[y] <= g.pos[x] \/ g.hi[x] <= g.pos[y]
        BY <2>0, <3>1 DEF Placed
      <4>2. CASE g.hi[x] # g.pos[e]
        BY <1>1, <4>1, <4>2
      <4>3. CASE g.hi[x] = g.pos[e]
        <5>1. a = "right"
          BY <1>7, <4>3
        <5>2. g.pos[y] < g.pos[e] \/ g.hi[e] <= g.pos[y]
          BY <1>6, <5>1
        <5> QED BY <1>0, <1>1, <1>5, <4>1, <4>3, <5>1, <5>2
      <4> QED BY <4>2, <4>3
    <3>2. CASE ~ch[x].right.null
      <4>1. x = p /\ s = "right"
        BY <1>2, <1>9, <2>9, <3>2
      <4>2. g.pos[y] <= g.lo[e] \/ g.hi[e] <= g.pos[y]
        BY <1>10, <2>9, <4>1
      <4> QED BY <1>1, <1>5, <4>1, <4>2
    <3> QED BY <3>1, <3>2
  <2> QED BY <2>1, <2>3, <2>4, <2>5, <2>6, <2>7, <2>8, <2>9 DEF Placed
<1>12. \A x, y \in T \ {e} : h.pos[x] = h.pos[y] => x = y
  BY <1>1, <1>4
<1> QED BY <1>11, <1>12 DEF Shape

-----------------------------------------------------------------------------
(* What the nodes of the tree have to do with each other. *)

LEMMA AllKeysNat == AllKeys \subseteq Nat
<1>1. \A t \in Threads : Keys[t] \subseteq Nat
  BY LFAssumption
<1>2. UNION Range(Keys) \subseteq Nat
  BY <1>1, LFAssumption DEF Range
<1>3. \A f \in Fills : Range(f) \subseteq Nat
  <2> SUFFICES ASSUME NEW f \in Fills, NEW i \in DOMAIN f PROVE f[i] \in Nat
    BY DEF Range
  <2>1. f \in Seq(Nat)
    BY LFAssumption
  <2> QED BY <2>1
<1>4. AllKeys \subseteq Nat
  BY <1>2, <1>3 DEF AllKeys
<1> QED BY <1>4

LEMMA KeyTypes ==
    ASSUME Heap
    PROVE  /\ AllKeys \subseteq Nat
           /\ \A n \in Nodes : key[n] \in Int
<1>4. AllKeys \subseteq Nat
  BY AllKeysNat
<1>5. ASSUME NEW n \in Nodes PROVE key[n] \in Int
  <2>1. key[n] \in AllKeys \/ key[n] = -1
    BY HeapTypes
  <2>2. ASSUME key[n] \in AllKeys PROVE key[n] \in Int
    <3>1. key[n] \in Nat
      BY <1>4, <2>2
    <3> QED BY <3>1
  <2>3. -1 \in Int
    OBVIOUS
  <2> QED BY <2>1, <2>2, <2>3
<1> QED BY <1>4, <1>5

LEMMA KeyTypesNext ==
    ASSUME Heap'
    PROVE  \A n \in Nodes' : key'[n] \in Int
<1> SUFFICES ASSUME NEW n \in Nodes' PROVE key'[n] \in Int
  OBVIOUS
<1>1. key'[n] \in AllKeys \/ key'[n] = -1
  BY DEF Heap, HeapInv, Nodes
<1>2. AllKeys \subseteq Nat
  BY AllKeysNat
<1>3. key'[n] \in AllKeys => key'[n] \in Nat
  BY <1>2
<1>4. -1 \in Int
  OBVIOUS
<1> QED BY <1>1, <1>3, <1>4

LEMMA TreeFacts ==
    ASSUME Heap
    PROVE  /\ Tree \subseteq Nodes /\ Tree \subseteq Nat /\ Nodes \subseteq Nat /\ Root \in Tree
           /\ \A n \in Nodes : Known(n) /\ op[n].flag # "MARK" => n \in Tree
           /\ \A n \in Nodes : op[n].flag \in {"CHILDCAS", "RELOCATE"} => n \in Tree
           /\ \A n, w : Seen(n, w) /\ op[n] = w => n \in Tree
           /\ \A n : Known(n) => n \in Nodes /\ (n \in Tree <=> ~Gone(n))
           /\ \A n \in Tree, s \in Sides : ~child[n][s].null =>
                child[n][s] = Ptr(child[n][s].node) /\ child[n][s].node \in Tree
           /\ \A n \in Nodes, s \in Sides :
                \A c : child[n][s] = Ptr(c) => Known(c) /\ (n \in Tree => c \in Tree)
<1>1. Tree \subseteq Nodes /\ Nodes \subseteq Nat
  BY DEF Tree, Nodes
<1>2. \A n : Known(n) => n \in Nodes /\ (n \in Tree <=> ~Gone(n))
  BY DEF Known, Tree
<1>3. Root \in Tree
  <2>1. Root \in Nodes /\ op[Root].flag # "MARK"
    BY HeapTypes DEF Heap, HeapInv
  <2> QED BY <1>2, <2>1, Busy
<1>4. \A n \in Nodes : Known(n) /\ op[n].flag # "MARK" => n \in Tree
  BY <1>2, Busy
<1>5. \A n \in Nodes : op[n].flag \in {"CHILDCAS", "RELOCATE"} => n \in Tree
  BY <1>4, Busy DEF NullWord, Word
<1>6. \A n, w : Seen(n, w) /\ op[n] = w => n \in Tree
  BY <1>2, <1>4 DEF Seen, Quiet
<1>7. ASSUME NEW n \in Nodes, NEW s \in Sides, ~child[n][s].null
      PROVE  /\ child[n][s] = Ptr(child[n][s].node) /\ Known(child[n][s].node)
             /\ n \in Tree => child[n][s].node \in Tree
  <2>1. child[n][s] \in Pointers
    BY HeapTypes
  <2>2. child[n][s] = Ptr(child[n][s].node)
    BY <1>7, <2>1, PtrOf DEF Pointers
  <2>3. Known(child[n][s].node)
    BY <1>7, Busy
  <2>4. n \in Tree => ~Gone(child[n][s].node)
    BY <1>7 DEF Tree, Heap, TreeInv
  <2> QED BY <1>2, <2>2, <2>3, <2>4
<1>8. \A n \in Nodes, s \in Sides :
        \A c : child[n][s] = Ptr(c) => Known(c) /\ (n \in Tree => c \in Tree)
  <2> SUFFICES ASSUME NEW n \in Nodes, NEW s \in Sides, NEW c, child[n][s] = Ptr(c)
               PROVE  Known(c) /\ (n \in Tree => c \in Tree)
    OBVIOUS
  <2>1. ~child[n][s].null /\ child[n][s].node = c
    BY DEF Ptr
  <2> QED BY <1>7, <2>1
<1> QED BY <1>1, <1>2, <1>3, <1>4, <1>5, <1>6, <1>7, <1>8

(* Two null pointers are in different places of the order. *)
LEMMA Apart ==
    ASSUME NEW g \in Labels, NEW T, T \subseteq Nat, Root \in T, NEW ch, Shape(T, ch, g),
           NEW n \in T, NEW c \in T, NEW s \in Sides, NEW r \in Sides,
           ch[n][s].null, ch[c][r].null,
           g.pos[n] < g.pos[c] \/ (n = c /\ s = "left" /\ r = "right")
    PROVE  \E x \in T : LeftOf(g, x, c, r) /\ ~LeftOf(g, x, n, s)
<1>1. \A x \in T : g.lo[x] \in Int /\ g.pos[x] \in Int /\ g.hi[x] \in Int
  BY LabelTypes
<1>2. Sides = {"left", "right"}
  BY DEF Sides
<1>3. CASE r = "right"
  BY <1>1, <1>3 DEF LeftOf
<1>4. CASE r = "left"
  <2>1. g.pos[n] < g.pos[c]
    BY <1>4
  <2>2. CASE s = "left"
    <3>1. LeftOf(g, n, c, r) /\ ~LeftOf(g, n, n, s)
      BY <1>1, <2>1, <2>2 DEF LeftOf
    <3> QED BY <3>1
  <2>3. CASE s = "right"
    <3>1. Placed(T, ch, g, c) /\ Placed(T, ch, g, n)
      BY DEF Shape
    <3>2. g.pos[n] <= g.lo[c]
      <4>1. g.pos[n] <= g.lo[c] \/ g.pos[c] <= g.pos[n]
        BY <1>4, <3>1 DEF Placed
      <4>2. g.pos[n] \in Int /\ g.pos[c] \in Int /\ g.lo[c] \in Int
        BY <1>1
      <4> QED BY <2>1, <4>1, <4>2
    <3>3. g.lo[c] # g.lo[Root]
      <4>1. g.lo[Root] <= g.lo[n] /\ g.lo[n] < g.pos[n]
        BY <3>1 DEF Placed
      <4>2. g.lo[Root] \in Int /\ g.lo[n] \in Int /\ g.pos[n] \in Int /\ g.lo[c] \in Int
        BY <1>1
      <4> QED BY <3>2, <4>1, <4>2
    <3>4. PICK w \in T : g.pos[w] = g.lo[c] /\ ~ch[w].right.null
      BY <3>1, <3>3 DEF Placed
    <3>5. w # n /\ g.pos[w] # g.pos[n]
      BY <2>3, <3>4 DEF Shape
    <3>6. LeftOf(g, w, c, r) /\ ~LeftOf(g, w, n, s)
      <4>1. g.lo[c] < g.pos[c]
        BY <3>1 DEF Placed
      <4> QED BY <1>1, <3>2, <3>4, <3>5, <4>1 DEF LeftOf
    <3> QED BY <3>6
  <2> QED BY <1>2, <2>2, <2>3
<1> QED BY <1>2, <1>3, <1>4

(* The keys along the order. *)
LEMMA KeyOrder ==
    ASSUME Heap, NEW g \in Labels, Shape(Tree, child, g), KeysInv(g), NEW x \in Tree, NEW y \in Tree
    PROVE  /\ g.pos[x] \in Int /\ g.pos[y] \in Int /\ key[x] \in Int /\ key[y] \in Int
           /\ g.pos[x] < g.pos[y] =>
                key[x] < key[y] \/ (key[x] = key[y] /\ Leaves(y) /\ child[y].left.null)
           /\ g.pos[x] < g.pos[y] => key[x] <= key[y]
           /\ g.pos[x] = g.pos[y] => x = y
BY TreeFacts, LabelTypes, KeyTypes DEF KeysInv, Shape

(* A node that gives its key away goes on to do so until it is gone. *)
LEMMA LeavesStay ==
    ASSUME Heap, Heap', Advance, NEW n \in Nodes, Leaves(n)
    PROVE  Leaves(n)'
<1>1. CASE op[n].flag = "MARK"
  BY <1>1 DEF Leaves, Advance, Forward
<1>2. CASE op[n].flag = "RELOCATE" /\ desc[op[n].op].dest # n /\ Committed(op[n].op)
  <2>1. PICK i, d : i = op[n].op /\ d = desc[i]
    OBVIOUS
  <2>2. IsRelocate(i) /\ i \in 1 .. Len(desc) /\ op[n] = Word("RELOCATE", i)
    BY <1>2, <2>1, HeapTypes DEF Heap, HeapInv, IsRelocate, Words, Word
  <2>3. RelocateOK(i) /\ desc'[i].dest = d.dest /\ d.dest \in Nodes
    BY <2>1, <2>2, KindStays DEF RelocateOK, Seen, Known
  <2>4. d.state = "SUCCEED" => desc'[i].state = "SUCCEED"
    BY <2>1, <2>2 DEF Advance, Forward
  <2>5. d.state # "FAILED"
    BY <1>2, <2>1, <2>3 DEF Committed, RelocateOK
  <2>6. CASE op'[n] # op[n]
    <3>1. op'[n].flag = "MARK"
      BY <1>2, <2>1, <2>5, <2>6 DEF Advance, NewWords
    <3> QED BY <3>1 DEF Leaves
  <2>7. CASE op'[n] = op[n]
    <3>1. desc'[i].state = "SUCCEED" \/ op'[d.dest] = Word("RELOCATE", i)
      <4>1. CASE d.state = "SUCCEED"
        BY <2>4, <4>1
      <4>2. CASE op[d.dest] = Word("RELOCATE", i)
        <5>1. op[d.dest].flag = "RELOCATE" /\ op[d.dest].op = i
          BY <4>2 DEF Word
        <5>2. op'[d.dest] # op[d.dest] => d.state = "SUCCEED"
          <6>1. \A x \in Nodes : op'[x] # op[x] /\ op[x].flag = "RELOCATE" /\ desc[op[x].op].dest = x =>
                                  desc[op[x].op].state = "SUCCEED"
            BY DEF Advance, NewWords
          <6> QED BY <2>1, <2>3, <5>1, <6>1
        <5> QED BY <2>4, <4>2, <5>2
      <4> QED BY <1>2, <2>1, <4>1, <4>2 DEF Committed
    <3> QED BY <1>2, <2>1, <2>3, <2>7, <3>1 DEF Leaves, Committed
  <2> QED BY <2>6, <2>7
<1> QED BY <1>1, <1>2 DEF Leaves

-----------------------------------------------------------------------------
(* What a step does to the order at most. *)

(* A key changes where a relocation brings another, and grows. *)
KeysTurn ==
    \A n \in Nodes : key'[n] # key[n] =>
        /\ Receives(n) /\ op'[n] = op[n]
        /\ key'[n] = desc[op[n].op].key_to_put /\ key[n] <= key'[n]

(* A relocation succeeds when it has reached its destination; it leaves    *)
(* that when the key is there, and the node it was published at when it    *)
(* has left its destination or will never reach it.                        *)
MovesTurn ==
    /\ \A i \in 1 .. Len(desc) : IsRelocate(i) =>
         /\ desc'[i].key_to_remove = desc[i].key_to_remove
         /\ desc'[i].state = "SUCCEED" /\ desc[i].state # "SUCCEED" =>
              op'[desc[i].dest] = Word("RELOCATE", i)
    /\ \A n \in Nodes : op'[n] # op[n] =>
         /\ op[n].flag = "RELOCATE" =>
              LET d == desc[op[n].op]
              IN  IF d.dest = n THEN key[n] >= d.key_to_put
                                ELSE op[d.dest] \notin {d.dest_op, op[n]}
         /\ op'[n].flag = "RELOCATE" /\ op'[n].op <= Len(desc) =>
              \E m \in Nodes : m # n /\ op[m] = op'[n] /\ op'[m] = op[m]

(* The order h after the step carries on the order g before it: what was   *)
(* below a node is below it, in its place or in that of its heir; and what *)
(* fits a null pointer goes on to fit it, but where a key is on the move.  *)
Carries(g, h, x, y) == \A a \in Tree : a \in Tree' /\ g.lo[y] = g.pos[a] => h.lo[x] = h.pos[a]
PlaceTurn(g, h) ==
    /\ \A x \in Tree : x \in Tree' => Carries(g, h, x, x)
    /\ \A c : Known(c) =>
         \A x \in Heirs(c)' : \E y \in Heirs(c) :
             Carries(g, h, x, y) /\ \A k \in Int : Upper(g, y, k) => Upper(h, x, k)'
    /\ \A n \in Tree, s \in Sides, k \in Int :
         /\ op[n].flag \in {"NONE", "CHILDCAS"} /\ op'[n] = op[n]
         /\ child[n][s].null /\ child'[n][s] = child[n][s]
         /\ Fits(g, n, s, k)
         => Fits(h, n, s, k)'

(* A word that is still there after a step. *)
LEMMA StillHere ==
    ASSUME Heap, Heap', Advance, KeysTurn, NEW n, NEW w, Seen(n, w), op'[n] = w
    PROVE  /\ op[n] = w /\ op[n].flag = "NONE" /\ n \in Nodes /\ n \in Tree /\ n \in Tree'
           /\ key'[n] = key[n] /\ \A s \in Sides : child'[n][s] = child[n][s]
<1>1. n \in Nodes /\ Seen(n, w)' /\ op[n] = w /\ w.flag = "NONE" /\ \A s \in Sides : child'[n][s] = child[n][s]
  BY SeenStays DEF Seen, Quiet
<1>2. n \in Tree
  BY <1>1, TreeFacts
<1>3. n \in Tree'
  <2>1. Known(n)' /\ n \in Nodes'
    BY <1>1 DEF Seen, Known
  <2>2. ~Gone(n)'
    BY <1>1, <2>1 DEF Heap, TreeInv
  <2> QED BY <2>1, <2>2 DEF Tree
<1>4. key'[n] = key[n]
  BY <1>1 DEF KeysTurn, Receives
<1> QED BY <1>1, <1>2, <1>3, <1>4

LEMMA GoodStays ==
    ASSUME Heap, Heap', Advance, KeysTurn, NEW g, NEW h, NEW l, l.k \in Int, NEW x \in Tree', NEW y \in Tree,
           Carries(g, h, x, y), Upper(g, y, l.k) => Upper(h, x, l.k)',
           Seen(l.last_right, l.last_right_op), SecondFind(l), Good(g, y, l)
    PROVE  Good(h, x, l)'
<1>1. l.start = Root => Upper(h, x, l.k)'
  BY DEF Good
<1>2. ASSUME l.start = Root, op'[l.last_right] = l.last_right_op
      PROVE  h.lo[x] = h.pos[l.last_right] /\ key'[l.last_right] < l.k
  <2>1. /\ op[l.last_right] = l.last_right_op /\ l.last_right \in Tree /\ l.last_right \in Tree'
        /\ key'[l.last_right] = key[l.last_right]
    BY <1>2, StillHere
  <2> QED BY <1>2, <2>1 DEF Good, Carries
<1>3. ASSUME l.start # Root, op'[l.dest] = l.dest_op
      PROVE  h.lo[x] = h.pos[l.dest]
  <2>1. Seen(l.dest, l.dest_op)
    BY <1>3 DEF SecondFind
  <2>2. op[l.dest] = l.dest_op /\ l.dest \in Tree /\ l.dest \in Tree'
    BY <1>3, <2>1, StillHere
  <2> QED BY <1>3, <2>2 DEF Good, Carries
<1> QED BY <1>1, <1>2, <1>3 DEF Good

LEMMA LeadsStays ==
    ASSUME Heap, Heap', Advance, KeysTurn, NEW g, NEW h, PlaceTurn(g, h), NEW l, l.k \in Int, Known(l.curr),
           SecondFind(l), Leads(g, l)
    PROVE  Leads(h, l)'
<1>1. Seen(l.last_right, l.last_right_op)'
  BY SeenStays DEF Leads
<1>2. ASSUME NEW x \in Heirs(l.curr)' PROVE Good(h, x, l)'
  <2>1. PICK y \in Heirs(l.curr) : Carries(g, h, x, y) /\ \A k \in Int : Upper(g, y, k) => Upper(h, x, k)'
    BY DEF PlaceTurn
  <2>2. x \in Tree' /\ y \in Tree /\ Good(g, y, l)
    BY <2>1 DEF Heirs, Leads
  <2> QED BY <2>1, <2>2, GoodStays DEF Leads
<1> QED BY <1>1, <1>2 DEF Leads

LEMMA BoundedStays ==
    ASSUME NEW g, NEW h, PlaceTurn(g, h), NEW l, l.k \in Int, Known(l.curr), Bounded(g, l)
    PROVE  Bounded(h, l)'
<1> SUFFICES ASSUME l.start = Root, NEW x \in Heirs(l.curr)' PROVE Upper(h, x, l.k)'
  BY DEF Bounded
<1>1. PICK y \in Heirs(l.curr) : \A k \in Int : Upper(g, y, k) => Upper(h, x, k)'
  BY DEF PlaceTurn
<1> QED BY <1>1 DEF Bounded

(* A node that is about to be met. *)
LEMMA NextStays ==
    ASSUME Heap, Heap', Advance, KeysTurn, NEW g, NEW h, PlaceTurn(g, h), NEW l, l.k \in Int, Known(l.next),
           SecondFind(l), Seen(l.last_right, l.last_right_op), l.next \in Tree => Good(g, l.next, l),
           l.next \in Tree'
    PROVE  Good(h, l.next, l)'
<1>1. l.next \in Tree
  BY TreeFacts DEF Tree, Advance, NewPointers
<1>2. l.next \in Heirs(l.next)' /\ \A y \in Heirs(l.next) : y = l.next
  BY <1>1 DEF Heirs, Tree
<1>3. Carries(g, h, l.next, l.next) /\ (Upper(g, l.next, l.k) => Upper(h, l.next, l.k)')
  BY <1>2 DEF PlaceTurn
<1> QED BY <1>1, <1>3, GoodStays

(* What a thread knows of the order stays true while the others go on. *)
LEMMA CourseStays ==
    ASSUME Heap, Heap', Advance, KeysTurn, NEW g, NEW h, PlaceTurn(g, h), NEW p, NEW l,
           Place(p, l), Course(g, p, l)
    PROVE  Course(h, p, l)'
<1>0. PICK i, d : i = l.helped /\ d = desc[i]
  OBVIOUS
<1>1. SecondFind(l) /\ (p # "idle" => l.k \in Int)
  <2>1. p # "idle" => l.k \in Nat
    BY KeyTypes DEF Place
  <2> QED BY <2>1 DEF Place
<1>2. p \in Searching \cup Inserting \cup Deleting \cup Moving => Seen(l.curr, l.curr_op) /\ Known(l.curr)
  BY DEF Place, Seen
<1>3. ASSUME l.start # Root, AtDest(l)'
      PROVE  /\ AtDest(l) /\ l.dest \in Tree /\ l.dest \in Tree' /\ key'[l.dest] = key[l.dest]
             /\ key'[l.dest] = l.k
  <2>1. Seen(l.dest, l.dest_op)
    BY <1>1, <1>3 DEF SecondFind
  <2>2. op'[l.dest] = l.dest_op
    BY <1>3 DEF AtDest
  <2>3. op[l.dest] = l.dest_op /\ l.dest \in Tree /\ l.dest \in Tree' /\ key'[l.dest] = key[l.dest]
    BY <2>1, <2>2, StillHere
  <2>4. key[l.dest] = l.k
    BY <1>3, <2>3 DEF Course, KeyAtDest, AtDest
  <2> QED BY <2>3, <2>4 DEF AtDest
<1>4. ASSUME Seen(l.curr, l.curr_op), IsHere(l)'
      PROVE  /\ IsHere(l) /\ l.curr \in Tree /\ l.curr \in Tree' /\ key'[l.curr] = key[l.curr]
             /\ op[l.curr].flag = "NONE" /\ op'[l.curr] = op[l.curr]
             /\ \A s \in Sides : child'[l.curr][s] = child[l.curr][s]
             /\ Carries(g, h, l.curr, l.curr)
  <2>1. op'[l.curr] = l.curr_op
    BY <1>4 DEF IsHere
  <2>2. /\ op[l.curr] = l.curr_op /\ op[l.curr].flag = "NONE" /\ l.curr \in Tree /\ l.curr \in Tree'
        /\ key'[l.curr] = key[l.curr] /\ \A s \in Sides : child'[l.curr][s] = child[l.curr][s]
    BY <1>4, <2>1, StillHere
  <2> QED BY <2>1, <2>2 DEF IsHere, PlaceTurn
<1>5. ASSUME RightTurn(g, l), Seen(l.curr, l.curr_op), l.k \in Int PROVE RightTurn(h, l)'
  <2>1. l.start = Root /\ IsHere(l)' => key'[l.curr] < l.k
    BY <1>4, <1>5 DEF RightTurn
  <2>2. l.start # Root /\ l.curr # l.start => ~AtDest(l)'
    BY <1>3, <1>5 DEF RightTurn
  <2>3. l.curr = l.start \/ Bounded(h, l)'
    BY <1>5, BoundedStays DEF RightTurn, Seen
  <2> QED BY <2>1, <2>2, <2>3 DEF RightTurn
<1>6. ASSUME Leads(g, l), Known(l.curr), l.k \in Int PROVE Leads(h, l)'
  BY <1>1, <1>6, LeadsStays
<1>7. ASSUME Follows(g, l), Seen(l.curr, l.curr_op), l.start # Root PROVE Follows(h, l)'
  <2>1. SUFFICES ASSUME IsHere(l)', AtDest(l)' PROVE h.lo[l.curr] = h.pos[l.dest]
    BY DEF Follows
  <2>2. g.lo[l.curr] = g.pos[l.dest] /\ l.dest \in Tree /\ l.dest \in Tree' /\ Carries(g, h, l.curr, l.curr)
    BY <1>3, <1>4, <1>7, <2>1 DEF Follows
  <2> QED BY <2>2 DEF Carries
<1>8. ASSUME Seen(l.curr, l.curr_op), IsHere(l)', Chosen(l) PROVE Chosen(l)'
  <2>1. child'[l.curr].left = child[l.curr].left /\ key'[l.curr] = key[l.curr]
    BY <1>4, <1>8 DEF Sides
  <2> QED BY <1>8, <2>1 DEF Chosen
<1>9. ASSUME FitsHere(g, l), Seen(l.curr, l.curr_op), l.k \in Int, EndsHere(l) PROVE FitsHere(h, l)'
  <2>1. SUFFICES ASSUME IsHere(l)' PROVE Fits(h, l.curr, FoundSide(l), l.k)'
    BY DEF FitsHere, FoundSide
  <2>2. PICK s \in Sides : s = FoundSide(l)
    BY DEF FoundSide, Sides
  <2>3. child[l.curr][s].null /\ Fits(g, l.curr, s, l.k)
    BY <1>4, <1>9, <2>1, <2>2 DEF EndsHere, FitsHere, IsHere
  <2>4. Fits(h, l.curr, s, l.k)'
    BY <1>4, <1>9, <2>1, <2>3 DEF PlaceTurn
  <2> QED BY <2>2, <2>4
<1>a. p = "FindRight" => RightTurn(h, l)'
  BY <1>1, <1>2, <1>5 DEF Course, Searching
<1>b. ASSUME p = "FindNext"
      PROVE  Seen(l.last_right, l.last_right_op)' /\ (l.next \in Tree' => Good(h, l.next, l)')
  <2>1. Seen(l.last_right, l.last_right_op) /\ (l.next \in Tree => Good(g, l.next, l)) /\ Known(l.next)
    BY <1>b DEF Course, Place, Link
  <2> QED BY <1>1, <1>b, <2>1, NextStays, SeenStays
<1>c. ASSUME p = "FindKey"
      PROVE  Leads(h, l)' /\ (l.start # Root /\ AtDest(l)' => key'[l.curr] >= l.k)
  <2>1. Leads(g, l) /\ (l.start # Root /\ AtDest(l) => key[l.curr] >= l.k) /\ l.k \in Int
        /\ Known(l.curr)
    BY <1>1, <1>2, <1>c DEF Course, Searching
  <2>2. l.curr \in Nodes /\ key[l.curr] \in Int /\ key'[l.curr] \in Int /\ key[l.curr] <= key'[l.curr]
    <3>1. l.curr \in Nodes /\ l.curr \in Nodes'
      BY <2>1 DEF Known, Advance, NewPointers
    <3>2. key[l.curr] \in Int /\ key'[l.curr] \in Int
      BY <3>1, KeyTypes, KeyTypesNext
    <3> QED BY <3>1, <3>2 DEF KeysTurn
  <2>3. l.start # Root /\ AtDest(l)' => key[l.curr] >= l.k
    BY <1>3, <2>1
  <2>4. l.start # Root /\ AtDest(l)' => key'[l.curr] >= l.k
    BY <2>1, <2>2, <2>3
  <2> QED BY <1>6, <2>1, <2>4
<1>d. ASSUME p = "FindLeft" \/ (p = "FindCheck" /\ l.found = "NOTFOUND_L")
      PROVE  Leads(h, l)' /\ l.k < key'[l.curr]
  <2>1. Leads(g, l) /\ l.k < key[l.curr] /\ l.k \in Int /\ Known(l.curr)
    BY <1>1, <1>2, <1>d DEF Course, Searching
  <2>2. l.curr \in Nodes /\ l.curr \in Nodes'
    BY <2>1 DEF Known, Advance, NewPointers
  <2>3. key[l.curr] \in Int /\ key'[l.curr] \in Int
    BY <2>2, KeyTypes, KeyTypesNext
  <2>4. l.k < key'[l.curr]
    BY <2>1, <2>2, <2>3 DEF KeysTurn
  <2> QED BY <1>6, <2>1, <2>4
<1>e. p = "FindCheck" /\ l.found = "NOTFOUND_R" =>
        RightTurn(h, l)' /\ l.last_right = l.curr /\ l.last_right_op = l.curr_op
  BY <1>1, <1>2, <1>5 DEF Course, Searching
<1>f. /\ p = "FindCheckCurr" /\ l.found # "FOUND" /\ l.start = Root => FitsHere(h, l)'
      /\ p \in Inserting => FitsHere(h, l)'
  <2>1. p \in Inserting => l.found # "FOUND"
    BY DEF Place
  <2>2. p \in {"FindCheckCurr"} \cup Inserting /\ l.found # "FOUND" =>
          EndsHere(l) /\ Seen(l.curr, l.curr_op) /\ l.k \in Int
    BY <1>1, <1>2 DEF Place, Searching, Inserting
  <2> QED BY <1>9, <2>1, <2>2 DEF Course
<1>g. (p = "FindCheckCurr" /\ l.found = "FOUND") \/ p \in {"DeleteLeft", "DeleteRight", "DeleteMark"} =>
        (IsHere(l)' => key'[l.curr] = l.k)
  BY <1>2, <1>4 DEF Course, Searching, Deleting
<1>h. p = "DeleteMark" => (IsHere(l)' => \E s \in Sides : child'[l.curr][s].null)
  BY <1>2, <1>4 DEF Course, Deleting
<1>i. (p = "FindCheckCurr" /\ l.start # Root) \/ p = "DeleteRecheck" =>
        Follows(h, l)' /\ (IsHere(l)' /\ AtDest(l)' => Chosen(l)')
  <2>1. SUFFICES ASSUME (p = "FindCheckCurr" /\ l.start # Root) \/ p = "DeleteRecheck"
                 PROVE  Follows(h, l)' /\ (IsHere(l)' /\ AtDest(l)' => Chosen(l)')
    OBVIOUS
  <2>2. l.start # Root /\ Seen(l.curr, l.curr_op) /\ Follows(g, l) /\ (IsHere(l) /\ AtDest(l) => Chosen(l))
    BY <1>2, <2>1 DEF Course, Searching, Moving, Place
  <2> QED BY <1>3, <1>4, <1>7, <1>8, <2>2
<1>j. p \in {"DeleteKey", "DeleteRelocate"} => Follows(h, l)' /\ (IsHere(l)' => Chosen(l)')
  <2>1. SUFFICES ASSUME p \in {"DeleteKey", "DeleteRelocate"}
                 PROVE  Follows(h, l)' /\ (IsHere(l)' => Chosen(l)')
    OBVIOUS
  <2>2. l.start # Root /\ Seen(l.curr, l.curr_op) /\ Follows(g, l) /\ (IsHere(l) => Chosen(l))
    BY <1>2, <2>1 DEF Course, Moving, Place
  <2> QED BY <1>4, <1>7, <1>8, <2>2
<1>k. p = "DeleteRelocate" => (IsHere(l)' => l.new_key = key'[l.curr])
  BY <1>2, <1>4 DEF Course, Moving
<1>l. ASSUME p = "RelocateUnflag", op'[desc'[i].dest] = Word("RELOCATE", i)
      PROVE  key'[desc'[i].dest] = desc'[i].key_to_put
  <2>1. IsRelocate(i) /\ d.state = "SUCCEED" /\ (op[d.dest] = Word("RELOCATE", i) => key[d.dest] = d.key_to_put)
    BY <1>0, <1>l DEF Course, Place, Relocates, Relocating
  <2>2. desc'[i].dest = d.dest /\ desc'[i].key_to_put = d.key_to_put /\ i \in 1 .. Len(desc) /\ RelocateOK(i)
    BY <1>0, <2>1, KindStays DEF IsRelocate, Advance, Forward
  <2>3. d.dest \in Nodes /\ Nodes \subseteq Nodes' /\ UpTo(Word("RELOCATE", i), op[d.dest]) /\ d.dest_op.op < i
        /\ d.dest_op.op \in Nat
    BY <1>0, <2>1, <2>2 DEF RelocateOK, Seen, Known, Quiet, Words, Advance, Forward, Nodes
  <2>4. op[d.dest] = Word("RELOCATE", i)
    <3>1. op[d.dest] = Word("RELOCATE", i) \/ op[d.dest] = d.dest_op
      BY <1>0, <1>l, <2>2, <2>3, OldFlag
    <3>2. op[d.dest] # d.dest_op
      BY <2>2, <2>3, HeapTypes DEF UpTo, Before, Word, IsRelocate, Words
    <3> QED BY <3>1, <3>2
  <2>5. key'[d.dest] # key[d.dest] => key'[d.dest] = d.key_to_put
    BY <1>0, <2>3, <2>4 DEF KeysTurn, Word
  <2> QED BY <2>1, <2>2, <2>4, <2>5
<1>m. p = "RelocateUnflag" =>
        (op'[desc'[l.helped].dest] = Word("RELOCATE", l.helped)
           => key'[desc'[l.helped].dest] = desc'[l.helped].key_to_put)
  BY <1>0, <1>l
<1> QED BY <1>3, <1>a, <1>b, <1>c, <1>d, <1>e, <1>f, <1>g, <1>h, <1>i, <1>j, <1>k, <1>m DEF Course, KeyAtDest

-----------------------------------------------------------------------------
(* The order after a step. *)

LEMMA TreeFactsNow ==
    Heap => /\ Tree \subseteq Nodes /\ Tree \subseteq Nat /\ Root \in Tree
            /\ \A n \in Nodes : Known(n) /\ op[n].flag # "MARK" => n \in Tree
            /\ \A n \in Nodes : op[n].flag \in {"CHILDCAS", "RELOCATE"} => n \in Tree
            /\ \A n : Known(n) => n \in Nodes /\ (n \in Tree <=> ~Gone(n))
BY TreeFacts

LEMMA TreeFactsNext ==
    ASSUME Heap'
    PROVE  /\ Tree' \subseteq Nodes' /\ Tree' \subseteq Nat /\ Root \in Tree'
           /\ \A n \in Nodes' : Known(n)' /\ op'[n].flag # "MARK" => n \in Tree'
           /\ \A n \in Nodes' : op'[n].flag \in {"CHILDCAS", "RELOCATE"} => n \in Tree'
           /\ \A n : Known(n)' => n \in Nodes' /\ (n \in Tree' <=> ~Gone(n)')
<1>1. (Heap => /\ Tree \subseteq Nodes /\ Tree \subseteq Nat /\ Root \in Tree
               /\ \A n \in Nodes : Known(n) /\ op[n].flag # "MARK" => n \in Tree
               /\ \A n \in Nodes : op[n].flag \in {"CHILDCAS", "RELOCATE"} => n \in Tree
               /\ \A n : Known(n) => n \in Nodes /\ (n \in Tree <=> ~Gone(n)))'
  BY TreeFactsNow, PTL
<1> QED BY <1>1

(* What a step adds, it adds where it belongs. *)
AddsTurn(h) ==
    \A n \in Nodes : \A s, k :
        /\ Waiting(n)' /\ op'[n] # op[n] /\ desc'[op'[n].op].expected.null
        /\ s = desc'[op'[n].op].side /\ k = key'[desc'[op'[n].op].update.node]
        => Fits(h, n, s, k)'

(* The nodes that are marked, and those that wait to be added. *)
LEMMA MarkedStep ==
    ASSUME Heap, Heap', Advance, MarkedInv,
           \A n \in Nodes : op'[n].flag = "MARK" /\ op[n].flag # "MARK" => \E s \in Sides : child[n][s].null
    PROVE  MarkedInv'
<1> SUFFICES ASSUME NEW n \in Nodes', op'[n].flag = "MARK" PROVE \E s \in Sides : child'[n][s].null
  BY DEF MarkedInv
<1>1. n \in Nodes
  BY DEF Advance, Forward, NullWord, Word
<1>2. PICK s \in Sides : child[n][s].null
  BY <1>1 DEF MarkedInv
<1>3. child'[n][s] = child[n][s]
  BY <1>1 DEF Advance, NewPointers
<1> QED BY <1>2, <1>3

LEMMA AddsStep ==
    ASSUME Heap, Heap', Advance, KeysTurn, NEW g, NEW h, PlaceTurn(g, h), AddsInv(g),
           AddsTurn(h)
    PROVE  AddsInv(h)'
<1> SUFFICES ASSUME NEW n \in Nodes', Waiting(n)', desc'[op'[n].op].expected.null,
                    NEW s, s = desc'[op'[n].op].side, NEW k, k = key'[desc'[op'[n].op].update.node]
             PROVE  Fits(h, n, s, k)'
  BY DEF AddsInv
<1>0. n \in Nodes
  BY DEF Advance, Forward, NullWord, Word, Waiting
<1>1. CASE op'[n] # op[n]
  BY <1>0, <1>1 DEF AddsTurn
<1>2. CASE op'[n] = op[n]
  <2>1. PICK i, d, z : i = op[n].op /\ d = desc[i] /\ z = d.update.node
    OBVIOUS
  <2>2. op[n].flag = "CHILDCAS" /\ IsChildCAS(i)
    BY <1>0, <1>2, <2>1 DEF Waiting, Heap, HeapInv
  <2>3. desc'[i] = d /\ ChildCASOK(i)
    BY <2>1, <2>2, KindStays
  <2>4. d.side \in Sides /\ d.expected # d.update /\ d.update \in Pointers
    BY <2>1, <2>3 DEF ChildCASOK
  <2>5. child[n][d.side] = d.expected
    <3>1. child[n][d.side] \in {d.expected, d.update}
      BY <1>0, <2>1, <2>2 DEF Heap, PendingInv
    <3>2. child'[n][d.side] = d.expected
      BY <1>2, <2>1, <2>3 DEF Waiting
    <3> QED BY <1>0, <2>1, <2>4, <3>1, <3>2 DEF Advance, NewPointers
  <2>6. Waiting(n) /\ d.expected.null /\ child'[n][d.side] = child[n][d.side]
    BY <1>2, <2>1, <2>2, <2>3, <2>5 DEF Waiting
  <2>7. Fits(g, n, d.side, key[z]) /\ Adds(n, d)
    BY <1>0, <2>1, <2>6 DEF AddsInv, Heap, PendingInv
  <2>8. z \in Nodes /\ op[z] = NullWord
    <3>1. ~d.update.null /\ op[z] = NullWord
      BY <2>1, <2>7 DEF Adds
    <3>2. z \in 0 .. Len(key) /\ z > Root
      BY <2>1, <2>4, <3>1 DEF Pointers
    <3> QED BY <3>1, <3>2, HeapTypes DEF Nodes, Root
  <2>9. key'[z] = key[z] /\ key[z] \in Int
    BY <2>8, KeyTypes DEF KeysTurn, Receives, NullWord, Word
  <2>10. n \in Tree
    BY <1>0, <2>2, TreeFacts
  <2>11. s = d.side /\ k = key[z]
    BY <1>2, <2>1, <2>3, <2>9
  <2>12. Fits(g, n, s, k) /\ s \in Sides /\ k \in Int
    BY <2>4, <2>7, <2>9, <2>11
  <2>13. op[n].flag \in {"NONE", "CHILDCAS"} /\ child[n][s].null /\ child'[n][s] = child[n][s]
    BY <2>2, <2>5, <2>6, <2>11
  <2> QED BY <1>2, <2>10, <2>12, <2>13 DEF PlaceTurn
<1> QED BY <1>1, <1>2

(* A relocation that was there before. *)
LEMMA MoveStays ==
    ASSUME Heap, Heap', Advance, KeysTurn, MovesTurn, NEW g, NEW h, PlaceTurn(g, h),
           NEW i, IsRelocate(i), MoveOK(g, i)
    PROVE  MoveOK(h, i)'
<1>0. PICK d, w, q : d = desc[i] /\ w = Word("RELOCATE", i) /\ q = d.dest
  OBVIOUS
<1>1. /\ RelocateOK(i) /\ i \in 1 .. Len(desc) /\ desc'[i].dest = q /\ desc'[i].dest_op = d.dest_op
      /\ desc'[i].key_to_put = d.key_to_put /\ desc'[i].key_to_remove = d.key_to_remove
  BY <1>0, KindStays DEF IsRelocate, Advance, Forward, MovesTurn
<1>2. /\ q \in Nodes /\ Seen(q, d.dest_op) /\ d.dest_op.flag = "NONE" /\ w.flag = "RELOCATE" /\ w.op = i
      /\ i \in Nat /\ i <= Len(desc) /\ Len(desc) \in Nat /\ i > 0
  BY <1>0, <1>1, HeapTypes DEF RelocateOK, Seen, Known, Quiet, Word
<1>3. d.key_to_remove \in Int /\ d.key_to_put \in Int /\ d.key_to_remove < d.key_to_put
  BY <1>0 DEF MoveOK
<1>4. /\ op'[q] = d.dest_op => /\ op[q] = d.dest_op /\ q \in Tree /\ q \in Tree'
                              /\ key'[q] = key[q]
  BY <1>2, StillHere
<1>5. op'[q] = w => op[q] = w \/ op[q] = d.dest_op
  <2>1. op'[q] = w => q \in Nodes'
    BY <1>2 DEF Nodes, Advance, Forward
  <2> QED BY <1>0, <1>1, <2>1, OldFlag
<1>6. ASSUME NEW m \in Nodes', m # q, op'[m] = w
      PROVE  /\ m \in Nodes /\ op[m] = w /\ m \in Tree /\ m \in Tree'
             /\ key'[m] = key[m] /\ child'[m].left = child[m].left
  <2>1. m \in Nodes /\ op[m] = w
    BY <1>0, <1>1, <1>6, OldFlag
  <2>2. m \in Tree /\ m \in Tree'
    BY <1>2, <1>6, <2>1, TreeFacts, TreeFactsNext
  <2>3. key'[m] = key[m]
    BY <1>0, <1>2, <1>6, <2>1 DEF KeysTurn, Receives
  <2>4. child'[m].left = child[m].left
    BY <1>2, <2>1 DEF Advance, NewPointers, Sides
  <2> QED BY <2>1, <2>2, <2>3, <2>4
<1>7. op'[q] \in {d.dest_op, w} => op[q] \in {d.dest_op, w} /\ q \in Tree /\ q \in Tree'
  <2>1. op'[q] = w => q \in Nodes' /\ q \in Tree'
    BY <1>2, TreeFactsNext DEF Nodes, Advance, Forward
  <2>2. op[q] \in {d.dest_op, w} => q \in Tree
    BY <1>2, TreeFacts
  <2> QED BY <1>4, <1>5, <2>1, <2>2
<1>8. ASSUME NEW m \in Nodes, m # q, op[m] = w, op'[m] # op[m] PROVE op[q] \notin {d.dest_op, w}
  BY <1>0, <1>2, <1>8 DEF MovesTurn
<1>a. op'[q] = d.dest_op => key'[q] = d.key_to_remove
  BY <1>0, <1>4 DEF MoveOK
<1>b. ASSUME op'[q] = w
      PROVE  key'[q] \in {d.key_to_remove, d.key_to_put} /\ \E m \in Nodes' : m # q /\ op'[m] = w
  <2>1. CASE op[q] = w
    <3>1. key[q] \in {d.key_to_remove, d.key_to_put}
      BY <1>0, <2>1 DEF MoveOK
    <3>2. PICK m \in Nodes : m # q /\ op[m] = w
      BY <1>0, <2>1 DEF MoveOK
    <3>3. op'[m] = w
      BY <1>8, <2>1, <3>2
    <3>4. key'[q] # key[q] => key'[q] = d.key_to_put
      BY <1>0, <1>2, <2>1 DEF KeysTurn
    <3>5. m \in Nodes'
      BY <3>2 DEF Nodes, Advance, Forward
    <3> QED BY <3>1, <3>2, <3>3, <3>4, <3>5
  <2>2. CASE op[q] = d.dest_op
    <3>1. key[q] = d.key_to_remove
      BY <1>0, <2>2 DEF MoveOK
    <3>2. key'[q] = key[q]
      BY <1>2, <2>2 DEF KeysTurn, Receives
    <3>3. PICK m \in Nodes : m # q /\ op[m] = w /\ op'[m] = op[m]
      BY <1>2, <1>b, <2>2 DEF MovesTurn
    <3>4. m \in Nodes'
      BY <3>3 DEF Nodes, Advance, Forward
    <3> QED BY <3>1, <3>2, <3>3, <3>4
  <2> QED BY <1>5, <1>b, <2>1, <2>2
<1>c. ASSUME desc'[i].state = "SUCCEED", op'[q] # w PROVE key'[q] >= d.key_to_put
  <2>1. d.state = "SUCCEED"
    BY <1>0, <1>1, <1>c DEF MovesTurn
  <2>2. key[q] \in Int /\ key'[q] \in Int /\ key[q] <= key'[q]
    <3>1. q \in Nodes'
      BY <1>2 DEF Nodes, Advance, Forward
    <3>2. key[q] \in Int /\ key'[q] \in Int
      BY <1>2, <3>1, KeyTypes, KeyTypesNext
    <3> QED BY <1>2, <3>2 DEF KeysTurn
  <2>3. key[q] >= d.key_to_put
    <3>1. CASE op[q] # w
      BY <1>0, <2>1, <3>1 DEF MoveOK
    <3>2. CASE op[q] = w
      BY <1>0, <1>2, <1>c, <3>2 DEF MovesTurn
    <3> QED BY <3>1, <3>2
  <2> QED BY <1>3, <2>2, <2>3
<1>d. ASSUME NEW m \in Nodes', m # q, op'[m] = w
      PROVE  /\ child'[m].left.null /\ key'[m] = d.key_to_put
             /\ op'[q] \in {d.dest_op, w} => h.lo[m] = h.pos[q]
  <2>1. /\ m \in Nodes /\ op[m] = w /\ m \in Tree /\ m \in Tree'
        /\ key'[m] = key[m] /\ child'[m].left = child[m].left
    BY <1>6, <1>d
  <2>2. /\ child[m].left.null /\ key[m] = d.key_to_put
        /\ op[q] \in {d.dest_op, w} => g.lo[m] = g.pos[q]
    BY <1>0, <1>d, <2>1 DEF MoveOK
  <2>3. Carries(g, h, m, m)
    BY <2>1 DEF PlaceTurn
  <2>4. op'[q] \in {d.dest_op, w} => h.lo[m] = h.pos[q]
    BY <1>7, <2>2, <2>3 DEF Carries
  <2> QED BY <2>1, <2>2, <2>4
<1>e. ASSUME NEW m \in Nodes', m # q, op'[m].op = i, op'[m] # w PROVE op'[q] \notin {d.dest_op, w}
  <2>1. m \in Nodes
    BY <1>2, <1>e DEF Advance, Forward, NullWord, Word
  <2>2. op[q] \notin {d.dest_op, w}
    <3>1. CASE op[m].op = i /\ op[m] # w
      BY <1>0, <1>e, <2>1, <3>1 DEF MoveOK
    <3>2. CASE op[m] = w
      BY <1>8, <1>e, <2>1, <3>2
    <3>3. CASE op[m].op # i
      <4>1. op'[m] # op[m] /\ op'[m].flag \in Flags
        BY <1>e, <2>1, <3>3 DEF Advance, Forward, Words
      <4>2. op'[m].flag = "RELOCATE"
        BY <1>2, <1>e, <2>1, <3>3, <4>1 DEF Advance, NewWords, Flags
      <4>3. desc[i].dest = m
        BY <1>2, <1>e, <2>1, <4>1, <4>2 DEF Advance, NewWords
      <4> QED BY <1>0, <1>e, <4>3
    <3> QED BY <1>e, <2>1, <3>1, <3>2, <3>3
  <2> QED BY <1>7, <2>2
<1> QED BY <1>0, <1>1, <1>3, <1>a, <1>b, <1>c, <1>d, <1>e DEF MoveOK

(* A step that turns the order g to h keeps it. *)
LEMMA OrderStep ==
    ASSUME Inv, Heap', Advance, NEW g \in Labels, NEW h \in Labels, OrderInv(g),
           KeysTurn, MovesTurn, PlaceTurn(g, h), Shape(Tree, child, h)', KeysInv(h)',
           \A n \in Nodes : op'[n].flag = "MARK" /\ op[n].flag # "MARK" => \E s \in Sides : child[n][s].null,
           AddsTurn(h),
           \A i \in (Len(desc) + 1) .. Len(desc') : IsRelocate(i)' => MoveOK(h, i)',
           NEW t \in All, NEW to, NEW l, pc' = [pc EXCEPT ![t] = to], loc' = [loc EXCEPT ![t] = l],
           Course(h, to, l)'
    PROVE  OrderInv(h)'
<1>1. MarkedInv' /\ AddsInv(h)'
  BY MarkedStep, AddsStep DEF OrderInv, Inv
<1>2. MovesInv(h)'
  <2> SUFFICES ASSUME NEW i \in 1 .. Len(desc'), IsRelocate(i)' PROVE MoveOK(h, i)'
    BY DEF MovesInv
  <2>1. Len(desc) \in Nat /\ Len(desc') \in Nat /\ i \in Nat
    BY HeapTypes DEF Inv, Advance, Forward
  <2>2. CASE i <= Len(desc)
    <3>1. i \in 1 .. Len(desc)
      BY <2>1, <2>2
    <3>2. IsRelocate(i)
      BY <3>1 DEF IsRelocate, Advance, Forward
    <3>3. MoveOK(g, i)
      BY <3>1, <3>2 DEF OrderInv, MovesInv
    <3> QED BY <3>2, <3>3, MoveStays DEF Inv
  <2>3. CASE i > Len(desc)
    BY <2>1, <2>3
  <2> QED BY <2>1, <2>2, <2>3
<1>3. \A u \in All : Course(h, pc[u], loc[u])'
  <2>1. ASSUME NEW u \in All, NEW q, NEW k, q = pc'[u], k = loc'[u] PROVE Course(h, q, k)'
    <3>0. DOMAIN pc = All /\ DOMAIN loc = All
      BY DEF Inv, LocalInv
    <3>1. CASE u = t
      BY <2>1, <3>0, <3>1
    <3>2. CASE u # t
      <4>1. q = pc[u] /\ k = loc[u]
        BY <2>1, <3>0, <3>2
      <4>2. Place(q, k) /\ Course(g, q, k)
        BY <4>1 DEF Inv, LocalInv, OrderInv
      <4> QED BY <4>2, CourseStays DEF Inv
    <3> QED BY <3>1, <3>2
  <2> QED BY <2>1
<1> QED BY <1>1, <1>2, <1>3 DEF OrderInv

-----------------------------------------------------------------------------
(* Steps that leave the nodes of the tree as they are. *)

(* What waits to be linked goes on to wait where no pointer changes. *)
LEMMA HiddenStays ==
    ASSUME Heap, Advance, \A n \in Nodes, s \in Sides : child'[n][s] = child[n][s], NEW f, Hidden(f)
    PROVE  Hidden(f)'
<1>0. Nodes \subseteq Nodes'
  BY HeapTypes DEF Advance, Forward, Nodes
<1>1. PICK n \in Nodes : Waiting(n) /\ desc[op[n].op].expected.null /\ desc[op[n].op].update = Ptr(f)
  BY DEF Hidden
<1>2. PICK i, d : i = op[n].op /\ d = desc[i]
  OBVIOUS
<1>3. op[n].flag = "CHILDCAS" /\ IsChildCAS(i) /\ child[n][d.side] = d.expected
  BY <1>1, <1>2 DEF Waiting, Heap, HeapInv
<1>4. desc'[i] = d /\ d.side \in Sides /\ d.expected # d.update
  BY <1>2, <1>3, KindStays DEF ChildCASOK
<1>5. op'[n] = op[n]
  BY <1>2, <1>3, <1>4 DEF Advance, NewWords
<1>6. Waiting(n)' /\ desc'[op'[n].op].expected.null /\ desc'[op'[n].op].update = Ptr(f)
  BY <1>1, <1>2, <1>3, <1>4, <1>5 DEF Waiting
<1> QED BY <1>0, <1>6 DEF Hidden

LEMMA TreeSame ==
    ASSUME Heap, Heap', Advance,
           \A n \in Nodes, s \in Sides : child'[n][s] = child[n][s],
           \A n \in Nodes' \ Nodes : Hidden(n)',
           \A i \in (Len(desc) + 1) .. Len(desc') : IsChildCAS(i)' => ~Done(i)'
    PROVE  /\ Tree' = Tree
           /\ \A n : Gone(n)' = Gone(n)
           /\ \A n \in Nodes : child'[n].left = child[n].left /\ child'[n].right = child[n].right
<1>1. Len(desc) \in Nat /\ Len(desc') \in Nat /\ Nodes \subseteq Nodes'
  BY HeapTypes DEF Advance, Forward, Nodes
<1>2. ASSUME NEW m, Gone(m)' PROVE Gone(m)
  <2>1. PICK i \in 1 .. Len(desc') : IsChildCAS(i)' /\ desc'[i].expected = Ptr(m) /\ Done(i)'
    BY <1>2 DEF Gone
  <2>2. i \in 1 .. Len(desc)
    BY <1>1, <2>1
  <2>3. IsChildCAS(i) /\ desc'[i] = desc[i]
    BY <2>1, <2>2, KindStays DEF IsChildCAS, Advance, Forward
  <2>4. ASSUME NEW n \in Nodes, op[n] = Word("CHILDCAS", i) PROVE child[n][desc[i].side] = desc[i].update
    <3>1. op[n].flag = "CHILDCAS" /\ op[n].op = i
      BY <2>4 DEF Word
    <3>2. CASE op'[n] # op[n]
      BY <3>1, <3>2 DEF Advance, NewWords
    <3>3. CASE op'[n] = op[n]
      <4>1. child'[n][desc[i].side] = desc[i].update
        BY <1>1, <2>1, <2>3, <2>4, <3>3 DEF Done
      <4>2. desc[i].side \in Sides
        BY <2>3, KindStays DEF ChildCASOK
      <4> QED BY <4>1, <4>2
    <3> QED BY <3>2, <3>3
  <2> QED BY <2>1, <2>2, <2>3, <2>4 DEF Gone, Done
<1>3. \A n : Gone(n)' = Gone(n)
  <2>1. \A n : Gone(n) => Gone(n)'
    BY DEF Advance, NewPointers
  <2>2. \A n : Gone(n) \in BOOLEAN /\ Gone(n)' \in BOOLEAN
    BY DEF Gone
  <2> QED BY <1>2, <2>1, <2>2
<1>4. \A f : Hidden(f) => Hidden(f)'
  BY HiddenStays
<1>5. \A n : Known(n)' <=> Known(n)
  BY <1>1, <1>4 DEF Known, Advance, NewPointers
<1>6. Tree' = Tree
  BY <1>1, <1>3, <1>5 DEF Tree, Known
<1> QED BY <1>3, <1>6 DEF Sides

(* Where the nodes of the tree and their pointers are the same and the     *)
(* keys grow, the order is the same.                                       *)
LEMMA SameOrder ==
    ASSUME Heap, Heap', Advance, KeysTurn, NEW g \in Labels, Shape(Tree, child, g),
           Tree' = Tree, \A n : Gone(n)' = Gone(n),
           \A n \in Nodes : child'[n].left = child[n].left /\ child'[n].right = child[n].right
    PROVE  /\ Shape(Tree, child, g)'
           /\ \A x \in Tree : x \in Tree' => Carries(g, g, x, x)
           /\ \A c : Known(c) =>
                \A x \in Heirs(c)' : \E y \in Heirs(c) :
                    Carries(g, g, x, y) /\ \A k \in Int : Upper(g, y, k) => Upper(g, x, k)'
           /\ \A x \in Tree : key[x] \in Int /\ key'[x] \in Int /\ key[x] <= key'[x]
<1>1. \A x \in Tree : x \in Nodes /\ child'[x].left = child[x].left /\ child'[x].right = child[x].right
  BY TreeFacts
<1>2. Shape(Tree, child, g)'
  <2>1. ASSUME NEW x \in Tree PROVE Placed(Tree, child, g, x)'
    <3>1. Placed(Tree, child, g, x)
      BY DEF Shape
    <3> QED BY <1>1, <3>1 DEF Placed
  <2> QED BY <2>1 DEF Shape
<1>3. \A x \in Tree, y \in Tree : Carries(g, g, x, x)
  BY DEF Carries
<1>4. ASSUME NEW x \in Tree PROVE key[x] \in Int /\ key'[x] \in Int /\ key[x] <= key'[x]
  <2>1. x \in Nodes /\ x \in Nodes'
    BY TreeFacts, TreeFactsNext
  <2>2. key[x] \in Int /\ key'[x] \in Int
    BY <2>1, KeyTypes, KeyTypesNext
  <2> QED BY <2>1, <2>2 DEF KeysTurn
<1>5. ASSUME NEW x \in Tree, NEW k \in Int, Upper(g, x, k) PROVE Upper(g, x, k)'
  <2> SUFFICES ASSUME NEW y \in Tree, g.hi[x] <= g.pos[y] PROVE k < key'[y]
    BY DEF Upper
  <2>1. k < key[y]
    BY <1>5 DEF Upper
  <2> QED BY <1>4, <2>1
<1>6. ASSUME NEW c, Known(c), NEW x \in Heirs(c)' PROVE x \in Heirs(c) /\ x \in Tree
  <2>1. c \in Nodes /\ x \in Tree
    BY <1>6 DEF Heirs, Known
  <2>2. \A s \in Sides : child'[c][s] = child[c][s]
    BY <2>1 DEF Sides
  <2> QED BY <1>6, <2>1, <2>2 DEF Heirs
<1>7. \A c : Known(c) =>
        \A x \in Heirs(c)' : \E y \in Heirs(c) :
            Carries(g, g, x, y) /\ \A k \in Int : Upper(g, y, k) => Upper(g, x, k)'
  <2> SUFFICES ASSUME NEW c, Known(c), NEW x \in Heirs(c)'
               PROVE  \E y \in Heirs(c) : Carries(g, g, x, y) /\ \A k \in Int : Upper(g, y, k) => Upper(g, x, k)'
    OBVIOUS
  <2> QED BY <1>3, <1>5, <1>6
<1> QED BY <1>2, <1>3, <1>4, <1>7

LEMMA QuietTurn ==
    ASSUME Heap, Heap', Advance, NEW g \in Labels, Shape(Tree, child, g), KeysInv(g),
           Tree' = Tree, \A n : Gone(n)' = Gone(n),
           \A n \in Nodes : child'[n].left = child[n].left /\ child'[n].right = child[n].right,
           \A n \in Nodes : key'[n] = key[n]
    PROVE  KeysTurn /\ PlaceTurn(g, g) /\ Shape(Tree, child, g)' /\ KeysInv(g)'
<1>1. KeysTurn
  BY DEF KeysTurn
<1>2. \A x \in Tree : x \in Nodes /\ key'[x] = key[x]
  BY TreeFacts
<1>3. Shape(Tree, child, g)'
  BY <1>1, SameOrder
<1>4. PlaceTurn(g, g)
  <2>1. /\ \A x \in Tree : x \in Tree' => Carries(g, g, x, x)
        /\ \A c : Known(c) =>
             \A x \in Heirs(c)' : \E y \in Heirs(c) :
                 Carries(g, g, x, y) /\ \A k \in Int : Upper(g, y, k) => Upper(g, x, k)'
    BY <1>1, SameOrder
  <2>2. \A n, s, k : Fits(g, n, s, k) => Fits(g, n, s, k)'
    BY <1>2 DEF Fits, LeftOf
  <2> QED BY <2>1, <2>2 DEF PlaceTurn
<1>5. KeysInv(g)'
  <2>1. key'[Root] = -1
    BY <1>2, TreeFacts DEF KeysInv
  <2>2. ASSUME NEW x \in Tree, NEW y \in Tree, g.pos[x] < g.pos[y]
        PROVE  key'[x] < key'[y] \/ (key'[x] = key'[y] /\ Leaves(y)' /\ child'[y].left.null)
    <3>1. key[x] < key[y] \/ (key[x] = key[y] /\ Leaves(y) /\ child[y].left.null)
      BY <2>2 DEF KeysInv
    <3> QED BY <1>2, <3>1, LeavesStay
  <2> QED BY <2>1, <2>2 DEF KeysInv
<1> QED BY <1>1, <1>3, <1>4, <1>5

(* A step of thread t that changes words and operations only. *)
LEMMA WordsOrder ==
    ASSUME Inv, Heap', Advance, NEW g \in Labels, OrderInv(g), MovesTurn,
           \A n \in Nodes, s \in Sides : child'[n][s] = child[n][s],
           \A n \in Nodes : key'[n] = key[n],
           \A n \in Nodes' \ Nodes : Hidden(n)',
           \A i \in (Len(desc) + 1) .. Len(desc') : IsChildCAS(i)' => ~Done(i)',
           \A n \in Nodes : op'[n].flag = "MARK" /\ op[n].flag # "MARK" => \E s \in Sides : child[n][s].null,
           Tree' = Tree /\ KeysTurn => AddsTurn(g),
           Tree' = Tree /\ KeysTurn =>
              \A i \in (Len(desc) + 1) .. Len(desc') : IsRelocate(i)' => MoveOK(g, i)',
           NEW t \in All, NEW to, NEW l, pc' = [pc EXCEPT ![t] = to], loc' = [loc EXCEPT ![t] = l],
           Tree' = Tree => Course(g, to, l)'
    PROVE  OrderInv(g)'
<1>1. Heap /\ Shape(Tree, child, g) /\ KeysInv(g)
  BY DEF Inv, OrderInv
<1>2. /\ Tree' = Tree /\ \A n : Gone(n)' = Gone(n)
      /\ \A n \in Nodes : child'[n].left = child[n].left /\ child'[n].right = child[n].right
  BY <1>1, TreeSame
<1>3. KeysTurn /\ PlaceTurn(g, g) /\ Shape(Tree, child, g)' /\ KeysInv(g)'
  BY <1>1, <1>2, QuietTurn
<1> QED BY <1>2, <1>3, OrderStep

(* A step that only loads. *)
LEMMA LoadOrder ==
    ASSUME Inv, Heap', Advance, UNCHANGED heap, NEW g \in Labels, OrderInv(g),
           NEW t \in All, \E to, l : Step(t, to, l) /\ Course(g, to, l)
    PROVE  OrderInv(g)'
<1>1. PICK to, l : Step(t, to, l) /\ Course(g, to, l)
  OBVIOUS
<1>2. key' = key /\ op' = op /\ child' = child /\ desc' = desc
  BY DEF heap
<1>3. Nodes' = Nodes
  BY <1>2 DEF Nodes
<1>4. MovesTurn
  BY <1>2 DEF MovesTurn
<1>5. ASSUME Tree' = Tree PROVE Course(g, to, l)'
  <2>1. Heap
    BY DEF Inv
  <2>2. \A n : Gone(n)' = Gone(n)
    BY <1>2, <1>3 DEF Gone, Done, IsChildCAS
  <2>3. \A n, w : Seen(n, w)' = Seen(n, w)
    BY <1>2, <1>3 DEF Seen, Known, Hidden, Waiting
  <2>4. \A c : Heirs(c)' = Heirs(c)
    BY <1>2, <1>5, <2>2 DEF Heirs
  <2>5. \A x, k : Upper(g, x, k)' = Upper(g, x, k)
    BY <1>2, <1>5 DEF Upper
  <2>6. \A n, s, k : Fits(g, n, s, k)' = Fits(g, n, s, k)
    BY <1>2, <1>5 DEF Fits
  <2>7. IsHere(l)' = IsHere(l) /\ AtDest(l)' = AtDest(l) /\ Chosen(l)' = Chosen(l)
    BY <1>2 DEF IsHere, AtDest, Chosen
  <2>8. Follows(g, l)' = Follows(g, l) /\ FitsHere(g, l)' = FitsHere(g, l)
    BY <2>6, <2>7 DEF Follows, FitsHere, FoundSide
  <2>9. \A x : Good(g, x, l)' = Good(g, x, l)
    BY <1>2, <2>5 DEF Good
  <2>10. Bounded(g, l)' = Bounded(g, l) /\ Leads(g, l)' = Leads(g, l)
    BY <2>3, <2>4, <2>5, <2>9 DEF Bounded, Leads
  <2>11. RightTurn(g, l)' = RightTurn(g, l)
    BY <1>2, <2>7, <2>10 DEF RightTurn
  <2> QED BY <1>1, <1>2, <1>5, <2>3, <2>7, <2>8, <2>9, <2>10, <2>11 DEF Course, KeyAtDest
<1>6. AddsTurn(g) /\ \A i \in (Len(desc) + 1) .. Len(desc') : FALSE
  BY <1>2, HeapTypes DEF AddsTurn, Inv
<1> QED BY <1>1, <1>2, <1>3, <1>4, <1>5, <1>6, WordsOrder DEF Step

-----------------------------------------------------------------------------
(* What the loads tell a thread. *)

(* Places at which nothing but the key of dest matters. *)
LEMMA Elsewhere ==
    ASSUME NEW g, NEW p, NEW l, KeyAtDest(l),
           p \in {"FindOp", "Return", "idle"} \cup Marking \cup Linking \cup (Relocating \ {"RelocateUnflag"})
    PROVE  Course(g, p, l)
BY DEF Course, Marking, Linking, Relocating, Inserting

(* A thread that starts over, or returns. *)
Restarts(l) ==
    /\ KeyAtDest(Rewind(l)) /\ KeyAtDest(Frame(l))
    /\ \A r : KeyAtDest([Frame(l) EXCEPT !.result = r])

LEMMA RestartKeeps ==
    ASSUME NEW l, KeyAtDest(l)
    PROVE  Restarts(l)
<1> SUFFICES /\ KeyAtDest(Rewind(l)) /\ KeyAtDest(Frame(l))
             /\ \A r : KeyAtDest([Frame(l) EXCEPT !.result = r])
  BY DEF Restarts
<1>1. KeyAtDest(Rewind(l))
  <2>1. CASE l.start = Root
    BY <2>1 DEF KeyAtDest, Rewind, Frame, NoLocals
  <2>2. CASE l.start # Root
    <3> DEFINE m == [Frame(l) EXCEPT !.start = l.start, !.dest = l.dest, !.dest_op = l.dest_op,
                                     !.parent = l.parent, !.parent_op = l.parent_op]
    <3>1. m.start = l.start /\ m.dest = l.dest /\ m.dest_op = l.dest_op /\ m.k = l.k /\ Rewind(l) = m
      BY <2>2 DEF Frame, NoLocals, Rewind
    <3> HIDE DEF m
    <3> QED BY <3>1 DEF KeyAtDest, AtDest
  <2> QED BY <2>1, <2>2
<1>2. Frame(l).start = Root /\ \A r : [Frame(l) EXCEPT !.result = r].start = Root
  BY DEF Frame, NoLocals
<1> QED BY <1>1, <1>2 DEF KeyAtDest

LEMMA HelperReturnsCourse ==
    ASSUME NEW g, NEW l, KeyAtDest(l), NEW t,
           \/ FindAgain(t, l)
           \/ Retry(t, l)
           \/ \E r : Answer(t, l, r)
           \/ \E ok : HelperReturns(t, l, ok)
    PROVE  \E to, m : Step(t, to, m) /\ Course(g, to, m)
<1>1. /\ Course(g, "FindOp", Rewind(l)) /\ Course(g, "FindOp", Frame(l))
      /\ \A r : Course(g, "Return", [Frame(l) EXCEPT !.result = r])
  BY RestartKeeps, Elsewhere DEF Restarts
<1> QED BY <1>1 DEF HelperReturns, FindAgain, Answer, Retry

(* Who is next to whom in the order. *)
LEMMA ChildPlaces ==
    ASSUME Heap, NEW g \in Labels, Shape(Tree, child, g), NEW x \in Tree
    PROVE  /\ g.lo[x] \in Int /\ g.pos[x] \in Int /\ g.hi[x] \in Int
           /\ g.lo[x] < g.pos[x] /\ g.pos[x] < g.hi[x] /\ g.hi[x] <= g.hi[Root] /\ g.hi[Root] \in Int
           /\ ~child[x].left.null =>
                /\ child[x].left.node \in Tree
                /\ g.lo[child[x].left.node] = g.lo[x] /\ g.hi[child[x].left.node] = g.pos[x]
           /\ ~child[x].right.null =>
                /\ child[x].right.node \in Tree
                /\ g.lo[child[x].right.node] = g.pos[x] /\ g.hi[child[x].right.node] = g.hi[x]
           /\ \A y \in Tree : child[x].left.null => g.pos[y] <= g.lo[x] \/ g.pos[x] <= g.pos[y]
           /\ \A y \in Tree : child[x].right.null => g.pos[y] <= g.pos[x] \/ g.hi[x] <= g.pos[y]
<1>1. Placed(Tree, child, g, x) /\ Tree \subseteq Nat /\ Root \in Tree /\ x \in Nodes
  BY TreeFacts DEF Shape
<1>2. g.lo[x] \in Int /\ g.pos[x] \in Int /\ g.hi[x] \in Int /\ g.hi[Root] \in Int
  BY <1>1, LabelTypes
<1>3. \A s \in Sides : ~child[x][s].null => child[x][s] = Ptr(child[x][s].node)
  BY TreeFacts
<1>4. /\ ~child[x].left.null => child[x].left = Ptr(child[x].left.node)
      /\ ~child[x].right.null => child[x].right = Ptr(child[x].right.node)
  BY <1>3 DEF Sides
<1> QED BY <1>1, <1>2, <1>4 DEF Placed

(* 74-81 *)
LEMMA FindOpCourse ==
    ASSUME Inv, NEW g \in Labels, OrderInv(g), NEW t \in All, pc[t] = "FindOp", NEW l, l = loc[t],
           FindOp(t, l)
    PROVE  \E to, m : Step(t, to, m) /\ Course(g, to, m)
<1>1. Heap /\ Place("FindOp", l) /\ Course(g, "FindOp", l)
  BY Here DEF OrderInv
<1>2. DOMAIN l = DOMAIN NoLocals /\ KeyAtDest(l) /\ l.k \in Nat
  BY <1>1, KeyTypes DEF Place, Course
<1>3. PICK w : w = op[l.start]
  OBVIOUS
<1>4. CASE w.flag = "NONE" /\ Step(t, "FindRight", [l EXCEPT !.curr = l.start, !.curr_op = w])
  <2>1. PICK m : m = [l EXCEPT !.curr = l.start, !.curr_op = w]
    OBVIOUS
  <2>2. m.start = l.start /\ m.dest = l.dest /\ m.dest_op = l.dest_op /\ m.k = l.k /\ m.curr = l.start
    BY <1>2, <2>1 DEF NoLocals
  <2>3. KeyAtDest(m)
    BY <1>2, <2>2 DEF KeyAtDest, AtDest
  <2>4. m.start = Root => key[m.curr] < m.k
    BY <1>2, <2>2 DEF OrderInv, KeysInv
  <2>5. Course(g, "FindRight", m)
    BY <2>2, <2>3, <2>4 DEF Course, RightTurn, Inserting
  <2> QED BY <1>4, <2>1, <2>5
<1>5. CASE l.start = Root /\ Step(t, "ChildCAS", [l EXCEPT !.helped = w.op, !.target = Root, !.then = "find"])
  <2>1. PICK m : m = [l EXCEPT !.helped = w.op, !.target = Root, !.then = "find"]
    OBVIOUS
  <2>2. KeyAtDest(m)
    BY <1>2, <1>5, <2>1 DEF KeyAtDest, NoLocals
  <2> QED BY <1>5, <2>1, <2>2, Elsewhere DEF Linking
<1>6. CASE Retry(t, l)
  BY <1>2, <1>6, HelperReturnsCourse
<1> QED BY <1>3, <1>4, <1>5, <1>6 DEF FindOp

(* 82-84, 102-105 *)
LEMMA FindRightCourse ==
    ASSUME Inv, NEW g \in Labels, OrderInv(g), NEW t \in All, pc[t] = "FindRight", NEW l, l = loc[t],
           FindRight(t, l)
    PROVE  \E to, m : Step(t, to, m) /\ Course(g, to, m)
<1>1. Heap /\ Place("FindRight", l) /\ Course(g, "FindRight", l) /\ Shape(Tree, child, g)
  BY Here DEF OrderInv
<1>2. /\ DOMAIN l = DOMAIN NoLocals /\ KeyAtDest(l) /\ l.k \in Nat /\ RightTurn(g, l)
      /\ Seen(l.curr, l.curr_op) /\ l.curr \in Nodes /\ SecondFind(l)
  BY <1>1, KeyTypes DEF Place, Course, Searching, Seen, Known
<1>3. PICK p, m : /\ p = child[l.curr].right
                  /\ m = [[l EXCEPT !.found = "NOTFOUND_R", !.last_right = l.curr, !.last_right_op = l.curr_op]
                            EXCEPT !.next = p.node]
  OBVIOUS
<1>4. /\ m.start = l.start /\ m.dest = l.dest /\ m.dest_op = l.dest_op /\ m.k = l.k /\ m.curr = l.curr
      /\ m.curr_op = l.curr_op /\ m.found = "NOTFOUND_R" /\ m.last_right = l.curr
      /\ m.last_right_op = l.curr_op /\ m.next = p.node
  BY <1>2, <1>3 DEF NoLocals
<1>5. KeyAtDest(m)
  BY <1>2, <1>4 DEF KeyAtDest, AtDest
<1>6. CASE p.null
  <2>1. RightTurn(g, m)
    BY <1>2, <1>4 DEF RightTurn, IsHere, AtDest, Bounded
  <2>2. Course(g, "FindCheck", m)
    BY <1>4, <1>5, <2>1 DEF Course, Inserting
  <2>3. Step(t, "FindCheck", m)
    BY <1>3, <1>6 DEF FindRight, Follow
  <2> QED BY <2>2, <2>3
<1>7. CASE ~p.null
  <2>0. Step(t, "FindNext", m)
    BY <1>3, <1>7 DEF FindRight, Follow
  <2>1. ASSUME m.next \in Tree PROVE Good(g, m.next, m)
    <3>1. p = Ptr(m.next)
      <4>1. p \in Pointers
        BY <1>1, <1>2, <1>3, HeapTypes DEF Sides
      <4> QED BY <1>4, <1>7, <4>1, PtrOf DEF Pointers
    <3>2. l.curr \in Tree => g.lo[m.next] = g.pos[l.curr] /\ g.hi[m.next] = g.hi[l.curr]
      <4>1. l.curr \in Tree /\ ~child[l.curr].right.null =>
              /\ g.lo[child[l.curr].right.node] = g.pos[l.curr]
              /\ g.hi[child[l.curr].right.node] = g.hi[l.curr]
        BY <1>1, ChildPlaces
      <4> QED BY <1>3, <1>4, <1>7, <4>1
    <3>3. ASSUME l.start = Root PROVE Upper(g, m.next, l.k)
      <4>1. CASE l.curr \notin Tree
        <5>1. l.curr # l.start /\ Gone(l.curr)
          BY <1>1, <1>2, <3>3, <4>1, TreeFacts DEF Seen
        <5>2. m.next \in Heirs(l.curr)
          BY <1>3, <2>1, <3>1, <5>1 DEF Heirs, Sides
        <5> QED BY <1>2, <3>3, <5>1, <5>2 DEF RightTurn, Bounded
      <4>2. CASE l.curr \in Tree
        <5>1. Upper(g, l.curr, l.k)
          <6>1. CASE l.curr = Root
            <7>1. \A y \in Tree : g.pos[y] \in Int /\ g.pos[y] < g.hi[y] /\ g.hi[y] \in Int /\ g.hi[y] <= g.hi[Root]
                                  /\ g.hi[Root] \in Int
              BY <1>1, ChildPlaces
            <7>2. \A y \in Tree : ~(g.hi[Root] <= g.pos[y])
              BY <7>1
            <7> QED BY <6>1, <7>2 DEF Upper
          <6>2. CASE l.curr # Root
            BY <1>2, <3>3, <4>2, <6>2 DEF RightTurn, Bounded, Heirs
          <6> QED BY <6>1, <6>2
        <5> QED BY <3>2, <4>2, <5>1 DEF Upper
      <4> QED BY <4>1, <4>2
    <3>4. ASSUME l.start = Root, op[l.curr] = l.curr_op
          PROVE  g.lo[m.next] = g.pos[l.curr] /\ key[l.curr] < l.k
      <4>1. l.curr \in Tree
        BY <1>1, <1>2, <3>4, TreeFacts
      <4> QED BY <1>2, <3>2, <3>4, <4>1 DEF RightTurn, IsHere
    <3>5. ASSUME l.start # Root, op[l.dest] = l.dest_op PROVE g.lo[m.next] = g.pos[l.dest]
      <4>1. l.curr = l.dest /\ Seen(l.dest, l.dest_op)
        BY <1>2, <3>5 DEF RightTurn, AtDest, SecondFind
      <4>2. l.curr \in Tree
        BY <1>1, <3>5, <4>1, TreeFacts
      <4> QED BY <3>2, <4>1, <4>2
    <3> QED BY <1>4, <3>3, <3>4, <3>5 DEF Good
  <2>2. Course(g, "FindNext", m)
    BY <1>2, <1>4, <1>5, <2>1 DEF Course, Inserting
  <2> QED BY <2>0, <2>2
<1> QED BY <1>6, <1>7

(* 98-99 *)
LEMMA FindLeftCourse ==
    ASSUME Inv, NEW g \in Labels, OrderInv(g), NEW t \in All, pc[t] = "FindLeft", NEW l, l = loc[t],
           FindLeft(t, l)
    PROVE  \E to, m : Step(t, to, m) /\ Course(g, to, m)
<1>1. Heap /\ Place("FindLeft", l) /\ Course(g, "FindLeft", l) /\ Shape(Tree, child, g) /\ KeysInv(g)
  BY Here DEF OrderInv
<1>2. /\ DOMAIN l = DOMAIN NoLocals /\ KeyAtDest(l) /\ l.k \in Nat /\ Leads(g, l) /\ l.k < key[l.curr]
      /\ Known(l.curr) /\ l.curr \in Nodes
  BY <1>1, KeyTypes DEF Place, Course, Searching, Seen, Known
<1>3. PICK p, m : /\ p = child[l.curr].left
                  /\ m = [[l EXCEPT !.found = "NOTFOUND_L"] EXCEPT !.next = p.node]
  OBVIOUS
<1>4. /\ m.start = l.start /\ m.dest = l.dest /\ m.dest_op = l.dest_op /\ m.k = l.k /\ m.curr = l.curr
      /\ m.curr_op = l.curr_op /\ m.found = "NOTFOUND_L" /\ m.last_right = l.last_right
      /\ m.last_right_op = l.last_right_op /\ m.next = p.node
  BY <1>2, <1>3 DEF NoLocals
<1>5. KeyAtDest(m)
  BY <1>2, <1>4 DEF KeyAtDest, AtDest
<1>6. CASE p.null
  <2>1. Leads(g, m) /\ m.k < key[m.curr]
    BY <1>2, <1>4 DEF Leads, Good
  <2>2. Course(g, "FindCheck", m)
    BY <1>4, <1>5, <2>1 DEF Course, Inserting
  <2>3. Step(t, "FindCheck", m)
    BY <1>3, <1>6 DEF FindLeft, Follow
  <2> QED BY <2>2, <2>3
<1>7. CASE ~p.null
  <2>0. Step(t, "FindNext", m)
    BY <1>3, <1>7 DEF FindLeft, Follow
  <2>1. ASSUME m.next \in Tree PROVE Good(g, m.next, l)
    <3>1. p = Ptr(m.next)
      <4>1. p \in Pointers
        BY <1>1, <1>2, <1>3, HeapTypes DEF Sides
      <4> QED BY <1>4, <1>7, <4>1, PtrOf DEF Pointers
    <3>2. CASE l.curr \notin Tree
      <4>1. Gone(l.curr)
        BY <1>1, <1>2, <3>2, TreeFacts
      <4>2. m.next \in Heirs(l.curr)
        BY <1>3, <2>1, <3>1, <4>1 DEF Heirs, Sides
      <4> QED BY <1>2, <4>2 DEF Leads
    <3>3. CASE l.curr \in Tree
      <4>1. Good(g, l.curr, l)
        BY <1>2, <3>3 DEF Leads, Heirs
      <4>2. g.lo[m.next] = g.lo[l.curr] /\ g.hi[m.next] = g.pos[l.curr]
        <5>1. ~child[l.curr].left.null => /\ g.lo[child[l.curr].left.node] = g.lo[l.curr]
                                          /\ g.hi[child[l.curr].left.node] = g.pos[l.curr]
          BY <1>1, <3>3, ChildPlaces
        <5> QED BY <1>3, <1>4, <1>7, <5>1
      <4>3. ASSUME NEW y \in Tree, g.pos[l.curr] <= g.pos[y] PROVE l.k < key[y]
        <5>1. /\ g.pos[l.curr] \in Int /\ g.pos[y] \in Int /\ key[l.curr] \in Int /\ key[y] \in Int
              /\ g.pos[l.curr] < g.pos[y] => key[l.curr] <= key[y]
              /\ g.pos[l.curr] = g.pos[y] => l.curr = y
          BY <1>1, <3>3, KeyOrder
        <5> QED BY <1>2, <4>3, <5>1
      <4>4. Upper(g, m.next, l.k)
        BY <4>2, <4>3 DEF Upper
      <4> QED BY <4>1, <4>2, <4>4 DEF Good
    <3> QED BY <3>2, <3>3
  <2>2. m.next \in Tree => Good(g, m.next, m)
    BY <1>4, <2>1 DEF Good
  <2>3. Course(g, "FindNext", m)
    BY <1>2, <1>4, <1>5, <2>2 DEF Course, Inserting, Leads
  <2> QED BY <2>0, <2>3
<1> QED BY <1>6, <1>7

(* 87-95 *)
LEMMA FindNextCourse ==
    ASSUME Inv, NEW g \in Labels, OrderInv(g), NEW t \in All, pc[t] = "FindNext", NEW l, l = loc[t],
           FindNext(t, l)
    PROVE  \E to, m : Step(t, to, m) /\ Course(g, to, m)
<1>1. Heap /\ Place("FindNext", l) /\ Course(g, "FindNext", l) /\ Shape(Tree, child, g) /\ KeysInv(g)
  BY Here DEF OrderInv
<1>2. /\ DOMAIN l = DOMAIN NoLocals /\ KeyAtDest(l) /\ l.k \in Nat
      /\ Known(l.next) /\ l.next \in Nodes /\ SecondFind(l)
      /\ Seen(l.last_right, l.last_right_op) /\ (l.next \in Tree => Good(g, l.next, l))
  BY <1>1, KeyTypes DEF Place, Course, Link, Known
<1>3. PICK w, down : /\ w = op[l.next]
                     /\ down = [l EXCEPT !.parent = l.curr, !.parent_op = l.curr_op,
                                         !.curr = l.next, !.curr_op = w]
  OBVIOUS
<1>4. /\ down.start = l.start /\ down.dest = l.dest /\ down.dest_op = l.dest_op /\ down.k = l.k
      /\ down.curr = l.next /\ down.curr_op = w /\ down.last_right = l.last_right
      /\ down.last_right_op = l.last_right_op /\ DOMAIN down = DOMAIN l
  BY <1>2, <1>3 DEF NoLocals
<1>5. KeyAtDest(down)
  BY <1>2, <1>4 DEF KeyAtDest, AtDest
<1>6. CASE w.flag = "NONE"
  <2>1. l.next \in Tree /\ ~Gone(l.next)
    BY <1>1, <1>2, <1>3, <1>6, TreeFacts
  <2>2. Good(g, l.next, down)
    BY <1>2, <1>4, <2>1 DEF Good
  <2>3. Leads(g, down)
    BY <1>2, <1>4, <2>1, <2>2 DEF Leads, Heirs
  <2>4. ASSUME down.start # Root, AtDest(down) PROVE key[down.curr] >= down.k
    <3>1. g.lo[l.next] = g.pos[l.dest] /\ l.dest \in Tree
      BY <1>1, <1>2, <1>4, <2>2, <2>4, TreeFacts DEF Good, AtDest, SecondFind
    <3>2. key[l.dest] = l.k
      BY <1>4, <1>5, <2>4 DEF KeyAtDest
    <3>3. g.lo[l.next] < g.pos[l.next]
      BY <1>1, <2>1, ChildPlaces
    <3>4. key[l.dest] <= key[l.next] /\ key[l.dest] \in Int /\ key[l.next] \in Int
      BY <1>1, <2>1, <3>1, <3>3, KeyOrder
    <3> QED BY <1>4, <3>2, <3>4
  <2>5. Course(g, "FindKey", down)
    BY <1>5, <2>3, <2>4 DEF Course, Inserting
  <2>6. Step(t, "FindKey", down)
    BY <1>3, <1>6 DEF FindNext
  <2> QED BY <2>5, <2>6
<1>7. CASE w.flag # "NONE"
  <2>1. PICK m : m = [down EXCEPT !.helped = w.op, !.target = l.next, !.then = "find"]
    OBVIOUS
  <2>2. m.start = l.start /\ m.dest = l.dest /\ m.dest_op = l.dest_op /\ m.k = l.k
    BY <1>2, <1>4, <2>1 DEF NoLocals
  <2>3. KeyAtDest(m)
    BY <1>2, <2>2 DEF KeyAtDest, AtDest
  <2>4. HelperOf[w.flag] \in {"ChildCAS", "RelocateState", "MarkedSide"}
    <3>1. w.flag \in Flags
      BY <1>1, <1>2, <1>3, HeapTypes DEF Words
    <3> QED BY <1>7, <3>1 DEF HelperOf, Flags
  <2>5. Course(g, HelperOf[w.flag], m)
    BY <2>3, <2>4, Elsewhere DEF Marking, Linking, Relocating
  <2>6. Step(t, HelperOf[w.flag], m)
    BY <1>3, <1>7, <2>1 DEF FindNext
  <2> QED BY <2>5, <2>6
<1> QED BY <1>6, <1>7

(* 96-110 *)
LEMMA FindKeyCourse ==
    ASSUME Inv, NEW g \in Labels, OrderInv(g), NEW t \in All, pc[t] = "FindKey", NEW l, l = loc[t],
           FindKey(t, l)
    PROVE  \E to, m : Step(t, to, m) /\ Course(g, to, m)
<1>1. Heap /\ Place("FindKey", l) /\ Course(g, "FindKey", l) /\ Shape(Tree, child, g) /\ KeysInv(g)
  BY Here DEF OrderInv
<1>2. /\ DOMAIN l = DOMAIN NoLocals /\ KeyAtDest(l) /\ l.k \in Nat /\ Leads(g, l)
      /\ (l.start # Root /\ AtDest(l) => key[l.curr] >= l.k)
      /\ Seen(l.curr, l.curr_op) /\ l.curr \in Nodes /\ SecondFind(l)
  BY <1>1, KeyTypes DEF Place, Course, Searching, Seen, Known
<1>3. key[l.curr] \in Int
  BY <1>1, <1>2, KeyTypes
<1>4. CASE l.k < key[l.curr] /\ Step(t, "FindLeft", l)
  <2>1. Course(g, "FindLeft", l)
    BY <1>2, <1>4 DEF Course, Inserting
  <2> QED BY <1>4, <2>1
<1>5. CASE l.k > key[l.curr] /\ Step(t, "FindRight", l)
  <2>1. Bounded(g, l)
    BY <1>2 DEF Leads, Good, Bounded
  <2>2. RightTurn(g, l)
    BY <1>2, <1>3, <1>5, <2>1 DEF RightTurn
  <2>3. Course(g, "FindRight", l)
    BY <1>2, <2>2 DEF Course, Inserting
  <2> QED BY <1>5, <2>3
<1>6. CASE l.k = key[l.curr] /\ Step(t, "FindCheckCurr", [l EXCEPT !.found = "FOUND"])
  <2>1. PICK m : m = [l EXCEPT !.found = "FOUND"]
    OBVIOUS
  <2>2. /\ m.start = l.start /\ m.dest = l.dest /\ m.dest_op = l.dest_op /\ m.k = l.k /\ m.curr = l.curr
        /\ m.curr_op = l.curr_op /\ m.found = "FOUND"
    BY <1>2, <2>1 DEF NoLocals
  <2>3. KeyAtDest(m)
    BY <1>2, <2>2 DEF KeyAtDest, AtDest
  <2>4. ASSUME m.start # Root, IsHere(m), AtDest(m) PROVE FALSE
    <3>1. l.curr \in Tree /\ op[l.curr].flag = "NONE"
      BY <1>1, <1>2, <2>2, <2>4, TreeFacts DEF IsHere, Seen, Quiet
    <3>2. Good(g, l.curr, l)
      BY <1>2, <3>1 DEF Leads, Heirs
    <3>3. g.lo[l.curr] = g.pos[l.dest] /\ l.dest \in Tree
      BY <1>1, <1>2, <2>2, <2>4, <3>2, TreeFacts DEF Good, AtDest, SecondFind
    <3>4. g.lo[l.curr] < g.pos[l.curr]
      BY <1>1, <3>1, ChildPlaces
    <3>5. key[l.dest] = l.k
      BY <2>2, <2>3, <2>4 DEF KeyAtDest
    <3>6. ~Leaves(l.curr)
      BY <3>1 DEF Leaves
    <3>7. key[l.dest] < key[l.curr] /\ key[l.dest] \in Int
      BY <1>1, <3>1, <3>3, <3>4, <3>6, KeyOrder
    <3> QED BY <1>3, <1>6, <3>5, <3>7
  <2>5. Course(g, "FindCheckCurr", m)
    BY <1>6, <2>2, <2>3, <2>4 DEF Course, Follows, Inserting
  <2> QED BY <1>6, <2>1, <2>5
<1> QED BY <1>4, <1>5, <1>6 DEF FindKey

(* Where find ended: the key belongs there, and the second find ended at   *)
(* the node after dest.                                                    *)
LEMMA FoundPlace ==
    ASSUME Heap, NEW g \in Labels, Shape(Tree, child, g), KeysInv(g), NEW l, l.found # "FOUND",
           Place("FindCheck", l), Course(g, "FindCheck", l), op[l.last_right] = l.last_right_op
    PROVE  /\ l.start = Root => FitsHere(g, l)
           /\ l.start # Root => Follows(g, l) /\ (IsHere(l) /\ AtDest(l) => Chosen(l))
<1>1. /\ KeyAtDest(l) /\ l.k \in Nat /\ SecondFind(l) /\ LeftDest(l) /\ EndsHere(l)
      /\ Seen(l.curr, l.curr_op) /\ l.curr \in Nodes /\ l.found \in {"NOTFOUND_L", "NOTFOUND_R"}
  BY KeyTypes DEF Place, Course, Searching, Seen, Known
<1>2. ASSUME IsHere(l)
      PROVE  /\ l.curr \in Tree /\ child[l.curr][FoundSide(l)].null
             /\ g.lo[l.curr] \in Int /\ g.pos[l.curr] \in Int /\ g.hi[l.curr] \in Int
             /\ g.lo[l.curr] < g.pos[l.curr] /\ g.pos[l.curr] < g.hi[l.curr]
             /\ key[l.curr] \in Int
  <2>1. l.curr \in Tree /\ child[l.curr][FoundSide(l)].null
    BY <1>1, <1>2, TreeFacts DEF EndsHere, IsHere
  <2> QED BY <1>1, <2>1, ChildPlaces, KeyTypes
<1>3. ASSUME l.start = Root, IsHere(l), l.found = "NOTFOUND_R" PROVE Fits(g, l.curr, "right", l.k)
  <2>1. RightTurn(g, l) /\ key[l.curr] < l.k
    BY <1>3 DEF Course, RightTurn
  <2>2. l.curr = Root \/ Upper(g, l.curr, l.k)
    BY <1>2, <1>3, <2>1 DEF RightTurn, Bounded, Heirs
  <2>3. child[l.curr].right.null
    BY <1>2, <1>3 DEF FoundSide
  <2>4. ASSUME NEW x \in Tree
        PROVE  /\ LeftOf(g, x, l.curr, "right") => key[x] < l.k
               /\ ~LeftOf(g, x, l.curr, "right") => l.k < key[x]
    <3>1. /\ g.pos[x] \in Int /\ key[x] \in Int
          /\ g.pos[x] < g.pos[l.curr] => key[x] <= key[l.curr]
          /\ g.pos[x] = g.pos[l.curr] => x = l.curr
      BY <1>2, <1>3, KeyOrder
    <3>2. LeftOf(g, x, l.curr, "right") => key[x] < l.k
      BY <1>1, <1>2, <1>3, <2>1, <3>1 DEF LeftOf
    <3>3. ASSUME ~LeftOf(g, x, l.curr, "right") PROVE l.k < key[x]
      <4>1. g.pos[l.curr] < g.pos[x]
        BY <1>2, <1>3, <3>1, <3>3 DEF LeftOf
      <4>2. g.hi[l.curr] <= g.pos[x]
        <5>1. g.pos[x] <= g.pos[l.curr] \/ g.hi[l.curr] <= g.pos[x]
          BY <1>2, <1>3, <2>3, ChildPlaces
        <5> QED BY <1>2, <1>3, <3>1, <4>1, <5>1
      <4>3. l.curr # Root
        <5>1. g.pos[x] < g.hi[x] /\ g.hi[x] \in Int /\ g.hi[x] <= g.hi[Root] /\ g.hi[Root] \in Int
          BY ChildPlaces
        <5> QED BY <3>1, <4>2, <5>1
      <4> QED BY <2>2, <4>2, <4>3 DEF Upper
    <3> QED BY <3>2, <3>3
  <2> QED BY <2>4 DEF Fits
<1>4. ASSUME l.start = Root, IsHere(l), l.found = "NOTFOUND_L" PROVE Fits(g, l.curr, "left", l.k)
  <2>1. Leads(g, l) /\ l.k < key[l.curr]
    BY <1>4 DEF Course
  <2>2. Good(g, l.curr, l)
    BY <1>2, <1>4, <2>1 DEF Leads, Heirs
  <2>3. g.lo[l.curr] = g.pos[l.last_right] /\ key[l.last_right] < l.k /\ l.last_right \in Tree
    BY <1>4, <2>1, <2>2, TreeFacts DEF Good, Leads
  <2>4. child[l.curr].left.null
    BY <1>2, <1>4 DEF FoundSide
  <2>5. ASSUME NEW x \in Tree
        PROVE  /\ LeftOf(g, x, l.curr, "left") => key[x] < l.k
               /\ ~LeftOf(g, x, l.curr, "left") => l.k < key[x]
    <3>1. /\ g.pos[x] \in Int /\ key[x] \in Int
          /\ g.pos[l.curr] < g.pos[x] => key[l.curr] <= key[x]
          /\ g.pos[x] = g.pos[l.curr] => x = l.curr
      BY <1>2, <1>4, KeyOrder
    <3>2. /\ key[l.last_right] \in Int /\ g.pos[l.last_right] \in Int
          /\ g.pos[x] < g.pos[l.last_right] => key[x] <= key[l.last_right]
          /\ g.pos[x] = g.pos[l.last_right] => x = l.last_right
      BY <2>3, KeyOrder
    <3>3. ASSUME LeftOf(g, x, l.curr, "left") PROVE key[x] < l.k
      <4>1. g.pos[x] < g.pos[l.curr]
        BY <3>3 DEF LeftOf
      <4>2. g.pos[x] <= g.lo[l.curr] \/ g.pos[l.curr] <= g.pos[x]
        BY <1>2, <1>4, <2>4, ChildPlaces
      <4>3. g.pos[x] <= g.pos[l.last_right]
        BY <1>2, <1>4, <2>3, <3>1, <4>1, <4>2
      <4>4. key[x] <= key[l.last_right]
        BY <3>1, <3>2, <4>3
      <4> QED BY <1>1, <2>3, <3>1, <3>2, <4>4
    <3>4. ~LeftOf(g, x, l.curr, "left") => l.k < key[x]
      BY <1>1, <1>2, <1>4, <2>1, <3>1 DEF LeftOf
    <3> QED BY <3>3, <3>4
  <2> QED BY <2>5 DEF Fits
<1>5. l.start = Root => FitsHere(g, l)
  <2>1. l.found = "NOTFOUND_L" => FoundSide(l) = "left"
    BY DEF FoundSide
  <2>2. l.found = "NOTFOUND_R" => FoundSide(l) = "right"
    BY DEF FoundSide
  <2> QED BY <1>1, <1>3, <1>4, <2>1, <2>2 DEF FitsHere
<1>6. ASSUME l.start # Root, IsHere(l), AtDest(l)
      PROVE  g.lo[l.curr] = g.pos[l.dest] /\ Chosen(l)
  <2>1. CASE l.found = "NOTFOUND_R"
    <3>1. l.curr = l.start /\ l.start = l.dest
      BY <1>1, <1>6, <2>1 DEF Course, RightTurn, SecondFind
    <3>2. child[l.curr].right.null
      BY <1>2, <1>6, <2>1 DEF FoundSide
    <3>3. ~child[l.dest].right.null
      BY <1>1, <1>6 DEF SecondFind, AtDest
    <3> QED BY <3>1, <3>2, <3>3
  <2>2. CASE l.found = "NOTFOUND_L"
    <3>1. Leads(g, l) /\ l.k < key[l.curr]
      BY <2>2 DEF Course
    <3>2. g.lo[l.curr] = g.pos[l.dest]
      BY <1>2, <1>6, <3>1 DEF Leads, Heirs, Good, AtDest
    <3>3. l.curr # l.dest
      BY <1>2, <1>6, <3>2
    <3>4. child[l.curr].left.null
      BY <1>2, <1>6, <2>2 DEF FoundSide
    <3> QED BY <3>1, <3>2, <3>3, <3>4 DEF Chosen
  <2> QED BY <1>1, <2>1, <2>2
<1> QED BY <1>5, <1>6 DEF Follows

(* 117 *)
LEMMA FindCheckCourse ==
    ASSUME Inv, NEW g \in Labels, OrderInv(g), NEW t \in All, pc[t] = "FindCheck", NEW l, l = loc[t],
           FindCheck(t, l)
    PROVE  \E to, m : Step(t, to, m) /\ Course(g, to, m)
<1>1. Heap /\ Place("FindCheck", l) /\ Course(g, "FindCheck", l) /\ Shape(Tree, child, g) /\ KeysInv(g)
  BY Here DEF OrderInv
<1>2. KeyAtDest(l) /\ l.found # "FOUND"
  BY <1>1 DEF Place, Course
<1>3. CASE op[l.last_right] = l.last_right_op
  <2>1. /\ l.start = Root => FitsHere(g, l)
        /\ l.start # Root => Follows(g, l) /\ (IsHere(l) /\ AtDest(l) => Chosen(l))
    BY <1>1, <1>2, <1>3, FoundPlace
  <2>2. Course(g, "FindCheckCurr", l)
    BY <1>2, <2>1 DEF Course, Inserting
  <2> QED BY <1>3, <2>2 DEF FindCheck
<1>4. CASE op[l.last_right] # l.last_right_op
  BY <1>2, <1>4, HelperReturnsCourse DEF FindCheck
<1> QED BY <1>3, <1>4

LEMMA FindCheckCurrCourse ==
    ASSUME Inv, NEW g \in Labels, OrderInv(g), NEW t \in All, pc[t] = "FindCheckCurr", NEW l, l = loc[t],
           FindCheckCurr(t, l)
    PROVE  \E to, m : Step(t, to, m) /\ Course(g, to, m)
<1>1. Course(g, "FindCheckCurr", l) /\ KeyAtDest(l)
  BY DEF OrderInv, Course
<1>2. ASSUME l.start # Root PROVE Course(g, "DeleteRecheck", l)
  BY <1>1, <1>2 DEF Course, Inserting
<1>3. ASSUME l.start = Root, l.found # "FOUND" PROVE Course(g, "InsertOld", l)
  BY <1>1, <1>3 DEF Course, Inserting
<1>4. ASSUME l.found = "FOUND" PROVE Course(g, "DeleteLeft", l)
  BY <1>1, <1>4 DEF Course, Inserting
<1>5. ASSUME \/ FindAgain(t, l)
             \/ \E r : Answer(t, l, r)
      PROVE  \E to, m : Step(t, to, m) /\ Course(g, to, m)
  BY <1>1, <1>5, HelperReturnsCourse
<1>6. ASSUME FindReturns(t, l) PROVE \E to, m : Step(t, to, m) /\ Course(g, to, m)
  <2>1. PICK found : found = (l.found = "FOUND")
    OBVIOUS
  <2> QED BY <1>2, <1>3, <1>4, <1>5, <1>6 DEF FindReturns
<1> QED BY <1>5, <1>6 DEF FindCheckCurr

(* 138-139 *)
LEMMA InsertOldCourse ==
    ASSUME Inv, NEW g \in Labels, OrderInv(g), NEW t \in All, pc[t] = "InsertOld", NEW l, l = loc[t],
           InsertOld(t, l)
    PROVE  \E to, m : Step(t, to, m) /\ Course(g, to, m)
<1>1. /\ Place("InsertOld", l) /\ Course(g, "InsertOld", l) /\ KeyAtDest(l) /\ FitsHere(g, l)
      /\ DOMAIN l = DOMAIN NoLocals
  BY Here DEF OrderInv, Course, Inserting, Place
<1>2. PICK m : m = [l EXCEPT !.old = child[l.curr][FoundSide(l)]]
  OBVIOUS
<1>3. /\ m.start = l.start /\ m.dest = l.dest /\ m.dest_op = l.dest_op /\ m.k = l.k /\ m.curr = l.curr
      /\ m.curr_op = l.curr_op /\ m.found = l.found
  BY <1>1, <1>2 DEF NoLocals
<1>4. KeyAtDest(m) /\ FitsHere(g, m)
  BY <1>1, <1>3 DEF KeyAtDest, AtDest, FitsHere, IsHere, FoundSide
<1>5. Course(g, "InsertCAS", m)
  BY <1>4 DEF Course, Inserting
<1> QED BY <1>2, <1>5 DEF InsertOld

(* 156, 163 *)
LEMMA DeleteCourse ==
    ASSUME Inv, NEW g \in Labels, OrderInv(g), NEW t \in All, NEW l, l = loc[t],
           \/ pc[t] = "DeleteLeft" /\ DeleteLeft(t, l)
           \/ pc[t] = "DeleteRight" /\ DeleteRight(t, l)
    PROVE  \E to, m : Step(t, to, m) /\ Course(g, to, m)
<1>1. /\ KeyAtDest(l) /\ DOMAIN l = DOMAIN NoLocals /\ (IsHere(l) => key[l.curr] = l.k)
  <2>1. Place(pc[t], l) /\ Course(g, pc[t], l)
    BY Here DEF OrderInv
  <2> QED BY <2>1 DEF Course, Place
<1>2. ASSUME child[l.curr].left.null \/ child[l.curr].right.null PROVE Course(g, "DeleteMark", l)
  <2>1. \E s \in Sides : child[l.curr][s].null
    BY <1>2 DEF Sides
  <2> QED BY <1>1, <2>1 DEF Course, Inserting
<1>3. Course(g, "DeleteRight", l)
  BY <1>1 DEF Course, Inserting
<1>4. PICK m : m = [l EXCEPT !.start = l.curr, !.dest = l.curr, !.dest_op = l.curr_op]
  OBVIOUS
<1>5. m.start = l.curr /\ m.dest = l.curr /\ m.dest_op = l.curr_op /\ m.k = l.k
  BY <1>1, <1>4 DEF NoLocals
<1>6. KeyAtDest(m)
  BY <1>1, <1>5 DEF KeyAtDest, AtDest, IsHere
<1>7. ASSUME FindAgain(t, m) PROVE \E to, n : Step(t, to, n) /\ Course(g, to, n)
  BY <1>6, <1>7, HelperReturnsCourse
<1> QED BY <1>2, <1>3, <1>4, <1>7 DEF DeleteLeft, DeleteRight, FindAgain

(* 163, second test *)
LEMMA DeleteRecheckCourse ==
    ASSUME Inv, NEW g \in Labels, OrderInv(g), NEW t \in All, pc[t] = "DeleteRecheck", NEW l, l = loc[t],
           DeleteRecheck(t, l)
    PROVE  \E to, m : Step(t, to, m) /\ Course(g, to, m)
<1>1. KeyAtDest(l) /\ Follows(g, l) /\ (IsHere(l) /\ AtDest(l) => Chosen(l))
  <2>1. Course(g, "DeleteRecheck", l)
    BY DEF OrderInv
  <2> QED BY <2>1 DEF Course
<1>2. CASE op[l.dest] = l.dest_op
  <2>1. Course(g, "DeleteKey", l)
    BY <1>1, <1>2 DEF Course, AtDest, Inserting
  <2> QED BY <1>2, <2>1 DEF DeleteRecheck
<1>3. CASE op[l.dest] # l.dest_op
  BY <1>1, <1>3, HelperReturnsCourse DEF DeleteRecheck
<1> QED BY <1>2, <1>3

(* 165 *)
LEMMA DeleteKeyCourse ==
    ASSUME Inv, NEW g \in Labels, OrderInv(g), NEW t \in All, pc[t] = "DeleteKey", NEW l, l = loc[t],
           DeleteKey(t, l)
    PROVE  \E to, m : Step(t, to, m) /\ Course(g, to, m)
<1>1. KeyAtDest(l) /\ DOMAIN l = DOMAIN NoLocals /\ Follows(g, l) /\ (IsHere(l) => Chosen(l))
  <2>1. Place(pc[t], l) /\ Course(g, "DeleteKey", l)
    BY Here DEF OrderInv
  <2> QED BY <2>1 DEF Course, Place
<1>2. PICK m : m = [l EXCEPT !.new_key = key[l.curr]]
  OBVIOUS
<1>3. /\ m.start = l.start /\ m.dest = l.dest /\ m.dest_op = l.dest_op /\ m.k = l.k /\ m.curr = l.curr
      /\ m.curr_op = l.curr_op /\ m.new_key = key[l.curr]
  BY <1>1, <1>2 DEF NoLocals
<1>4. KeyAtDest(m) /\ Follows(g, m) /\ (IsHere(m) => Chosen(m))
  BY <1>1, <1>3 DEF KeyAtDest, AtDest, Follows, IsHere, Chosen
<1>5. Course(g, "DeleteRelocate", m)
  BY <1>3, <1>4 DEF Course, Inserting
<1> QED BY <1>2, <1>5 DEF DeleteKey

(* What follows when the outcome of a relocation is known. *)
LEMMA OutcomeCourse ==
    ASSUME NEW g, NEW l, DOMAIN l = DOMAIN NoLocals, KeyAtDest(l), NEW t, NEW state, Outcome(t, l, state)
    PROVE  \E to, m : Step(t, to, m) /\ Course(g, to, m)
<1>1. CASE HelperReturns(t, l, state = "SUCCEED")
  BY <1>1, HelperReturnsCourse
<1>2. CASE Step(t, "RelocateMark", [l EXCEPT !.state = state])
  <2>1. PICK m : m = [l EXCEPT !.state = state]
    OBVIOUS
  <2>2. m.start = l.start /\ m.dest = l.dest /\ m.dest_op = l.dest_op /\ m.k = l.k
    BY <2>1 DEF NoLocals
  <2>3. KeyAtDest(m)
    BY <2>2 DEF KeyAtDest, AtDest
  <2> QED BY <1>2, <2>1, <2>3, Elsewhere DEF Relocating
<1> QED BY <1>1, <1>2 DEF Outcome

(* The loads of the helpers, and the return. *)
LEMMA HelperCourse ==
    ASSUME Inv, NEW g \in Labels, OrderInv(g), NEW t \in All, NEW l, l = loc[t],
           \/ pc[t] = "MarkedSide" /\ MarkedSide(t, l)
           \/ pc[t] = "RelocateState" /\ RelocateState(t, l, desc[l.helped])
           \/ pc[t] = "RelocateSeen" /\ RelocateSeen(t, l, desc[l.helped])
           \/ pc[t] = "RelocateReread" /\ RelocateReread(t, l, desc[l.helped])
           \/ pc[t] = "Return" /\ Return(t)
    PROVE  \E to, m : Step(t, to, m) /\ Course(g, to, m)
<1>1. KeyAtDest(l) /\ DOMAIN l = DOMAIN NoLocals
  <2>1. Place(pc[t], l) /\ Course(g, pc[t], l)
    BY Here DEF OrderInv
  <2> QED BY <2>1 DEF Course, Place
<1>2. CASE MarkedSide(t, l)
  <2>1. PICK m : m = [l EXCEPT !.side = IF child[l.parent].left = Ptr(l.curr) THEN "left" ELSE "right"]
    OBVIOUS
  <2>2. m.start = l.start /\ m.dest = l.dest /\ m.dest_op = l.dest_op /\ m.k = l.k
    BY <1>1, <2>1 DEF NoLocals
  <2>3. KeyAtDest(m)
    BY <1>1, <2>2 DEF KeyAtDest, AtDest
  <2> QED BY <1>2, <2>1, <2>3, Elsewhere DEF MarkedSide, Marking
<1>3. \A p \in {"RelocateDest", "RelocateKey", "RelocateSucceed", "RelocateFail"} : Course(g, p, l)
  BY <1>1, Elsewhere DEF Relocating
<1>4. ASSUME NEW state, ActOnState(t, l, state) PROVE \E to, m : Step(t, to, m) /\ Course(g, to, m)
  BY <1>1, <1>3, <1>4, OutcomeCourse DEF ActOnState
<1>5. CASE RelocateState(t, l, desc[l.helped]) \/ RelocateReread(t, l, desc[l.helped])
  BY <1>3, <1>4, <1>5 DEF RelocateState, RelocateReread
<1>6. CASE RelocateSeen(t, l, desc[l.helped])
  BY <1>3, <1>6 DEF RelocateSeen
<1>7. CASE Return(t)
  <2>1. KeyAtDest(NoLocals)
    BY DEF KeyAtDest, NoLocals
  <2> QED BY <1>7, <2>1, Elsewhere DEF Return
<1> QED BY <1>2, <1>5, <1>6, <1>7

LEMMA LoadsOrder ==
    ASSUME Inv, Heap', Advance, NEW g \in Labels, OrderInv(g), NEW t \in All, Load(t, loc[t])
    PROVE  OrderInv(g)'
<1>1. PICK l : l = loc[t]
  OBVIOUS
<1>2. \E to, m : Step(t, to, m) /\ Course(g, to, m)
  BY <1>1, FindOpCourse, FindRightCourse, FindLeftCourse, FindNextCourse, FindKeyCourse, FindCheckCourse,
     FindCheckCurrCourse, InsertOldCourse, DeleteCourse, DeleteRecheckCourse, DeleteKeyCourse, HelperCourse
     DEF Load, At
<1> QED BY <1>2, LoadOrder DEF Load

-----------------------------------------------------------------------------
(* Steps that change operation words, or publish an operation. *)

(* After such a step the thread is at a place where nothing but the key of *)
(* dest matters.                                                           *)
Onward(t, l) ==
    \/ Retry(t, l)
    \/ \E ok : HelperReturns(t, l, ok)
    \/ \E state : Outcome(t, l, state)
    \/ \E to \in Marking \cup Linking \cup (Relocating \ {"RelocateUnflag"}) : \E m :
         Step(t, to, m) /\ m.start = l.start /\ m.dest = l.dest /\ m.dest_op = l.dest_op /\ m.k = l.k

LEMMA RestartKeepsNext ==
    ASSUME NEW l, KeyAtDest(l)'
    PROVE  Restarts(l)'
<1>1. \A r : r = Rewind(l) => KeyAtDest(r)'
  <2>1. CASE l.start = Root
    BY <2>1 DEF KeyAtDest, Rewind, Frame, NoLocals
  <2>2. CASE l.start # Root
    <3> SUFFICES ASSUME NEW m, m = Rewind(l) PROVE KeyAtDest(m)'
      OBVIOUS
    <3>1. m.start = l.start /\ m.dest = l.dest /\ m.dest_op = l.dest_op /\ m.k = l.k
      BY <2>2 DEF Frame, NoLocals, Rewind
    <3> QED BY <3>1 DEF KeyAtDest, AtDest
  <2> QED BY <2>1, <2>2
<1>2. Frame(l).start = Root /\ \A r : [Frame(l) EXCEPT !.result = r].start = Root
  BY DEF Frame, NoLocals
<1> QED BY <1>1, <1>2 DEF KeyAtDest, Restarts

LEMMA OnwardCourse ==
    ASSUME Inv, Heap', Advance, NEW g, OrderInv(g), NEW t \in All, NEW l, l = loc[t], Onward(t, l),
           \A n \in Nodes : key'[n] = key[n]
    PROVE  \E to, m : Step(t, to, m) /\ Course(g, to, m)'
<1>1. Heap /\ SecondFind(l) /\ KeyAtDest(l) /\ DOMAIN l = DOMAIN NoLocals
  <2>1. Heap /\ Place(pc[t], l) /\ Course(g, pc[t], l)
    BY Here DEF OrderInv
  <2> QED BY <2>1 DEF Place, Course
<1>2. KeyAtDest(l)'
  <2> SUFFICES ASSUME l.start # Root, op'[l.dest] = l.dest_op PROVE key'[l.dest] = l.k
    BY DEF KeyAtDest, AtDest
  <2>1. op[l.dest] = l.dest_op /\ l.dest \in Nodes
    BY <1>1, SeenStays DEF SecondFind
  <2> QED BY <1>1, <2>1 DEF KeyAtDest, AtDest
<1>3. ASSUME NEW p \in {"FindOp", "Return"} \cup Marking \cup Linking \cup (Relocating \ {"RelocateUnflag"}),
             NEW m, KeyAtDest(m)'
      PROVE  Course(g, p, m)'
  BY <1>3 DEF Course, Marking, Linking, Relocating, Inserting
<1>4. ASSUME NEW m, m.start = l.start, m.dest = l.dest, m.dest_op = l.dest_op, m.k = l.k
      PROVE  KeyAtDest(m)'
  BY <1>2, <1>4 DEF KeyAtDest, AtDest
<1>5. CASE Retry(t, l) \/ \E ok : HelperReturns(t, l, ok)
  <2>1. /\ KeyAtDest(Rewind(l))' /\ KeyAtDest(Frame(l))'
        /\ \A r : KeyAtDest([Frame(l) EXCEPT !.result = r])'
    BY <1>2, RestartKeepsNext DEF Restarts
  <2>2. /\ \E m : m = Rewind(l) /\ KeyAtDest(m)' /\ Course(g, "FindOp", m)'
        /\ \E m : m = Frame(l) /\ KeyAtDest(m)' /\ Course(g, "FindOp", m)'
        /\ \A r : \E m : m = [Frame(l) EXCEPT !.result = r] /\ Course(g, "Return", m)'
    BY <1>3, <2>1
  <2> QED BY <1>5, <2>2 DEF HelperReturns, FindAgain, Answer, Retry
<1>6. ASSUME NEW state, Step(t, "RelocateMark", [l EXCEPT !.state = state])
      PROVE  \E to, m : Step(t, to, m) /\ Course(g, to, m)'
  <2>1. PICK m : m = [l EXCEPT !.state = state]
    OBVIOUS
  <2>2. m.start = l.start /\ m.dest = l.dest /\ m.dest_op = l.dest_op /\ m.k = l.k
    BY <1>1, <2>1 DEF NoLocals
  <2>3. KeyAtDest(m)'
    BY <1>4, <2>2
  <2>4. Course(g, "RelocateMark", m)'
    BY <1>3, <2>3 DEF Relocating
  <2> QED BY <1>6, <2>1, <2>4
<1>7. ASSUME NEW state, Outcome(t, l, state) PROVE \E to, m : Step(t, to, m) /\ Course(g, to, m)'
  BY <1>5, <1>6, <1>7 DEF Outcome
<1>8. ASSUME NEW to \in Marking \cup Linking \cup (Relocating \ {"RelocateUnflag"}), NEW m,
             Step(t, to, m), m.start = l.start, m.dest = l.dest, m.dest_op = l.dest_op, m.k = l.k
      PROVE  \E q, n : Step(t, q, n) /\ Course(g, q, n)'
  <2>1. KeyAtDest(m)'
    BY <1>4, <1>8
  <2> QED BY <1>3, <1>8, <2>1
<1> QED BY <1>5, <1>7, <1>8 DEF Onward

(* A CAS on the word of node n. *)
LEMMA CASOrder ==
    ASSUME Inv, Heap', Advance, NEW g \in Labels, OrderInv(g), NEW t \in All, NEW l, l = loc[t], Onward(t, l),
           NEW n \in Nodes, NEW old, NEW new, CASOp(n, old, new), new.flag # "CHILDCAS",
           op[n] = old /\ old.flag = "RELOCATE" =>
              IF desc[old.op].dest = n THEN key[n] >= desc[old.op].key_to_put
              ELSE op[desc[old.op].dest] \notin {desc[old.op].dest_op, old},
           op[n] = old /\ new.flag = "RELOCATE" => \E m \in Nodes : m # n /\ op[m] = new,
           op[n] = old /\ new.flag = "MARK" => \E s \in Sides : child[n][s].null
    PROVE  OrderInv(g)'
<1>1. key' = key /\ child' = child /\ desc' = desc /\ Nodes' = Nodes
  BY DEF CASOp, Nodes
<1>2. \A k \in Nodes : op'[k] # op[k] => k = n /\ op[n] = old /\ op'[n] = new
  <2>1. Nodes = DOMAIN op
    BY DEF Inv, Heap, HeapInv, Nodes
  <2> QED BY <2>1 DEF CASOp
<1>3. MovesTurn
  <2>1. ASSUME NEW k \in Nodes, op'[k] # op[k]
        PROVE  /\ op[k].flag = "RELOCATE" =>
                    IF desc[op[k].op].dest = k THEN key[k] >= desc[op[k].op].key_to_put
                    ELSE op[desc[op[k].op].dest] \notin {desc[op[k].op].dest_op, op[k]}
               /\ op'[k].flag = "RELOCATE" => \E m \in Nodes : m # k /\ op[m] = op'[k] /\ op'[m] = op[m]
    <3>1. k = n /\ op[n] = old /\ op'[n] = new
      BY <1>2, <2>1
    <3>2. \A m \in Nodes : m # n => op'[m] = op[m]
      BY <1>2
    <3> QED BY <3>1, <3>2
  <2> QED BY <1>1, <2>1 DEF MovesTurn
<1>4. \A i \in (Len(desc) + 1) .. Len(desc') : FALSE
  BY <1>1, HeapTypes DEF Inv
<1>5. AddsTurn(g)
  BY <1>2 DEF AddsTurn, Waiting
<1>6. PICK to, m : Step(t, to, m) /\ Course(g, to, m)'
  BY <1>1, OnwardCourse
<1>7. \A k \in Nodes : op'[k].flag = "MARK" /\ op[k].flag # "MARK" => \E s \in Sides : child[k][s].null
  BY <1>2
<1> QED BY <1>1, <1>3, <1>4, <1>5, <1>6, <1>7, WordsOrder DEF Step

(* A CAS that does nothing. *)
LEMMA FailedOrder ==
    ASSUME Inv, Heap', Advance, NEW g \in Labels, OrderInv(g), NEW t \in All, NEW l, l = loc[t], Onward(t, l),
           UNCHANGED heap
    PROVE  OrderInv(g)'
<1>1. key' = key /\ op' = op /\ child' = child /\ desc' = desc
  BY DEF heap
<1>3. \E to, m : Step(t, to, m) /\ Course(g, to, m)'
  BY <1>1, OnwardCourse
<1>4. Nodes' = Nodes /\ \A i \in (Len(desc) + 1) .. Len(desc') : FALSE
  BY <1>1, HeapTypes DEF Nodes, Inv
<1>5. MovesTurn /\ AddsTurn(g)
  BY <1>1 DEF MovesTurn, AddsTurn
<1> QED BY <1>1, <1>3, <1>4, <1>5, WordsOrder DEF Step

(* 157-160 *)
LEMMA DeleteMarkOrder ==
    ASSUME Inv, Heap', Advance, NEW g \in Labels, OrderInv(g), NEW t \in All, pc[t] = "DeleteMark",
           NEW l, l = loc[t], DeleteMark(t, l)
    PROVE  OrderInv(g)'
<1>1. PICK w, m : w = Word("MARK", l.curr_op.op) /\ m = [l EXCEPT !.then = "answer"]
  OBVIOUS
<1>2. /\ Seen(l.curr, l.curr_op) /\ l.curr \in Nodes /\ l.curr_op.flag = "NONE" /\ DOMAIN l = DOMAIN NoLocals
  BY Here DEF Place, Deleting, Seen, Known, Quiet
<1>3. IsHere(l) => \E s \in Sides : child[l.curr][s].null
  <2>1. Course(g, "DeleteMark", l)
    BY DEF OrderInv
  <2> QED BY <2>1 DEF Course
<1>4. w.flag = "MARK" /\ CASOp(l.curr, l.curr_op, w)
  BY <1>1 DEF DeleteMark, Word
<1>5. m.start = l.start /\ m.dest = l.dest /\ m.dest_op = l.dest_op /\ m.k = l.k
  BY <1>1, <1>2 DEF NoLocals
<1>6. Step(t, "MarkedSide", m) \/ Retry(t, l)
  BY <1>1 DEF DeleteMark
<1>7. Onward(t, l)
  BY <1>5, <1>6 DEF Onward, Marking
<1>8. op[l.curr] = l.curr_op => \E s \in Sides : child[l.curr][s].null
  BY <1>3 DEF IsHere
<1> QED BY <1>2, <1>4, <1>7, <1>8, CASOrder

(* 203 *)
LEMMA ChildCASDoneOrder ==
    ASSUME Inv, Heap', Advance, NEW g \in Labels, OrderInv(g), NEW t \in All, pc[t] = "ChildCASDone",
           NEW l, l = loc[t], ChildCASDone(t, l)
    PROVE  OrderInv(g)'
<1>1. PICK v, w : v = Word("CHILDCAS", l.helped) /\ w = Word("NONE", l.helped)
  OBVIOUS
<1>2. l.target \in Nodes
  BY Here DEF Place, Linking, Links, Known
<1>3. CASOp(l.target, v, w) /\ v.flag = "CHILDCAS" /\ w.flag = "NONE"
  BY <1>1 DEF ChildCASDone, Word
<1>4. Onward(t, l)
  BY DEF ChildCASDone, Onward
<1> QED BY <1>2, <1>3, <1>4, CASOrder

(* What the order says of a relocation that is helped. *)
LEMMA HelpingMove ==
    ASSUME Inv, NEW g \in Labels, OrderInv(g), NEW t \in All, pc[t] \in Relocating,
           NEW l, l = loc[t], NEW i, i = l.helped, NEW d, d = desc[i], NEW w, w = Word("RELOCATE", i)
    PROVE  /\ MoveOK(g, i) /\ w.flag = "RELOCATE" /\ w.op = i /\ w \in Words
           /\ d.key_to_remove \in Int /\ d.key_to_put \in Int /\ d.key_to_remove < d.key_to_put
           /\ op[d.dest] \in {d.dest_op, w} /\ l.curr # d.dest => op[l.curr] = w
<1>1. IsRelocate(i) /\ i \in 1 .. Len(desc) /\ w.flag = "RELOCATE" /\ w.op = i /\ w \in Words /\ Relocates(l)
  BY Helping DEF Flags
<1>2. MoveOK(g, i)
  BY <1>1 DEF OrderInv, MovesInv
<1>3. d.key_to_remove \in Int /\ d.key_to_put \in Int /\ d.key_to_remove < d.key_to_put
  BY <1>2 DEF MoveOK
<1>4. ASSUME op[d.dest] \in {d.dest_op, w}, l.curr # d.dest PROVE op[l.curr] = w
  <2>1. d.state # "FAILED" /\ l.curr \in Nodes
    BY <1>4, Helping
  <2>2. op[l.curr] \in {w, Word("MARK", i)}
    BY <1>1, <1>4, <2>1 DEF Relocates
  <2>3. Word("MARK", i).op = i
    BY DEF Word
  <2> QED BY <1>2, <1>4, <2>1, <2>2, <2>3 DEF MoveOK
<1> QED BY <1>1, <1>2, <1>3, <1>4

(* 212 *)
LEMMA RelocateDestOrder ==
    ASSUME Inv, Heap', Advance, NEW g \in Labels, OrderInv(g), NEW t \in All, pc[t] = "RelocateDest",
           NEW l, l = loc[t], RelocateDest(t, l, desc[l.helped])
    PROVE  OrderInv(g)'
<1>1. PICK i, d, w : i = l.helped /\ d = desc[i] /\ w = Word("RELOCATE", i)
  OBVIOUS
<1>2. pc[t] \in Relocating /\ "RelocateSeen" \in Relocating
  BY DEF Relocating
<1>3. /\ d.dest \in Nodes /\ d.dest_op.flag = "NONE" /\ d.dest_op.op < i /\ i \in Nat /\ d.dest_op \in Words
      /\ l.curr \in Nodes /\ w.flag = "RELOCATE" /\ w.op = i /\ Relocates(l) /\ w \in Words /\ op[l.curr] \in Words
  BY <1>1, <1>2, Helping, HelpingMove
<1>4. ASSUME op[d.dest] = d.dest_op PROVE l.curr # d.dest /\ op[l.curr] = w
  <2>1. l.curr # d.dest
    <3>1. UpTo(w, op[l.curr])
      BY <1>1, <1>3 DEF Relocates
    <3> QED BY <1>3, <1>4, <3>1 DEF UpTo, Before, Words
  <2> QED BY <1>1, <1>2, <1>4, <2>1, HelpingMove
<1>5. Step(t, "RelocateSeen", l) /\ CASOp(d.dest, d.dest_op, w)
  BY <1>1 DEF RelocateDest
<1>6. Onward(t, l)
  BY <1>2, <1>5 DEF Onward
<1> QED BY <1>3, <1>4, <1>5, <1>6, CASOrder

(* 225 *)
LEMMA RelocateUnflagOrder ==
    ASSUME Inv, Heap', Advance, NEW g \in Labels, OrderInv(g), NEW t \in All, pc[t] = "RelocateUnflag",
           NEW l, l = loc[t], RelocateUnflag(t, l, desc[l.helped])
    PROVE  OrderInv(g)'
<1>1. PICK i, d, v, w : i = l.helped /\ d = desc[i] /\ v = Word("RELOCATE", i) /\ w = Word("NONE", i)
  OBVIOUS
<1>2. pc[t] \in Relocating
  BY DEF Relocating
<1>3. d.dest \in Nodes /\ v.flag = "RELOCATE" /\ v.op = i /\ w.flag = "NONE" /\ d.key_to_put \in Int
  BY <1>1, <1>2, Helping, HelpingMove DEF Word
<1>4. op[d.dest] = v => key[d.dest] = d.key_to_put
  <2>1. Course(g, "RelocateUnflag", l)
    BY DEF OrderInv
  <2> QED BY <1>1, <2>1 DEF Course
<1>5. Outcome(t, l, "SUCCEED") /\ CASOp(d.dest, v, w)
  BY <1>1 DEF RelocateUnflag
<1>6. Onward(t, l)
  BY <1>5 DEF Onward
<1>7. op[d.dest] = v /\ v.flag = "RELOCATE" =>
        IF desc[v.op].dest = d.dest THEN key[d.dest] >= desc[v.op].key_to_put
        ELSE op[desc[v.op].dest] \notin {desc[v.op].dest_op, v}
  BY <1>1, <1>3, <1>4
<1>8. w.flag # "CHILDCAS" /\ w.flag # "RELOCATE" /\ w.flag # "MARK"
  BY <1>3
<1> QED BY <1>3, <1>5, <1>6, <1>7, <1>8, CASOrder

(* 231-235 *)
LEMMA RelocateMarkOrder ==
    ASSUME Inv, Heap', Advance, NEW g \in Labels, OrderInv(g), NEW t \in All, pc[t] = "RelocateMark",
           NEW l, l = loc[t], RelocateMark(t, l, desc[l.helped])
    PROVE  OrderInv(g)'
<1>1. PICK i, d, v, m : /\ i = l.helped /\ d = desc[i] /\ v = Word("RELOCATE", i)
                        /\ m = [l EXCEPT !.parent_op = IF d.dest = l.parent THEN Word("NONE", l.helped)
                                                                            ELSE l.parent_op]
  OBVIOUS
<1>2. pc[t] \in Relocating
  BY DEF Relocating
<1>3. l.curr \in Nodes /\ v.flag = "RELOCATE" /\ v.op = i /\ MoveOK(g, i)
  BY <1>1, <1>2, Helping, HelpingMove
<1>4. DestPassed(l) /\ l.curr # d.dest /\ DOMAIN l = DOMAIN NoLocals
  BY <1>1, Here DEF Place
<1>5. m.start = l.start /\ m.dest = l.dest /\ m.dest_op = l.dest_op /\ m.k = l.k
  BY <1>1, <1>4 DEF NoLocals
<1>6. Onward(t, l)
  <2>1. Step(t, "MarkedSide", m) \/ HelperReturns(t, l, FALSE)
    BY <1>1 DEF RelocateMark
  <2> QED BY <1>5, <2>1 DEF Onward, Marking
<1>7. PICK w : w.flag \in {"NONE", "MARK"} /\ CASOp(l.curr, v, w)
  <2>1. CASOp(l.curr, v, Word("MARK", i)) \/ CASOp(l.curr, v, Word("NONE", i))
    BY <1>1 DEF RelocateMark
  <2>2. Word("MARK", i).flag = "MARK" /\ Word("NONE", i).flag = "NONE"
    BY DEF Word
  <2> QED BY <2>1, <2>2
<1>8. op[l.curr] = v => \E s \in Sides : child[l.curr][s].null
  <2>1. op[l.curr] = v => child[l.curr].left.null
    BY <1>1, <1>3, <1>4 DEF MoveOK
  <2> QED BY <2>1 DEF Sides
<1>9. op[l.curr] = v /\ v.flag = "RELOCATE" =>
        IF desc[v.op].dest = l.curr THEN key[l.curr] >= desc[v.op].key_to_put
        ELSE op[desc[v.op].dest] \notin {desc[v.op].dest_op, v}
  BY <1>1, <1>3, <1>4 DEF DestPassed
<1>10. w.flag # "CHILDCAS" /\ w.flag # "RELOCATE"
  BY <1>7
<1> QED BY <1>3, <1>6, <1>7, <1>8, <1>9, <1>10, CASOrder

(* 215-216, 219 *)
LEMMA StateOrder ==
    ASSUME Inv, Heap', Advance, NEW g \in Labels, OrderInv(g), NEW t \in All, NEW l, l = loc[t],
           \/ pc[t] = "RelocateSucceed" /\ RelocateSucceed(t, l)
           \/ pc[t] = "RelocateFail" /\ RelocateFail(t, l)
    PROVE  OrderInv(g)'
<1>1. PICK i, d, w, s : /\ i = l.helped /\ d = desc[i] /\ w = Word("RELOCATE", i)
                        /\ CASState(i, s) /\ s \in {"SUCCEED", "FAILED"}
                        /\ s = "SUCCEED" => pc[t] = "RelocateSucceed"
  BY DEF RelocateSucceed, RelocateFail
<1>2. pc[t] \in Relocating
  BY DEF Relocating
<1>3. Heap /\ Place(pc[t], l) /\ IsRelocate(i) /\ i \in 1 .. Len(desc)
  BY <1>1, <1>2, Helping
<1>4. s = "SUCCEED" /\ d.state = "ONGOING" => op[d.dest] = w
  BY <1>1, <1>3 DEF Place
<1>5. key' = key /\ op' = op /\ child' = child /\ Nodes' = Nodes
  BY <1>1 DEF CASState, Nodes
<1>6. /\ Len(desc') = Len(desc)
      /\ \A j \in 1 .. Len(desc) : j # i => desc'[j] = desc[j]
      /\ desc'[i].key_to_remove = d.key_to_remove
      /\ desc'[i].state = "SUCCEED" /\ d.state # "SUCCEED" => s = "SUCCEED" /\ d.state = "ONGOING"
  <2>1. desc \in Seq(Range(desc))
    BY <1>3 DEF Heap, HeapInv
  <2>2. CASE desc' = desc
    BY <1>1, <2>2
  <2>3. CASE desc' = [desc EXCEPT ![i].state = s] /\ d.state = "ONGOING"
    <3>1. PICK r : r = [d EXCEPT !.state = s]
      OBVIOUS
    <3>2. desc' = [desc EXCEPT ![i] = r]
      BY <1>1, <2>3, <3>1
    <3>3. desc \in Seq(Range(desc) \cup {r})
      BY <2>1, SeqMonotonic
    <3>4. Len(desc') = Len(desc) /\ desc'[i] = r /\ \A j \in 1 .. Len(desc) : j # i => desc'[j] = desc[j]
      BY <1>3, <3>2, <3>3, ExceptSeq
    <3> QED BY <1>1, <1>3, <2>3, <3>1, <3>4 DEF IsRelocate
  <2> QED BY <1>1, <2>2, <2>3 DEF CASState
<1>7. MovesTurn
  <2>1. ASSUME NEW j \in 1 .. Len(desc), IsRelocate(j)
        PROVE  /\ desc'[j].key_to_remove = desc[j].key_to_remove
               /\ desc'[j].state = "SUCCEED" /\ desc[j].state # "SUCCEED" =>
                    op'[desc[j].dest] = Word("RELOCATE", j)
    BY <1>1, <1>4, <1>5, <1>6
  <2> QED BY <1>5, <2>1 DEF MovesTurn
<1>8. PICK to : Step(t, to, l) /\ to \in Relocating \ {"RelocateUnflag"}
  BY DEF RelocateSucceed, RelocateFail, Relocating
<1>9. \A j \in (Len(desc) + 1) .. Len(desc') : FALSE
  BY <1>3, <1>6, HeapTypes
<1>10. AddsTurn(g)
  BY <1>5 DEF AddsTurn
<1>11. Onward(t, l)
  BY <1>8 DEF Onward
<1>12. PICK p, m : Step(t, p, m) /\ Course(g, p, m)'
  BY <1>5, <1>11, OnwardCourse
<1> QED BY <1>5, <1>7, <1>9, <1>10, <1>12, WordsOrder DEF Step

(* Thread t publishes operation d at node n. *)
LEMMA PublishOrder ==
    ASSUME Inv, Heap', Advance, NEW g \in Labels, OrderInv(g), NEW t \in All, NEW l, l = loc[t], Onward(t, l),
           NEW n \in Nodes, op[n].flag = "NONE", NEW d, desc' = Append(desc, d), NEW i, i = Len(desc) + 1,
           NEW flag \in {"CHILDCAS", "RELOCATE"}, op'[n] = Word(flag, i),
           \A k \in Nodes : child'[k] = child[k] /\ key'[k] = key[k] /\ (k # n => op'[k] = op[k]),
           flag = "CHILDCAS" => d.side \in Sides /\ child[n][d.side] = d.expected /\ d.expected # d.update,
           \A k \in Nodes' \ Nodes : flag = "CHILDCAS" /\ d.expected.null /\ d.update = Ptr(k),
           flag = "CHILDCAS" /\ d.expected.null => Fits(g, n, d.side, key'[d.update.node]),
           flag = "RELOCATE" => MoveOK(g, i)'
    PROVE  OrderInv(g)'
<1>1. Len(desc) \in Nat /\ i \in Nat /\ desc \in Seq(Range(desc)) /\ Heap /\ n \in Nodes' /\ Nodes \subseteq Nat
  BY HeapTypes DEF Inv, Heap, HeapInv, Nodes, Advance, Forward
<1>2. Len(desc') = i /\ desc'[i] = d /\ \A j \in 1 .. Len(desc) : desc'[j] = desc[j]
  <2>1. d \in Range(desc) \cup {d} /\ desc \in Seq(Range(desc) \cup {d})
    BY <1>1, SeqMonotonic
  <2> QED BY <1>1, <2>1, AppendProperties
<1>3. op'[n].flag = flag /\ op'[n].op = i
  BY DEF Word
<1>4. /\ flag = "CHILDCAS" => IsChildCAS(i)' /\ ~IsRelocate(i)'
      /\ flag = "RELOCATE" => IsRelocate(i)' /\ ~IsChildCAS(i)'
  <2>1. flag = "CHILDCAS" => IsChildCAS(i)'
    BY <1>1, <1>3 DEF Heap, HeapInv
  <2>2. flag = "RELOCATE" => IsRelocate(i)'
    BY <1>1, <1>3 DEF Heap, HeapInv
  <2> QED BY <2>1, <2>2 DEF IsChildCAS, IsRelocate
<1>5. \A j \in (Len(desc) + 1) .. Len(desc') : j = i
  BY <1>1, <1>2
<1>6. MovesTurn
  <2>1. ASSUME NEW j \in 1 .. Len(desc)
        PROVE  /\ desc'[j].key_to_remove = desc[j].key_to_remove
               /\ desc'[j].state = "SUCCEED" /\ desc[j].state # "SUCCEED" =>
                    op'[desc[j].dest] = Word("RELOCATE", j)
    BY <1>2
  <2>2. ASSUME NEW k \in Nodes, op'[k] # op[k]
        PROVE  op[k].flag = "NONE" /\ ~(op'[k].op <= Len(desc))
    BY <1>1, <1>3, <2>2
  <2> QED BY <2>1, <2>2 DEF MovesTurn
<1>7. \A k \in Nodes, s \in Sides : child'[k][s] = child[k][s]
  OBVIOUS
<1>8. \A k \in Nodes' \ Nodes : Hidden(k)'
  <2> SUFFICES ASSUME NEW k \in Nodes' \ Nodes PROVE Hidden(k)'
    OBVIOUS
  <2>1. Waiting(n)' /\ desc'[op'[n].op].expected.null /\ desc'[op'[n].op].update = Ptr(k)
    BY <1>2, <1>3 DEF Waiting
  <2> QED BY <1>1, <2>1 DEF Hidden
<1>9. \A j \in (Len(desc) + 1) .. Len(desc') : IsChildCAS(j)' => ~Done(j)'
  <2> SUFFICES ASSUME flag = "CHILDCAS" PROVE ~Done(i)'
    BY <1>4, <1>5
  <2>1. child'[n][desc'[i].side] # desc'[i].update
    BY <1>2
  <2> QED BY <1>1, <2>1 DEF Done
<1>10. \A k \in Nodes : op'[k].flag = "MARK" /\ op[k].flag # "MARK" => FALSE
  BY <1>3
<1>11. ASSUME Tree' = Tree PROVE AddsTurn(g)
  <2> SUFFICES ASSUME NEW c \in Nodes, Waiting(c)', op'[c] # op[c], desc'[op'[c].op].expected.null,
                      NEW s, s = desc'[op'[c].op].side, NEW k, k = key'[desc'[op'[c].op].update.node]
               PROVE  Fits(g, c, s, k)'
    BY DEF AddsTurn
  <2>1. c = n /\ flag = "CHILDCAS" /\ s = d.side /\ d.expected.null /\ k = key'[d.update.node]
    BY <1>2, <1>3 DEF Waiting
  <2>2. Fits(g, c, s, k)
    BY <2>1
  <2>3. \A x \in Tree : x \in Nodes
    BY <1>1, TreeFacts
  <2> QED BY <1>11, <2>2, <2>3 DEF Fits, LeftOf
<1>12. \A j \in (Len(desc) + 1) .. Len(desc') : IsRelocate(j)' => MoveOK(g, j)'
  BY <1>4, <1>5
<1>13. PICK to, m : Step(t, to, m) /\ Course(g, to, m)'
  BY OnwardCourse
<1> QED BY <1>6, <1>7, <1>8, <1>9, <1>10, <1>11, <1>12, <1>13, WordsOrder DEF Step

(* 137, 140-145 *)
LEMMA InsertCASOrder ==
    ASSUME Inv, Heap', Advance, NEW g \in Labels, OrderInv(g), NEW t \in All, pc[t] = "InsertCAS",
           NEW l, l = loc[t], InsertCAS(t, l)
    PROVE  OrderInv(g)'
<1>0. PICK i, d, m : /\ i = Len(desc) + 1
                     /\ d = ChildCASOp(FoundSide(l), l.old, Ptr(Len(key) + 1))
                     /\ m = [l EXCEPT !.helped = i, !.target = l.curr, !.then = "answer"]
  OBVIOUS
<1>1. Heap /\ Place("InsertCAS", l)
  BY Here
<1>2. CASE Retry(t, l) /\ UNCHANGED heap
  BY <1>2, FailedOrder DEF Onward
<1>3. ASSUME op[l.curr] = l.curr_op, Step(t, "ChildCAS", m),
             op' = Append([op EXCEPT ![l.curr] = Word("CHILDCAS", i)], NullWord),
             key' = Append(key, l.k), child' = Append(child, NoChildren), desc' = Append(desc, d)
      PROVE  OrderInv(g)'
  <2>1. m.start = l.start /\ m.dest = l.dest /\ m.dest_op = l.dest_op /\ m.k = l.k
    BY <1>0, <1>1 DEF Place, NoLocals
  <2>2. /\ l.curr \in Nodes /\ l.old = child[l.curr][FoundSide(l)] /\ l.old.null
        /\ op[l.curr].flag = "NONE" /\ FoundSide(l) \in Sides /\ l.k \in AllKeys
    BY <1>1, <1>3 DEF Place, Inserting, Seen, Known, Quiet, EndsHere, FoundSide, Sides
  <2>3. /\ d.side = FoundSide(l) /\ d.expected = l.old
        /\ d.update = Ptr(Len(key) + 1) /\ d.update # d.expected /\ d.update.node = Len(key) + 1
    BY <1>0, <2>2 DEF ChildCASOp, Ptr
  <2>4. Len(key) \in Nat /\ Len(desc) \in Nat /\ key \in Seq(AllKeys \cup {-1}) /\ op \in Seq(Words)
        /\ child \in Seq([Sides -> [null : BOOLEAN, node : Nat]]) /\ Len(op) = Len(key) /\ Len(child) = Len(key)
    BY <1>1, HeapTypes DEF Heap, HeapInv
  <2>5. /\ Len(key') = Len(key) + 1 /\ key'[Len(key) + 1] = l.k
        /\ \A k \in Nodes : child'[k] = child[k] /\ key'[k] = key[k]
    <3>1. SetNull(NoNode) \in [null : BOOLEAN, node : Nat]
      BY DEF SetNull, NoNode
    <3>2. NoChildren \in [Sides -> [null : BOOLEAN, node : Nat]]
      BY <3>1 DEF NoChildren, Sides
    <3> QED BY <1>3, <2>2, <2>4, <3>2, AppendProperties DEF Nodes
  <2>6. /\ \A k \in Nodes : k # l.curr => op'[k] = op[k]
        /\ op'[l.curr] = Word("CHILDCAS", i)
    <3>1. NullWord \in Words /\ Word("CHILDCAS", i) \in Words
      BY <1>0, <2>4 DEF NullWord, Word, Words, Flags
    <3>2. PICK v : v = [op EXCEPT ![l.curr] = Word("CHILDCAS", i)]
      OBVIOUS
    <3>3. /\ v \in Seq(Words) /\ Len(v) = Len(key) /\ v[l.curr] = Word("CHILDCAS", i)
          /\ \A k \in Nodes : k # l.curr => v[k] = op[k]
      BY <2>2, <2>4, <3>1, <3>2, ExceptSeq DEF Nodes
    <3>4. op' = Append(v, NullWord)
      BY <1>3, <3>2
    <3>5. \A k \in 1 .. Len(key) : op'[k] = v[k]
      BY <2>4, <3>1, <3>3, <3>4, AppendProperties
    <3> QED BY <2>2, <3>3, <3>5 DEF Nodes
  <2>7. \A k \in Nodes' \ Nodes : k = Len(key) + 1
    BY <2>4, <2>5 DEF Nodes
  <2>8. FitsHere(g, l)
    <3>1. Course(g, "InsertCAS", l)
      BY DEF OrderInv
    <3> QED BY <3>1 DEF Course, Inserting
  <2>9. Fits(g, l.curr, d.side, key'[d.update.node])
    BY <1>3, <2>3, <2>5, <2>8 DEF FitsHere, IsHere
  <2>10. Onward(t, l)
    BY <1>3, <2>1 DEF Onward, Linking
  <2>11. PICK flag \in {"CHILDCAS", "RELOCATE"} : flag = "CHILDCAS"
    OBVIOUS
  <2>12. /\ op'[l.curr] = Word(flag, i)
         /\ \A k \in Nodes' \ Nodes : flag = "CHILDCAS" /\ d.expected.null /\ d.update = Ptr(k)
         /\ flag # "RELOCATE"
    BY <2>2, <2>3, <2>6, <2>7, <2>11
  <2>13. i = Len(desc) + 1 /\ desc' = Append(desc, d)
    BY <1>0, <1>3
  <2>14. \A k \in Nodes : child'[k] = child[k] /\ key'[k] = key[k] /\ (k # l.curr => op'[k] = op[k])
    BY <2>5, <2>6
  <2>15. d.side \in Sides /\ child[l.curr][d.side] = d.expected /\ d.expected # d.update
    BY <2>2, <2>3
  <2>16. l.curr \in Nodes /\ op[l.curr].flag = "NONE"
    BY <2>2
  <2> QED BY <2>9, <2>10, <2>12, <2>13, <2>14, <2>15, <2>16, PublishOrder
<1> QED BY <1>0, <1>2, <1>3 DEF InsertCAS

(* 192-196 *)
LEMMA MarkedCASOrder ==
    ASSUME Inv, Heap', Advance, NEW g \in Labels, OrderInv(g), NEW t \in All, pc[t] = "MarkedCAS",
           NEW l, l = loc[t], MarkedCAS(t, l)
    PROVE  OrderInv(g)'
<1>0. PICK i, d, m : /\ i = Len(desc) + 1 /\ d = ChildCASOp(l.side, Ptr(l.curr), Replacement(l.curr))
                     /\ m = [l EXCEPT !.helped = i, !.target = l.parent]
  OBVIOUS
<1>1. Heap /\ Place("MarkedCAS", l)
  BY Here
<1>2. CASE HelperReturns(t, l, TRUE) /\ UNCHANGED heap
  BY <1>2, FailedOrder DEF Onward
<1>3. ASSUME op[l.parent] = l.parent_op, Step(t, "ChildCAS", m),
             op' = [op EXCEPT ![l.parent] = Word("CHILDCAS", i)],
             desc' = Append(desc, d), UNCHANGED <<key, child>>
      PROVE  OrderInv(g)'
  <2>1. m.start = l.start /\ m.dest = l.dest /\ m.dest_op = l.dest_op /\ m.k = l.k
    BY <1>0, <1>1 DEF Place, NoLocals
  <2>2. /\ l.parent \in Nodes /\ Known(l.parent) /\ op[l.parent].flag = "NONE"
        /\ l.curr \in Nodes /\ l.curr # Root /\ op[l.curr].flag = "MARK" /\ ~Gone(l.curr)
        /\ l.side \in Sides
    BY <1>1, <1>3 DEF Place, Marking, Seen, Known, Quiet, UnderParent, Link
  <2>3. ~Gone(l.parent) /\ child[l.parent][l.side] = Ptr(l.curr)
    BY <1>1, <2>2, Busy DEF Place
  <2>4. Replacement(l.curr) # Ptr(l.curr)
    <3>1. \A s \in Sides : child[l.curr][s] # Ptr(l.curr)
      <4> SUFFICES ASSUME NEW s \in Sides, child[l.curr][s] = Ptr(l.curr) PROVE FALSE
        OBVIOUS
      <4>1. l.curr = l.parent
        BY <1>1, <2>2, <2>3 DEF Heap, TreeInv, Ptr
      <4> QED BY <2>2, <4>1
    <3> QED BY <3>1 DEF Replacement, Sides, SetNull, Ptr
  <2>5. d.side = l.side /\ d.expected = Ptr(l.curr) /\ d.update = Replacement(l.curr) /\ ~d.expected.null
    BY <1>0 DEF ChildCASOp, Ptr
  <2>6. /\ op'[l.parent] = Word("CHILDCAS", i)
        /\ \A k \in Nodes : k # l.parent => op'[k] = op[k]
    <3>1. Len(desc) \in Nat /\ op \in Seq(Words) /\ Len(op) = Len(key)
      BY <1>1, HeapTypes DEF Heap, HeapInv
    <3>2. Word("CHILDCAS", i) \in Words
      BY <1>0, <3>1 DEF Word, Words, Flags
    <3> QED BY <1>3, <2>2, <3>1, <3>2, ExceptSeq DEF Nodes
  <2>7. \A k \in Nodes' \ Nodes : FALSE
    BY <1>3 DEF Nodes
  <2>8. Onward(t, l)
    BY <1>3, <2>1 DEF Onward, Linking
  <2>9. PICK flag \in {"CHILDCAS", "RELOCATE"} : flag = "CHILDCAS"
    OBVIOUS
  <2>10. op'[l.parent] = Word(flag, i) /\ flag # "RELOCATE"
    BY <2>6, <2>9
  <2>11. d.side \in Sides /\ child[l.parent][d.side] = d.expected /\ d.expected # d.update
    BY <2>2, <2>3, <2>4, <2>5
  <2>12. \A k \in Nodes : child'[k] = child[k] /\ key'[k] = key[k] /\ (k # l.parent => op'[k] = op[k])
    BY <1>3, <2>6
  <2>13. l.parent \in Nodes /\ op[l.parent].flag = "NONE" /\ desc' = Append(desc, d) /\ ~d.expected.null
    BY <1>3, <2>2, <2>5
  <2>14. /\ \A k \in Nodes' \ Nodes : flag = "CHILDCAS" /\ d.expected.null /\ d.update = Ptr(k)
         /\ flag = "CHILDCAS" /\ d.expected.null => Fits(g, l.parent, d.side, key'[d.update.node])
         /\ flag = "RELOCATE" => MoveOK(g, i)'
         /\ flag = "CHILDCAS" => /\ d.side \in Sides /\ child[l.parent][d.side] = d.expected
                                /\ d.expected # d.update
    BY <2>7, <2>10, <2>11, <2>13
  <2>15. op'[l.parent] = Word(flag, i) /\ i = Len(desc) + 1
    BY <1>0, <2>10
  <2> QED BY <2>8, <2>12, <2>13, <2>14, <2>15, PublishOrder
<1> QED BY <1>0, <1>2, <1>3 DEF MarkedCAS

(* 165-169 *)
LEMMA DeleteRelocateOrder ==
    ASSUME Inv, Heap', Advance, NEW g \in Labels, OrderInv(g), NEW t \in All, pc[t] = "DeleteRelocate",
           NEW l, l = loc[t], DeleteRelocate(t, l)
    PROVE  OrderInv(g)'
<1>0. PICK i, d, m, w : /\ i = Len(desc) + 1 /\ d = RelocateOp(l.dest, l.dest_op, l.k, l.new_key)
                        /\ m = [l EXCEPT !.helped = i, !.then = "answer"]
                        /\ w = Word("RELOCATE", i)
  OBVIOUS
<1>1. Heap /\ Place("DeleteRelocate", l)
  BY Here
<1>2. CASE Retry(t, l) /\ UNCHANGED heap
  BY <1>2, FailedOrder DEF Onward
<1>3. ASSUME op[l.curr] = l.curr_op, Step(t, "RelocateState", m), op' = [op EXCEPT ![l.curr] = w],
             desc' = Append(desc, d), UNCHANGED <<key, child>>
      PROVE  OrderInv(g)'
  <2>1. m.start = l.start /\ m.dest = l.dest /\ m.dest_op = l.dest_op /\ m.k = l.k
    BY <1>0, <1>1 DEF Place, NoLocals
  <2>2. /\ l.curr \in Nodes /\ op[l.curr].flag = "NONE" /\ l.start # Root /\ l.dest \in Nodes
        /\ l.k \in AllKeys /\ l.k \in Int
    BY <1>1, <1>3, KeyTypes DEF Place, Moving, Seen, Known, Quiet, SecondFind
  <2>3. /\ d.state = "ONGOING" /\ d.dest = l.dest /\ d.dest_op = l.dest_op
        /\ d.key_to_put = l.new_key /\ d.key_to_remove = l.k
    BY <1>0 DEF RelocateOp
  <2>4. Len(desc) \in Nat /\ op \in Seq(Words) /\ Len(op) = Len(key) /\ i \in Nat /\ i > Len(desc)
        /\ desc \in Seq(Range(desc)) /\ w.op = i /\ w.flag = "RELOCATE"
    BY <1>0, <1>1, HeapTypes DEF Heap, HeapInv, Word
  <2>5. op'[l.curr] = w /\ \A k \in Nodes : k # l.curr => op'[k] = op[k]
    <3>1. w \in Words
      BY <1>0, <2>4 DEF Word, Words, Flags
    <3> QED BY <1>3, <2>2, <2>4, <3>1, ExceptSeq DEF Nodes
  <2>6. Nodes' = Nodes
    BY <1>3 DEF Nodes
  <2>7. /\ Follows(g, l) /\ Chosen(l) /\ l.new_key = key[l.curr] /\ KeyAtDest(l)
    <3>1. Course(g, "DeleteRelocate", l)
      BY DEF OrderInv
    <3> QED BY <1>3, <3>1 DEF Course, IsHere
  <2>8. desc'[i] = d
    <3>1. d \in Range(desc) \cup {d} /\ desc \in Seq(Range(desc) \cup {d})
      BY <2>4, SeqMonotonic
    <3> QED BY <1>0, <1>3, <2>4, <3>1, AppendProperties
  <2>9. \A k \in Nodes : op[k].op # i
    <3>1. \A k \in Nodes : op[k].op \in 0 .. Len(desc)
      BY <1>1, HeapTypes
    <3> QED BY <2>4, <3>1
  <2>10. /\ l.curr # l.dest /\ child[l.curr].left.null /\ l.k < key[l.curr] /\ key[l.curr] \in Int
         /\ op[l.dest] = l.dest_op => key[l.dest] = l.k /\ g.lo[l.curr] = g.pos[l.dest]
    BY <1>1, <1>3, <2>2, <2>7, KeyTypes DEF Follows, Chosen, KeyAtDest, IsHere, AtDest
  <2>11. op'[l.dest] = op[l.dest] /\ op[l.dest] # w
    BY <2>2, <2>4, <2>5, <2>9, <2>10
  <2>12. \A k \in Nodes : op'[k] = w \/ op'[k].op = i => k = l.curr
    BY <2>4, <2>5, <2>9
  <2>13. MoveOK(g, i)'
    <3>1. /\ desc'[i].state = "ONGOING" /\ desc'[i].dest = l.dest /\ desc'[i].dest_op = l.dest_op
          /\ desc'[i].key_to_put = key[l.curr] /\ desc'[i].key_to_remove = l.k
      BY <2>3, <2>7, <2>8
    <3>2. key' = key /\ child' = child
      BY <1>3
    <3>3. op'[l.dest] = l.dest_op => key[l.dest] = l.k /\ g.lo[l.curr] = g.pos[l.dest]
      BY <2>10, <2>11
    <3>4. op'[l.dest] # w
      BY <2>11
    <3> QED BY <1>0, <2>2, <2>5, <2>6, <2>10, <2>12, <3>1, <3>2, <3>3, <3>4 DEF MoveOK
  <2>14. Onward(t, l)
    BY <1>3, <2>1 DEF Onward, Relocating
  <2>15. PICK flag \in {"CHILDCAS", "RELOCATE"} : flag = "RELOCATE"
    OBVIOUS
  <2>16. op'[l.curr] = Word(flag, i) /\ flag # "CHILDCAS"
    BY <1>0, <2>5, <2>15
  <2>17. \A k \in Nodes' \ Nodes : FALSE
    BY <2>6
  <2> QED BY <1>0, <1>3, <2>2, <2>5, <2>13, <2>14, <2>16, <2>17, PublishOrder
<1> QED BY <1>0, <1>2, <1>3 DEF DeleteRelocate

-----------------------------------------------------------------------------
(* The CAS that adds a node or takes one out. *)

LEMMA PtrSame == \A a, b : Ptr(a) = Ptr(b) <=> a = b
<1>1. \A a : Ptr(a).node = a
  BY DEF Ptr
<1> QED BY <1>1

(* What the CAS of operation d, the i-th, does to the tree. *)
Linkage(n, i, d) ==
    /\ op[n].flag = "CHILDCAS" /\ op[n].op = i /\ n \in Tree /\ ~Gone(n) /\ d.side \in Sides
    /\ child'[n][d.side] = d.update
    /\ \A m \in Nodes, s \in Sides : m # n \/ s # d.side => child'[m][s] = child[m][s]
    /\ Nodes' = Nodes /\ \A m : Gone(m)' <=> Gone(m) \/ d.expected = Ptr(m)
    /\ d.expected.null =>
         /\ Adds(n, d) /\ d.update = Ptr(d.update.node) /\ d.update.node \in Nodes
         /\ Hidden(d.update.node) /\ d.update.node \notin Tree
         /\ Tree' = Tree \cup {d.update.node} /\ Waiting(n)
    /\ ~d.expected.null =>
         /\ d.expected = Ptr(d.expected.node) /\ d.expected.node \in Tree /\ d.expected.node # n
         /\ d.expected.node # Root /\ op[d.expected.node].flag = "MARK"
         /\ d.update = Replacement(d.expected.node) /\ Tree' = Tree \ {d.expected.node}
         /\ \A m \in Tree, s \in Sides : m # n \/ s # d.side => child[m][s] # d.expected

LEMMA LinkStep ==
    ASSUME Heap, Heap', Advance, UNCHANGED <<key, op, desc>>, NEW n \in Nodes, NEW i, op[n] = Word("CHILDCAS", i),
           NEW d, d = desc[i], child[n][d.side] = d.expected,
           child' = [child EXCEPT ![n][d.side] = d.update]
    PROVE  Linkage(n, i, d)
<1>0. op' = op /\ desc' = desc /\ key' = key /\ op[n].flag = "CHILDCAS" /\ op[n].op = i /\ Nodes' = Nodes
  BY DEF Word, Nodes
<1>1. /\ IsChildCAS(i) /\ i \in 1 .. Len(desc) /\ d.side \in Sides
      /\ d.expected \in Pointers /\ d.update \in Pointers /\ d.expected # d.update
      /\ Waiting(n) /\ ~Gone(n) /\ n \in Tree
      /\ \A m \in Nodes : op[m] = op[n] => m = n
      /\ IF d.expected.null THEN Adds(n, d) ELSE TakesOut(d)
  <2>1. IsChildCAS(i) /\ i \in 1 .. Len(desc) /\ Waiting(n)
    BY <1>0 DEF Heap, HeapInv, Waiting, IsChildCAS
  <2>2. ChildCASOK(i)
    BY <2>1, KindStays
  <2>3. /\ \A m \in Nodes : op[m] = op[n] => m = n
        /\ IF d.expected.null THEN Adds(n, d) ELSE TakesOut(d)
    BY <1>0, <2>1 DEF Heap, PendingInv
  <2>4. n \in Tree /\ ~Gone(n)
    BY <1>0, TreeFacts DEF Tree
  <2> QED BY <2>1, <2>2, <2>3, <2>4 DEF ChildCASOK
<1>3. /\ child'[n][d.side] = d.update
      /\ \A m \in Nodes, s \in Sides : m # n \/ s # d.side => child'[m][s] = child[m][s]
  <2>1. n \in DOMAIN child /\ DOMAIN child = Nodes
    BY DEF Heap, HeapInv, Nodes
  <2>2. DOMAIN child[n] = Sides
    BY HeapTypes
  <2>3. child' = [child EXCEPT ![n] = [child[n] EXCEPT ![d.side] = d.update]]
    BY <2>1
  <2> QED BY <1>1, <2>1, <2>2, <2>3
<1>5. /\ ~Done(i) /\ Done(i)'
      /\ \A j : j # i => Done(j)' = Done(j)
  <2>1. ~Done(i)
    BY <1>1 DEF Done
  <2>2. Done(i)'
    <3>1. desc'[i] = d /\ Nodes' = Nodes
      BY <1>0
    <3> QED BY <1>0, <1>1, <1>3, <3>1 DEF Done
  <2>3. ASSUME NEW j, j # i PROVE Done(j)' = Done(j)
    <3>1. \A m \in Nodes : op[m] = Word("CHILDCAS", j) => m # n
      BY <1>0, <2>3 DEF Word
    <3>2. \A m \in Nodes : m # n => child'[m] = child[m]
      BY DEF Heap, HeapInv, Nodes
    <3> QED BY <1>0, <3>1, <3>2 DEF Done
  <2> QED BY <2>1, <2>2, <2>3
<1>6. \A m : Gone(m)' <=> Gone(m) \/ d.expected = Ptr(m)
  <2>1. \A j : IsChildCAS(j)' = IsChildCAS(j) /\ desc'[j] = desc[j] /\ Len(desc') = Len(desc)
    BY <1>0 DEF IsChildCAS
  <2> QED BY <1>1, <1>5, <2>1 DEF Gone
<1>7. /\ ~Waiting(n)'
      /\ \A m \in Nodes : m # n => Waiting(m)' = Waiting(m)
  <2>1. \A m \in Nodes : m # n => child'[m] = child[m]
    BY DEF Heap, HeapInv, Nodes
  <2> QED BY <1>0, <1>1, <1>3, <2>1 DEF Waiting
<1>8. \A f : Hidden(f)' <=> Hidden(f) /\ ~(d.expected.null /\ d.update = Ptr(f))
  <2>1. ASSUME NEW f, Hidden(f)' PROVE Hidden(f) /\ ~(d.expected.null /\ d.update = Ptr(f))
    <3>1. PICK m \in Nodes : Waiting(m)' /\ desc[op[m].op].expected.null /\ desc[op[m].op].update = Ptr(f)
      BY <1>0, <2>1 DEF Hidden
    <3>2. m # n /\ Waiting(m)
      BY <1>7, <3>1
    <3>3. Hidden(f)
      BY <3>1, <3>2 DEF Hidden
    <3>4. d.expected.null => d.update # Ptr(f)
      BY <1>1, <3>1, <3>2 DEF Adds
    <3> QED BY <3>3, <3>4
  <2>2. ASSUME NEW f, Hidden(f), ~(d.expected.null /\ d.update = Ptr(f)) PROVE Hidden(f)'
    <3>1. PICK m \in Nodes : Waiting(m) /\ desc[op[m].op].expected.null /\ desc[op[m].op].update = Ptr(f)
      BY <2>2 DEF Hidden
    <3>2. m # n
      BY <1>0, <2>2, <3>1
    <3>3. Waiting(m)'
      BY <1>7, <3>1, <3>2
    <3>4. m \in Nodes' /\ desc'[op'[m].op].expected.null /\ desc'[op'[m].op].update = Ptr(f)
      BY <1>0, <3>1
    <3> QED BY <3>3, <3>4 DEF Hidden
  <2> QED BY <2>1, <2>2
<1>9. ASSUME d.expected.null
      PROVE  /\ Adds(n, d) /\ d.update = Ptr(d.update.node) /\ d.update.node \in Nodes
             /\ Hidden(d.update.node) /\ d.update.node \notin Tree
             /\ Tree' = Tree \cup {d.update.node}
  <2>1. PICK z : z = d.update.node
    OBVIOUS
  <2>2. Adds(n, d) /\ d.update = Ptr(z)
    BY <1>1, <1>9, <2>1, PtrOf DEF Adds, Pointers
  <2>3. Hidden(z)
    BY <1>0, <1>1, <1>9, <2>2 DEF Hidden
  <2>4. z \in Nodes /\ z \notin Tree
    <3>1. z \in Nodes
      BY <2>3, GoneIsNode
    <3> QED BY <2>3, <3>1 DEF Tree, Known
  <2>5. ~Gone(z)
    <3>1. op[z].flag # "MARK"
      BY <2>1, <2>2 DEF Adds, NullWord, Word
    <3> QED BY <2>4, <3>1, Busy
  <2>6. \A m : d.expected # Ptr(m)
    BY <1>9 DEF Ptr
  <2>7. \A m : d.update = Ptr(m) <=> m = z
    BY <2>2, PtrSame
  <2>8. Tree' = Tree \cup {z}
    <3>1. \A m : Gone(m)' <=> Gone(m)
      BY <1>6, <2>6
    <3>2. \A m : Hidden(m)' <=> Hidden(m) /\ m # z
      BY <1>8, <1>9, <2>7
    <3> QED BY <1>0, <2>4, <2>5, <3>1, <3>2 DEF Tree, Known
  <2> QED BY <2>1, <2>2, <2>3, <2>4, <2>8
<1>10. ASSUME ~d.expected.null
       PROVE  /\ d.expected = Ptr(d.expected.node) /\ d.expected.node \in Tree /\ d.expected.node # n
              /\ d.expected.node # Root /\ op[d.expected.node].flag = "MARK"
              /\ d.update = Replacement(d.expected.node) /\ Tree' = Tree \ {d.expected.node}
              /\ \A m \in Tree, s \in Sides : m # n \/ s # d.side => child[m][s] # d.expected
  <2>1. PICK e : e = d.expected.node
    OBVIOUS
  <2>2. d.expected = Ptr(e) /\ op[e].flag = "MARK" /\ d.update = Replacement(e) /\ e # n
    BY <1>0, <1>1, <1>10, <2>1, PtrOf DEF TakesOut, Pointers
  <2>3. e \in Tree /\ e # Root
    <3>1. e \in Tree
      BY <1>1, <1>10, <2>1, TreeFacts
    <3>2. e # Root
      BY <1>1, <1>10, <2>1, Busy
    <3> QED BY <3>1, <3>2
  <2>4. \A m \in Tree, s \in Sides : m # n \/ s # d.side => child[m][s] # d.expected
    BY <1>1, <1>10 DEF Heap, TreeInv, Tree
  <2>5. \A m : d.expected = Ptr(m) <=> m = e
    BY <2>2, PtrSame
  <2>6. Tree' = Tree \ {e}
    BY <1>0, <1>6, <1>8, <1>10, <2>5 DEF Tree, Known
  <2> QED BY <2>1, <2>2, <2>3, <2>4, <2>6
<1> QED BY <1>0, <1>1, <1>3, <1>6, <1>9, <1>10 DEF Linkage

(* Where a new leaf stands. *)
Beside(T, g, h, n, s, z) ==
    /\ h \in Labels
    /\ \A x \in T : g.lo[x] \in Int /\ g.pos[x] \in Int /\ g.hi[x] \in Int
    /\ \A x \in T : h.lo[x] = 2 * g.lo[x] /\ h.pos[x] = 2 * g.pos[x] /\ h.hi[x] = 2 * g.hi[x]
    /\ h.pos[z] = (IF s = "left" THEN 2 * g.pos[n] - 1 ELSE 2 * g.pos[n] + 1) /\ h.pos[z] \in Int
    /\ \A x \in T : /\ h.pos[x] < h.pos[z] <=> LeftOf(g, x, n, s)
                    /\ h.pos[z] < h.pos[x] <=> ~LeftOf(g, x, n, s)

LEMMA BesideNew ==
    ASSUME NEW g \in Labels, NEW T, T \subseteq Nat, NEW ch, Shape(T, ch, g), NEW n \in T, NEW s \in Sides,
           NEW z \in Nat, z \notin T, NEW h, h = Grown(g, n, s, z)
    PROVE  Beside(T, g, h, n, s, z)
<1>1. /\ h \in Labels
      /\ \A x \in T : g.lo[x] \in Int /\ g.pos[x] \in Int /\ g.hi[x] \in Int
      /\ \A x \in T : h.lo[x] = 2 * g.lo[x] /\ h.pos[x] = 2 * g.pos[x] /\ h.hi[x] = 2 * g.hi[x]
      /\ s = "left" => h.pos[z] = 2 * g.pos[n] - 1
      /\ s # "left" => h.pos[z] = 2 * g.pos[n] + 1
  BY GrownIs, LabelTypes
<1>2. h.pos[z] = (IF s = "left" THEN 2 * g.pos[n] - 1 ELSE 2 * g.pos[n] + 1) /\ h.pos[z] \in Int
  <2>1. g.pos[n] \in Int
    BY <1>1
  <2>2. 2 * g.pos[n] - 1 \in Int /\ 2 * g.pos[n] + 1 \in Int
    BY <2>1
  <2>3. CASE s = "left"
    BY <1>1, <2>2, <2>3
  <2>4. CASE s # "left"
    BY <1>1, <2>2, <2>4
  <2> QED BY <2>3, <2>4
<1>3. ASSUME NEW x \in T
      PROVE  /\ h.pos[x] < h.pos[z] <=> LeftOf(g, x, n, s)
             /\ h.pos[z] < h.pos[x] <=> ~LeftOf(g, x, n, s)
  <2>1. g.pos[x] = g.pos[n] <=> x = n
    BY DEF Shape
  <2>2. h.pos[x] = 2 * g.pos[x] /\ g.pos[x] \in Int /\ g.pos[n] \in Int
    BY <1>1
  <2>3. CASE s = "left"
    <3>1. h.pos[z] = 2 * g.pos[n] - 1
      BY <1>1, <2>3
    <3>2. LeftOf(g, x, n, s) <=> g.pos[x] < g.pos[n]
      BY <2>3 DEF LeftOf
    <3> QED BY <2>2, <3>1, <3>2
  <2>4. CASE s = "right"
    <3>1. h.pos[z] = 2 * g.pos[n] + 1
      BY <1>1, <2>4
    <3>2. LeftOf(g, x, n, s) <=> g.pos[x] <= g.pos[n]
      BY <2>1, <2>2, <2>4 DEF LeftOf
    <3> QED BY <2>2, <3>1, <3>2
  <2> QED BY <2>3, <2>4 DEF Sides
<1> QED BY <1>1, <1>2, <1>3 DEF Beside

(* The CAS links the node z that operation i brings. *)
LEMMA AddOrder ==
    ASSUME Heap, Heap', Advance, UNCHANGED <<key, op, desc>>, NEW n \in Nodes, NEW i, NEW d, d = desc[i],
           Linkage(n, i, d), child[n][d.side] = d.expected,
           d.expected.null, NEW g \in Labels, Shape(Tree, child, g), KeysInv(g), AddsInv(g)
    PROVE  \E h \in Labels : Shape(Tree, child, h)' /\ KeysInv(h)' /\ PlaceTurn(g, h)
<1>0. PICK s, z, h : s = d.side /\ z = d.update.node /\ h = Grown(g, n, s, z)
  OBVIOUS
<1>1. /\ op[n].flag = "CHILDCAS" /\ n \in Tree /\ ~Gone(n) /\ s \in Sides
      /\ child'[n][s] = Ptr(z) /\ child[n][s].null
      /\ \A m \in Nodes, r \in Sides : m # n \/ r # s => child'[m][r] = child[m][r]
      /\ z \in Nodes /\ z \notin Tree /\ Tree' = Tree \cup {z} /\ Nodes' = Nodes
      /\ Waiting(n) /\ d = desc[op[n].op] /\ Hidden(z)
  BY <1>0 DEF Linkage
<1>2. child[z] = NoChildren /\ \A m \in Nodes, r \in Sides : child[m][r] # Ptr(z)
  <2>1. Adds(n, d) /\ d.update = Ptr(z)
    BY <1>0 DEF Linkage
  <2> QED BY <1>0, <2>1 DEF Adds
<1>3. \A m : Gone(m)' <=> Gone(m)
  <2>1. \A m : d.expected # Ptr(m)
    BY DEF Ptr
  <2> QED BY <2>1 DEF Linkage
<1>4. Tree \subseteq Nodes /\ Tree \subseteq Nat /\ Root \in Tree /\ z \in Nat
  BY <1>1, TreeFacts
<1>5. /\ h \in Labels
      /\ \A x \in Tree : g.lo[x] \in Int /\ g.pos[x] \in Int /\ g.hi[x] \in Int
      /\ \A x \in Tree : h.lo[x] = 2 * g.lo[x] /\ h.pos[x] = 2 * g.pos[x] /\ h.hi[x] = 2 * g.hi[x]
      /\ h.pos[z] = (IF s = "left" THEN 2 * g.pos[n] - 1 ELSE 2 * g.pos[n] + 1) /\ h.pos[z] \in Int
      /\ \A x \in Tree : /\ h.pos[x] < h.pos[z] <=> LeftOf(g, x, n, s)
                         /\ h.pos[z] < h.pos[x] <=> ~LeftOf(g, x, n, s)
  <2>1. n \in Tree /\ s \in Sides /\ z \in Nat /\ z \notin Tree /\ Tree \subseteq Nat /\ h = Grown(g, n, s, z)
    BY <1>0, <1>1, <1>4
  <2>2. Beside(Tree, g, h, n, s, z)
    BY <2>1, BesideNew
  <2> QED BY <2>2 DEF Beside
<1>6. Fits(g, n, s, key[z])
  BY <1>0, <1>1 DEF AddsInv
<1>7. \A x \in Tree' : key'[x] = key[x] /\ key[x] \in Int
  BY <1>1, <1>4, KeyTypes
<1>8. Shape(Tree, child, h)'
  <2>1. \A r \in Sides : child'[z][r].null
    <3>1. \A r \in Sides : child'[z][r] = NoChildren[r]
      BY <1>1, <1>2
    <3> QED BY <3>1 DEF NoChildren, SetNull, Sides
  <2>2. \A x \in Tree, r \in Sides : x # n \/ r # s => child'[x][r] = child[x][r]
    BY <1>1, <1>4
  <2>3. Shape(Tree \cup {z}, child', h)
    <3>1. /\ n \in Tree /\ s \in Sides /\ z \in Nat /\ z \notin Tree /\ Tree \subseteq Nat /\ Root \in Tree
          /\ child[n][s].null /\ child'[n][s] = Ptr(z) /\ h = Grown(g, n, s, z)
      BY <1>0, <1>1, <1>4
    <3> QED BY <2>1, <2>2, <3>1, ShapeGrows
  <2> QED BY <1>1, <2>3
<1>9. KeysInv(h)'
  <2>1. key'[Root] = -1
    BY DEF KeysInv
  <2>2. ASSUME NEW x \in Tree', NEW y \in Tree', h.pos[x] < h.pos[y]
        PROVE  key'[x] < key'[y] \/ (key'[x] = key'[y] /\ Leaves(y)' /\ child'[y].left.null)
    <3>1. CASE x \in Tree /\ y \in Tree
      <4>1. g.pos[x] < g.pos[y]
        <5>1. h.pos[x] = 2 * g.pos[x] /\ h.pos[y] = 2 * g.pos[y] /\ g.pos[x] \in Int /\ g.pos[y] \in Int
          BY <1>5, <3>1
        <5> QED BY <2>2, <5>1
      <4>2. key[x] < key[y] \/ (key[x] = key[y] /\ Leaves(y) /\ child[y].left.null)
        BY <3>1, <4>1 DEF KeysInv
      <4>3. Leaves(y)' <=> Leaves(y)
        BY DEF Leaves, Committed
      <4>4. Leaves(y) => child'[y].left = child[y].left
        <5>1. Leaves(y) => y # n
          BY <1>1 DEF Leaves
        <5> QED BY <1>1, <1>4, <3>1, <5>1 DEF Sides
      <4> QED BY <1>7, <4>2, <4>3, <4>4
    <3>2. CASE x = z /\ y \in Tree
      <4>1. ~LeftOf(g, y, n, s)
        BY <1>5, <2>2, <3>2
      <4> QED BY <1>6, <1>7, <3>2, <4>1 DEF Fits
    <3>3. CASE x \in Tree /\ y = z
      <4>1. LeftOf(g, x, n, s)
        BY <1>5, <2>2, <3>3
      <4> QED BY <1>6, <1>7, <3>3, <4>1 DEF Fits
    <3>4. CASE x = z /\ y = z
      BY <1>5, <2>2, <3>4
    <3> QED BY <1>1, <3>1, <3>2, <3>3, <3>4
  <2> QED BY <2>1, <2>2 DEF KeysInv
<1>10. \A x \in Tree : Carries(g, h, x, x)
  <2> SUFFICES ASSUME NEW x \in Tree, NEW a \in Tree, g.lo[x] = g.pos[a] PROVE h.lo[x] = h.pos[a]
    BY DEF Carries
  <2> QED BY <1>5
(* The new key is below what is below the subtree of another node. *)
<1>11. ASSUME NEW x \in Tree, NEW k \in Int, Upper(g, x, k) PROVE Upper(h, x, k)'
  <2> SUFFICES ASSUME NEW y \in Tree', h.hi[x] <= h.pos[y] PROVE k < key'[y]
    BY DEF Upper
  <2>1. CASE y \in Tree
    <3>1. g.hi[x] <= g.pos[y]
      <4>1. h.hi[x] = 2 * g.hi[x] /\ h.pos[y] = 2 * g.pos[y] /\ g.hi[x] \in Int /\ g.pos[y] \in Int
        BY <1>5, <2>1
      <4> QED BY <4>1
    <3> QED BY <1>7, <1>11, <2>1, <3>1 DEF Upper
  <2>2. CASE y = z
    <3>1. Placed(Tree, child, g, x) /\ Placed(Tree, child, g, n)
      BY <1>1 DEF Shape
    <3>2. g.pos[n] < g.hi[n] /\ g.hi[n] <= g.hi[Root]
      BY <3>1 DEF Placed
    <3>3. g.hi[x] \in Int /\ g.pos[n] \in Int /\ g.hi[n] \in Int /\ g.hi[Root] \in Int /\ h.hi[x] = 2 * g.hi[x]
      BY <1>1, <1>4, <1>5
    <3>4. g.hi[x] <= g.pos[n] /\ (s = "left" => g.hi[x] < g.pos[n])
      <4>1. CASE s = "left"
        <5>1. h.pos[z] = 2 * g.pos[n] - 1
          BY <1>5, <4>1
        <5> QED BY <2>2, <3>3, <5>1
      <4>2. CASE s # "left"
        <5>1. h.pos[z] = 2 * g.pos[n] + 1
          BY <1>5, <4>2
        <5> QED BY <2>2, <3>3, <4>2, <5>1
      <4> QED BY <4>1, <4>2
    <3>5. g.hi[x] # g.hi[Root]
      BY <3>2, <3>3, <3>4
    <3>6. PICK w \in Tree : g.pos[w] = g.hi[x]
      BY <3>1, <3>5 DEF Placed
    <3>7. LeftOf(g, w, n, s)
      <4>1. CASE g.pos[w] < g.pos[n]
        BY <4>1 DEF LeftOf
      <4>2. CASE g.pos[w] = g.pos[n]
        <5>1. w = n
          BY <1>1, <4>2 DEF Shape
        <5>2. s = "right"
          BY <1>1, <3>3, <3>4, <3>6, <4>2 DEF Sides
        <5> QED BY <5>1, <5>2 DEF LeftOf
      <4> QED BY <3>3, <3>4, <3>6, <4>1, <4>2
    <3>8. key[w] < key[z] /\ k < key[w] /\ key[w] \in Int /\ key[z] \in Int
      <4>1. key[w] < key[z]
        BY <1>6, <3>7 DEF Fits
      <4>2. k < key[w]
        <5>1. g.hi[x] <= g.pos[w]
          BY <3>3, <3>6
        <5> QED BY <1>11, <5>1 DEF Upper
      <4> QED BY <1>1, <1>7, <4>1, <4>2
    <3> QED BY <1>7, <2>2, <3>8
  <2> QED BY <1>1, <2>1, <2>2
<1>12. ASSUME NEW c, Known(c), NEW x \in Heirs(c)' PROVE x \in Heirs(c) /\ x \in Tree
  <2>1. c # z /\ c \in Nodes /\ x \in Tree'
    BY <1>1, <1>12 DEF Known, Heirs
  <2>2. CASE x = c
    BY <1>1, <2>1, <2>2 DEF Heirs
  <2>3. ASSUME Gone(c)', NEW r \in Sides, child'[c][r] = Ptr(x) PROVE x \in Heirs(c) /\ x \in Tree
    <3>1. Gone(c) /\ c # n
      BY <1>1, <1>3, <2>3
    <3>2. child[c][r] = Ptr(x)
      BY <1>1, <2>1, <2>3, <3>1
    <3>3. x # z
      BY <1>2, <2>1, <3>2
    <3> QED BY <1>1, <2>1, <2>3, <3>1, <3>2, <3>3 DEF Heirs
  <2> QED BY <1>12, <2>2, <2>3 DEF Heirs
(* What fits another pointer, and what is at that pointer's side. *)
<1>13. ASSUME NEW c \in Tree, NEW r \in Sides, NEW k \in Int, child[c][r].null, child'[c][r] = child[c][r],
              Fits(g, c, r, k)
       PROVE  Fits(h, c, r, k)'
  <2> SUFFICES ASSUME NEW x \in Tree' PROVE /\ LeftOf(h, x, c, r) => key'[x] < k
                                            /\ ~LeftOf(h, x, c, r) => k < key'[x]
    BY DEF Fits, LeftOf
  <2>1. CASE x \in Tree
    <3>1. LeftOf(h, x, c, r) <=> LeftOf(g, x, c, r)
      <4>1. h.pos[x] = 2 * g.pos[x] /\ h.pos[c] = 2 * g.pos[c] /\ g.pos[x] \in Int /\ g.pos[c] \in Int
        BY <1>5, <2>1
      <4> QED BY <4>1 DEF LeftOf
    <3> QED BY <1>7, <1>13, <2>1, <3>1 DEF Fits
  <2>2. CASE x = z
    <3>1. c # n \/ r # s
      <4>1. c = n /\ r = s => ~child'[c][r].null
        BY <1>1 DEF Ptr
      <4> QED BY <1>13, <4>1
    <3>2. g.pos[c] \in Int /\ g.pos[n] \in Int /\ h.pos[c] = 2 * g.pos[c] /\ h.pos[z] \in Int /\ c # z
      BY <1>1, <1>5
    <3>3. g.pos[c] = g.pos[n] <=> c = n
      BY <1>1 DEF Shape
    <3>4. ASSUME LeftOf(h, x, c, r) PROVE key'[x] < k
      <4>1. ~LeftOf(g, c, n, s)
        BY <1>5, <2>2, <3>2, <3>4 DEF LeftOf
      <4>2. g.pos[n] < g.pos[c] \/ (n = c /\ s = "left" /\ r = "right")
        BY <1>1, <3>1, <3>2, <3>3, <4>1 DEF LeftOf, Sides
      <4>3. PICK w \in Tree : LeftOf(g, w, c, r) /\ ~LeftOf(g, w, n, s)
        BY <1>1, <1>4, <1>13, <4>2, Apart
      <4>4. key[z] < key[w] /\ key[w] < k
        BY <1>6, <1>13, <4>3 DEF Fits
      <4> QED BY <1>1, <1>7, <2>2, <4>4
    <3>5. ASSUME ~LeftOf(h, x, c, r) PROVE k < key'[x]
      <4>1. LeftOf(g, c, n, s)
        <5>1. ~(h.pos[z] < h.pos[c])
          BY <2>2, <3>5 DEF LeftOf
        <5> QED BY <1>5, <5>1
      <4>2. g.pos[c] < g.pos[n] \/ (n = c /\ r = "left" /\ s = "right")
        BY <1>1, <3>1, <3>2, <3>3, <4>1 DEF LeftOf, Sides
      <4>3. PICK w \in Tree : LeftOf(g, w, n, s) /\ ~LeftOf(g, w, c, r)
        BY <1>1, <1>4, <1>13, <4>2, Apart
      <4>4. key[w] < key[z] /\ k < key[w]
        BY <1>6, <1>13, <4>3 DEF Fits
      <4> QED BY <1>1, <1>7, <2>2, <4>4
    <3> QED BY <3>4, <3>5
  <2> QED BY <1>1, <2>1, <2>2
<1>14. PlaceTurn(g, h)
  <2>1. \A c : Known(c) =>
          \A x \in Heirs(c)' : \E y \in Heirs(c) :
              Carries(g, h, x, y) /\ \A k \in Int : Upper(g, y, k) => Upper(h, x, k)'
    BY <1>10, <1>11, <1>12
  <2> QED BY <1>10, <1>13, <2>1 DEF PlaceTurn
<1> QED BY <1>5, <1>8, <1>9, <1>14

(* The CAS takes out the node e. *)
LEMMA TakeOutOrder ==
    ASSUME Heap, Heap', Advance, UNCHANGED <<key, op, desc>>, NEW n \in Nodes, NEW i, NEW d, d = desc[i],
           Linkage(n, i, d), child[n][d.side] = d.expected,
           ~d.expected.null, NEW g \in Labels, Shape(Tree, child, g), KeysInv(g), MarkedInv
    PROVE  \E h \in Labels : Shape(Tree, child, h)' /\ KeysInv(h)' /\ PlaceTurn(g, h)
<1>0. PICK s, e : s = d.side /\ e = d.expected.node
  OBVIOUS
<1>1. /\ op[n].flag = "CHILDCAS" /\ n \in Tree /\ ~Gone(n) /\ s \in Sides
      /\ child'[n][s] = Replacement(e) /\ child[n][s] = Ptr(e)
      /\ \A m \in Nodes, r \in Sides : m # n \/ r # s => child'[m][r] = child[m][r]
      /\ e \in Tree /\ e # n /\ e # Root /\ op[e].flag = "MARK" /\ Tree' = Tree \ {e} /\ Nodes' = Nodes
      /\ \A m \in Tree, r \in Sides : m # n \/ r # s => child[m][r] # Ptr(e)
  BY <1>0 DEF Linkage
<1>2. \A m : Gone(m)' <=> Gone(m) \/ m = e
  <2>1. \A m : d.expected = Ptr(m) <=> m = e
    <3>1. d.expected = Ptr(e)
      BY <1>0 DEF Linkage
    <3> QED BY <3>1, PtrSame
  <2> QED BY <2>1 DEF Linkage
<1>3. Tree \subseteq Nodes /\ Tree \subseteq Nat /\ Root \in Tree /\ Sides = {"left", "right"}
  BY TreeFacts DEF Sides
<1>4. PICK a \in Sides, b \in Sides : a # b /\ child[e][a].null
  <2>1. PICK a \in Sides : child[e][a].null
    BY <1>1, <1>3 DEF MarkedInv
  <2>2. \E b \in Sides : a # b
    BY <1>3
  <2> QED BY <2>1, <2>2
<1>5. /\ child[e][b].null => child'[n][s].null
      /\ ~child[e][b].null => child'[n][s] = child[e][b]
  BY <1>1, <1>3, <1>4 DEF Replacement, SetNull
<1>6. PICK v, h : v = (IF a = "left" THEN g.lo[e] ELSE g.hi[e]) /\ h = Pruned(g, e, v)
  OBVIOUS
<1>7. \A x \in Tree : g.lo[x] \in Int /\ g.pos[x] \in Int /\ g.hi[x] \in Int
  BY <1>3, LabelTypes
<1>8. /\ h \in Labels /\ h.pos = g.pos
      /\ \A x \in Tree :
           /\ h.lo[x] = (IF g.lo[x] = g.pos[e] THEN v ELSE g.lo[x])
           /\ h.hi[x] = (IF g.hi[x] = g.pos[e] THEN v ELSE g.hi[x])
  <2>1. v \in Int /\ e \in Nat
    BY <1>1, <1>3, <1>6, <1>7
  <2>2. /\ h \in Labels /\ h.pos = g.pos
        /\ \A x \in Nat :
             /\ h.lo[x] = (IF g.lo[x] = g.pos[e] THEN v ELSE g.lo[x])
             /\ h.hi[x] = (IF g.hi[x] = g.pos[e] THEN v ELSE g.hi[x])
    <3>1. HasBounds(Pruned(g, e, v), g, e, v)
      BY <2>1, PrunedIs
    <3> QED BY <1>6, <3>1 DEF HasBounds
  <2> QED BY <1>3, <2>2
<1>9. Placed(Tree, child, g, e) /\ \A x \in Tree : Placed(Tree, child, g, x)
  BY <1>1 DEF Shape
<1>10. Shape(Tree, child, h)'
  <2>1. \A x \in Tree, r \in Sides : ~child[x][r].null => child[x][r] = Ptr(child[x][r].node)
    BY TreeFacts
  <2>2. \A x \in Tree, r \in Sides : x # n \/ r # s => child'[x][r] = child[x][r] /\ child[x][r] # Ptr(e)
    BY <1>1, <1>3
  <2>3. h = Pruned(g, e, IF a = "left" THEN g.lo[e] ELSE g.hi[e])
    BY <1>6
  <2>4. Shape(Tree \ {e}, child', h)
    <3>1. /\ n \in Tree /\ s \in Sides /\ e \in Tree /\ e # Root /\ e # n /\ child[n][s] = Ptr(e)
          /\ Tree \subseteq Nat /\ Root \in Tree
      BY <1>1, <1>3
    <3>2. Cut(Tree, child, child', g, h, n, s, e, a, b)
      BY <1>4, <1>5, <2>1, <2>2, <2>3, <3>1 DEF Cut
    <3> QED BY <3>2, ShapeShrinks
  <2> QED BY <1>1, <2>4
<1>11. KeysInv(h)'
  <2>1. key'[Root] = -1
    BY DEF KeysInv
  <2>2. ASSUME NEW x \in Tree', NEW y \in Tree', h.pos[x] < h.pos[y]
        PROVE  key'[x] < key'[y] \/ (key'[x] = key'[y] /\ Leaves(y)' /\ child'[y].left.null)
    <3>1. key[x] < key[y] \/ (key[x] = key[y] /\ Leaves(y) /\ child[y].left.null)
      BY <1>1, <1>8, <2>2 DEF KeysInv
    <3>2. Leaves(y)' <=> Leaves(y)
      BY DEF Leaves, Committed
    <3>3. Leaves(y) => child'[y].left = child[y].left
      <4>1. Leaves(y) => y # n
        BY <1>1 DEF Leaves
      <4> QED BY <1>1, <1>3, <4>1
    <3> QED BY <3>1, <3>2, <3>3
  <2> QED BY <2>1, <2>2 DEF KeysInv
(* The bounds that change: those of the subtree of e. *)
<1>12. /\ a = "left" => \A x \in Tree : g.hi[x] # g.pos[e]
       /\ a = "right" => \A x \in Tree : g.lo[x] # g.pos[e]
       /\ g.lo[e] < g.pos[e] /\ g.pos[e] < g.hi[e]
  <2>1. g.lo[e] < g.pos[e] /\ g.pos[e] < g.hi[e] /\ g.lo[Root] <= g.lo[e] /\ g.hi[e] <= g.hi[Root]
    BY <1>9 DEF Placed
  <2>2. g.pos[e] # g.hi[Root] /\ g.pos[e] # g.lo[Root]
    BY <1>1, <1>3, <1>7, <2>1
  <2>3. ASSUME a = "left", NEW x \in Tree, g.hi[x] = g.pos[e] PROVE FALSE
    <3>1. PICK w \in Tree : g.pos[w] = g.hi[x] /\ ~child[w].left.null
      BY <1>9, <2>2, <2>3 DEF Placed
    <3>2. w = e
      BY <1>1, <2>3, <3>1 DEF Shape
    <3> QED BY <1>4, <2>3, <3>1, <3>2
  <2>4. ASSUME a = "right", NEW x \in Tree, g.lo[x] = g.pos[e] PROVE FALSE
    <3>1. PICK w \in Tree : g.pos[w] = g.lo[x] /\ ~child[w].right.null
      BY <1>9, <2>2, <2>4 DEF Placed
    <3>2. w = e
      BY <1>1, <2>4, <3>1 DEF Shape
    <3> QED BY <1>4, <2>4, <3>1, <3>2
  <2> QED BY <2>1, <2>3, <2>4
<1>13. ASSUME NEW x \in Tree PROVE Carries(g, h, x, x)
  <2> SUFFICES ASSUME NEW c \in Tree, c \in Tree', g.lo[x] = g.pos[c] PROVE h.lo[x] = h.pos[c]
    BY DEF Carries
  <2>1. g.pos[c] # g.pos[e]
    BY <1>1 DEF Shape
  <2> QED BY <1>8, <2>1
<1>14. ASSUME NEW x \in Tree, NEW y \in Tree, g.hi[y] <= h.hi[x], NEW k \in Int, Upper(g, y, k)
       PROVE  Upper(h, x, k)'
  <2> SUFFICES ASSUME NEW u \in Tree', h.hi[x] <= h.pos[u] PROVE k < key'[u]
    BY DEF Upper
  <2>1. u \in Tree /\ g.hi[y] \in Int /\ h.hi[x] \in Int /\ g.pos[u] \in Int
    <3>1. u \in Tree
      BY <1>1
    <3>2. v \in Int
      BY <1>1, <1>6, <1>7
    <3> QED BY <1>7, <1>8, <3>1, <3>2
  <2>2. g.hi[y] <= g.pos[u]
    BY <1>8, <1>14, <2>1
  <2> QED BY <1>14, <2>1, <2>2 DEF Upper
<1>15. ASSUME NEW x \in Tree PROVE g.hi[x] <= h.hi[x]
  <2>1. g.hi[x] \in Int /\ g.hi[e] \in Int /\ g.pos[e] \in Int
    BY <1>1, <1>7
  <2>2. CASE a = "left"
    BY <1>8, <1>12, <2>1, <2>2
  <2>3. CASE a # "left"
    BY <1>6, <1>8, <1>12, <2>1, <2>3
  <2> QED BY <2>2, <2>3
(* The heir of e takes its place. *)
<1>16. ASSUME NEW x \in Tree, NEW r \in Sides, child[e][r] = Ptr(x)
       PROVE  Carries(g, h, x, e) /\ g.hi[e] <= h.hi[x]
  <2>1. r = b
    BY <1>3, <1>4, <1>16 DEF Ptr
  <2>2. g.hi[e] \in Int
    BY <1>1, <1>7
  <2>3. CASE b = "left"
    <3>1. g.lo[x] = g.lo[e] /\ g.hi[x] = g.pos[e]
      BY <1>9, <1>16, <2>1, <2>3 DEF Placed
    <3>2. a = "right" /\ v = g.hi[e]
      BY <1>3, <1>4, <1>6, <2>3
    <3>3. h.lo[x] = g.lo[e] /\ h.hi[x] = g.hi[e]
      BY <1>8, <1>12, <3>1, <3>2
    <3> QED BY <1>8, <2>2, <3>3 DEF Carries
  <2>4. CASE b = "right"
    <3>1. g.lo[x] = g.pos[e] /\ g.hi[x] = g.hi[e]
      BY <1>9, <1>16, <2>1, <2>4 DEF Placed
    <3>2. a = "left" /\ v = g.lo[e]
      BY <1>3, <1>4, <1>6, <2>4
    <3>3. h.lo[x] = g.lo[e] /\ h.hi[x] = g.hi[e]
      BY <1>8, <1>12, <3>1, <3>2
    <3> QED BY <1>8, <2>2, <3>3 DEF Carries
  <2> QED BY <1>3, <2>3, <2>4
<1>17. ASSUME NEW c, Known(c), NEW x \in Heirs(c)'
       PROVE  \E y \in Heirs(c) : Carries(g, h, x, y) /\ \A k \in Int : Upper(g, y, k) => Upper(h, x, k)'
  <2>1. c \in Nodes /\ x \in Tree' /\ x \in Tree
    BY <1>1, <1>17 DEF Known, Heirs
  <2>2. ASSUME x \in Heirs(c) PROVE \E y \in Heirs(c) : Carries(g, h, x, y) /\ \A k \in Int : Upper(g, y, k) => Upper(h, x, k)'
    BY <1>13, <1>14, <1>15, <2>1, <2>2
  <2>3. CASE x = c
    BY <2>1, <2>2, <2>3 DEF Heirs
  <2>4. ASSUME Gone(c)', NEW r \in Sides, child'[c][r] = Ptr(x)
        PROVE  \E y \in Heirs(c) : Carries(g, h, x, y) /\ \A k \in Int : Upper(g, y, k) => Upper(h, x, k)'
    <3>1. c # n
      BY <1>1, <1>2, <2>4
    <3>2. child[c][r] = Ptr(x)
      BY <1>1, <2>1, <2>4, <3>1
    <3>3. CASE Gone(c)
      BY <2>1, <2>2, <2>4, <3>2, <3>3 DEF Heirs
    <3>4. CASE c = e
      <4>1. e \in Heirs(c)
        BY <1>1, <3>4 DEF Heirs
      <4>2. Carries(g, h, x, e) /\ \A k \in Int : Upper(g, e, k) => Upper(h, x, k)'
        BY <1>1, <1>14, <1>16, <2>1, <2>4, <3>2, <3>4
      <4> QED BY <4>1, <4>2
    <3> QED BY <1>2, <2>4, <3>3, <3>4
  <2> QED BY <1>17, <2>3, <2>4 DEF Heirs
<1>18. ASSUME NEW c, NEW r, NEW k, Fits(g, c, r, k) PROVE Fits(h, c, r, k)'
  <2>1. \A x : LeftOf(h, x, c, r) <=> LeftOf(g, x, c, r)
    BY <1>8 DEF LeftOf
  <2> QED BY <1>1, <1>18, <2>1 DEF Fits, LeftOf
<1>19. PlaceTurn(g, h)
  BY <1>13, <1>17, <1>18 DEF PlaceTurn
<1> QED BY <1>8, <1>10, <1>11, <1>19

(* 202 *)
LEMMA ChildCASOrder ==
    ASSUME Inv, Heap', Advance, NEW g \in Labels, OrderInv(g), NEW t \in All, pc[t] = "ChildCAS",
           NEW l, l = loc[t], ChildCAS(t, l, desc[l.helped])
    PROVE  \E h \in Labels : OrderInv(h)'
<1>0. PICK d, n, i : d = desc[l.helped] /\ n = l.target /\ i = l.helped
  OBVIOUS
<1>1. Heap /\ Place("ChildCAS", l) /\ Links(l) /\ TooLate(l) /\ n \in Nodes
  BY <1>0, Here DEF Place, Linking, Links, Known
<1>2. Step(t, "ChildCASDone", l) /\ op' = op /\ desc' = desc /\ key' = key /\ UNCHANGED <<key, op, desc>>
  BY DEF ChildCAS
<1>3. CASE child[n][d.side] # d.expected
  <2>1. UNCHANGED heap
    BY <1>0, <1>2, <1>3 DEF ChildCAS, heap
  <2>2. Onward(t, l)
    BY <1>2 DEF Onward, Linking
  <2> QED BY <2>1, <2>2, FailedOrder
<1>4. CASE child[n][d.side] = d.expected
  <2>1. child' = [child EXCEPT ![n][d.side] = d.update]
    BY <1>0, <1>4 DEF ChildCAS
  <2>2. op[n] = Word("CHILDCAS", i)
    BY <1>0, <1>1, <1>4 DEF TooLate
  <2>3. PICK h \in Labels : Shape(Tree, child, h)' /\ KeysInv(h)' /\ PlaceTurn(g, h)
    <3>1. Shape(Tree, child, g) /\ KeysInv(g) /\ MarkedInv /\ AddsInv(g)
      BY DEF OrderInv
    <3>4. Linkage(n, i, d)
      BY <1>0, <1>1, <1>2, <1>4, <2>1, <2>2, LinkStep
    <3>2. CASE d.expected.null
      BY <1>0, <1>1, <1>2, <1>4, <3>1, <3>2, <3>4, AddOrder
    <3>3. CASE ~d.expected.null
      BY <1>0, <1>1, <1>2, <1>4, <3>1, <3>3, <3>4, TakeOutOrder
    <3> QED BY <3>2, <3>3
  <2>4. KeysTurn /\ MovesTurn /\ AddsTurn(h)
    BY <1>2 DEF KeysTurn, MovesTurn, AddsTurn
  <2>5. Course(h, "ChildCASDone", l)'
    <3>1. KeyAtDest(l)
      <4>1. Course(g, "ChildCAS", l)
        BY DEF OrderInv
      <4> QED BY <4>1 DEF Course
    <3>2. KeyAtDest(l)'
      BY <1>2, <3>1 DEF KeyAtDest, AtDest
    <3> QED BY <3>2 DEF Course, Inserting
  <2>6. \A j \in (Len(desc) + 1) .. Len(desc') : FALSE
    BY <1>1, <1>2, HeapTypes
  <2> QED BY <1>2, <2>3, <2>4, <2>5, <2>6, OrderStep DEF Step
<1> QED BY <1>3, <1>4

-----------------------------------------------------------------------------
(* A relocation puts the key of the next node in the place of the one that *)
(* is deleted.                                                             *)

(* The node m whose key goes to a comes right after a. *)
LEMMA KeyMoves ==
    ASSUME Inv, Heap', Advance, NEW g \in Labels, OrderInv(g), NEW t \in All, pc[t] = "RelocateKey",
           NEW l, l = loc[t], NEW i, i = l.helped, NEW d, d = desc[i], NEW a, a = d.dest,
           NEW w, w = Word("RELOCATE", i), key[a] = d.key_to_remove, key' = [key EXCEPT ![a] = d.key_to_put],
           UNCHANGED <<op, child, desc>>, Step(t, "RelocateUnflag", l)
    PROVE  KeysTurn /\ OrderInv(g)'
<1>0. op' = op /\ child' = child /\ desc' = desc /\ pc[t] \in Relocating
  BY DEF Relocating
<1>1. /\ Heap /\ Place("RelocateKey", l) /\ a \in Nodes /\ a # Root /\ d.key_to_put \in AllKeys \cup {-1}
      /\ MoveOK(g, i) /\ w.flag = "RELOCATE" /\ w.op = i
      /\ d.key_to_remove \in Int /\ d.key_to_put \in Int /\ d.key_to_remove < d.key_to_put
  BY <1>0, Helping, HelpingMove
<1>2. op[a] = w
  <2>1. d.state = "SUCCEED"
    BY <1>1 DEF Place
  <2>2. op[a] # w => key[a] >= d.key_to_put
    BY <1>1, <2>1 DEF MoveOK
  <2> QED BY <1>1, <2>2
<1>3. PICK m \in Nodes : m # a /\ op[m] = w /\ child[m].left.null /\ key[m] = d.key_to_put /\ g.lo[m] = g.pos[a]
  <2>0. /\ \E m \in Nodes : m # a /\ op[m] = w
        /\ \A m \in Nodes : m # a /\ op[m] = w =>
             child[m].left.null /\ key[m] = d.key_to_put /\ g.lo[m] = g.pos[a]
    <3>1. MoveOK(g, i)
      BY <1>1
    <3>2. op[d.dest] = Word("RELOCATE", i)
      BY <1>2
    <3>3. \E m \in Nodes : m # d.dest /\ op[m] = Word("RELOCATE", i)
      BY <3>1, <3>2 DEF MoveOK
    <3>4. \A m \in Nodes : m # d.dest /\ op[m] = Word("RELOCATE", i) =>
             child[m].left.null /\ key[m] = d.key_to_put /\ g.lo[m] = g.pos[d.dest]
      BY <3>1, <3>2 DEF MoveOK
    <3> QED BY <3>3, <3>4
  <2>1. PICK m \in Nodes : m # a /\ op[m] = w
    BY <2>0
  <2>2. child[m].left.null /\ key[m] = d.key_to_put /\ g.lo[m] = g.pos[a]
    BY <2>0, <2>1
  <2> QED BY <2>1, <2>2
<1>4. a \in Tree /\ m \in Tree /\ Tree \subseteq Nodes /\ Root \in Tree
  <2>1. \A x \in Nodes : op[x].flag = "RELOCATE" => x \in Tree
    BY <1>1, TreeFacts
  <2>2. op[a].flag = "RELOCATE" /\ op[m].flag = "RELOCATE"
    BY <1>1, <1>2, <1>3
  <2>3. Tree \subseteq Nodes /\ Root \in Tree
    BY <1>1, TreeFacts
  <2> QED BY <1>1, <1>3, <2>1, <2>2, <2>3
<1>5. key'[a] = key[m] /\ Nodes' = Nodes /\ \A n \in Nodes : n # a => key'[n] = key[n]
  <2>1. key \in Seq(AllKeys \cup {-1})
    BY <1>1 DEF Heap, HeapInv
  <2>2. Len(key') = Len(key) /\ key'[a] = d.key_to_put /\ \A n \in 1 .. Len(key) : n # a => key'[n] = key[n]
    BY <1>1, <2>1, ExceptSeq DEF Nodes
  <2> QED BY <1>3, <2>2 DEF Nodes
<1>6. key[a] < key[m] /\ key[a] \in Int /\ key[m] \in Int
  BY <1>1, <1>3
<1>7. KeysTurn
  <2> SUFFICES ASSUME NEW n \in Nodes, key'[n] # key[n]
               PROVE  /\ Receives(n) /\ op'[n] = op[n]
                      /\ key'[n] = desc[op[n].op].key_to_put /\ key[n] <= key'[n]
    BY DEF KeysTurn
  <2>1. n = a
    BY <1>5
  <2>2. Receives(n) /\ op[n].op = i
    BY <1>0, <1>1, <1>2, <2>1 DEF Receives
  <2>3. key'[n] = d.key_to_put /\ key[n] <= key'[n]
    BY <1>3, <1>5, <1>6, <2>1
  <2> QED BY <1>0, <2>2, <2>3
<1>8. Shape(Tree, child, g) /\ KeysInv(g)
  BY DEF OrderInv
<1>9. /\ Tree' = Tree /\ \A n : Gone(n)' = Gone(n)
      /\ \A n \in Nodes : child'[n].left = child[n].left /\ child'[n].right = child[n].right
  <2>1. \A j \in (Len(desc) + 1) .. Len(desc') : FALSE
    BY <1>0, <1>1, HeapTypes
  <2> QED BY <1>0, <1>1, <1>5, <2>1, TreeSame
<1>10. /\ Shape(Tree, child, g)'
       /\ \A x \in Tree : x \in Tree' => Carries(g, g, x, x)
       /\ \A c : Known(c) =>
            \A x \in Heirs(c)' : \E y \in Heirs(c) :
                Carries(g, g, x, y) /\ \A k \in Int : Upper(g, y, k) => Upper(g, x, k)'
  BY <1>1, <1>7, <1>8, <1>9, SameOrder
<1>11. /\ g.pos[a] < g.pos[m] /\ g.pos[a] \in Int /\ g.pos[m] \in Int
       /\ \A y \in Tree : /\ g.pos[y] \in Int /\ key[y] \in Int
                          /\ g.pos[y] <= g.pos[a] \/ g.pos[m] <= g.pos[y]
                          /\ g.pos[y] = g.pos[a] => y = a
                          /\ g.pos[y] = g.pos[m] => y = m
  <2>1. g.lo[m] < g.pos[m] /\ \A y \in Tree : g.pos[y] <= g.lo[m] \/ g.pos[m] <= g.pos[y]
    BY <1>1, <1>3, <1>4, <1>8, ChildPlaces
  <2>2. \A y \in Tree : /\ g.pos[y] \in Int /\ key[y] \in Int
                        /\ g.pos[y] = g.pos[a] => y = a
                        /\ g.pos[y] = g.pos[m] => y = m
    BY <1>1, <1>4, <1>8, KeyOrder
  <2> QED BY <1>3, <1>4, <2>1, <2>2
<1>12. KeysInv(g)'
  <2>1. key'[Root] = -1
    BY <1>1, <1>4, <1>5, <1>8 DEF KeysInv
  <2>2. ASSUME NEW x \in Tree, NEW y \in Tree, g.pos[x] < g.pos[y]
        PROVE  key'[x] < key'[y] \/ (key'[x] = key'[y] /\ Leaves(y)' /\ child'[y].left.null)
    <3>0. \A n : Leaves(n)' <=> Leaves(n)
      BY <1>0 DEF Leaves, Committed
    <3>1. x \in Nodes /\ y \in Nodes /\ x # y
      <4>1. g.pos[x] \in Int
        BY <1>11
      <4>2. g.pos[x] # g.pos[y]
        BY <2>2, <4>1
      <4> QED BY <1>4, <4>2
    <3>2. CASE x # a /\ y # a
      <4>1. key'[x] = key[x] /\ key'[y] = key[y]
        BY <1>5, <3>1, <3>2
      <4>2. key[x] < key[y] \/ (key[x] = key[y] /\ Leaves(y) /\ child[y].left.null)
        BY <1>8, <2>2 DEF KeysInv
      <4> QED BY <1>0, <3>0, <4>1, <4>2
    <3>3. CASE y = a
      <4>1. key'[x] = key[x] /\ key'[y] = key[m] /\ key[x] \in Int
        BY <1>5, <1>11, <3>1, <3>3
      <4>2. key[x] <= key[a]
        BY <1>1, <1>4, <1>8, <2>2, <3>3, KeyOrder
      <4> QED BY <1>6, <4>1, <4>2
    <3>4. CASE x = a
      <4>1. key'[x] = key[m] /\ key'[y] = key[y]
        BY <1>5, <3>1, <3>4
      <4>2. CASE y = m
        <5>1. Leaves(m)
          <6>1. Committed(i)
            BY <1>2, <1>3 DEF Committed
          <6> QED BY <1>1, <1>3, <6>1 DEF Leaves
        <5> QED BY <1>0, <1>3, <3>0, <4>1, <4>2, <5>1
      <4>3. CASE y # m
        <5>1. g.pos[m] < g.pos[y]
          <6>1. g.pos[a] < g.pos[y]
            BY <2>2, <3>4
          <6>2. g.pos[y] <= g.pos[a] \/ g.pos[m] <= g.pos[y]
            BY <1>11
          <6>3. g.pos[y] # g.pos[m] /\ g.pos[a] \in Int /\ g.pos[m] \in Int /\ g.pos[y] \in Int
            BY <1>11, <4>3
          <6> QED BY <6>1, <6>2, <6>3
        <5>2. key[m] < key[y] \/ (key[m] = key[y] /\ Leaves(y) /\ child[y].left.null)
          BY <1>4, <1>8, <5>1 DEF KeysInv
        <5> QED BY <1>0, <3>0, <4>1, <5>2
      <4> QED BY <4>2, <4>3
    <3> QED BY <3>2, <3>3, <3>4
  <2> QED BY <1>9, <2>1, <2>2 DEF KeysInv
<1>13. ASSUME NEW n \in Tree, NEW s \in Sides, NEW k \in Int, op[n].flag \in {"NONE", "CHILDCAS"}, Fits(g, n, s, k)
       PROVE  Fits(g, n, s, k)'
  <2> SUFFICES ASSUME NEW x \in Tree PROVE /\ LeftOf(g, x, n, s) => key'[x] < k
                                           /\ ~LeftOf(g, x, n, s) => k < key'[x]
    BY <1>9 DEF Fits
  <2>1. CASE x # a
    <3>1. key'[x] = key[x]
      BY <1>4, <1>5, <2>1
    <3> QED BY <1>13, <3>1 DEF Fits
  <2>2. CASE x = a
    <3>1. n # a /\ n # m
      BY <1>1, <1>2, <1>3, <1>13
    <3>2. LeftOf(g, a, n, s) => LeftOf(g, m, n, s)
      <4>1. g.pos[n] <= g.pos[a] \/ g.pos[m] <= g.pos[n]
        BY <1>11
      <4>2. g.pos[n] # g.pos[m] /\ g.pos[a] \in Int /\ g.pos[m] \in Int /\ g.pos[n] \in Int
        BY <1>11, <3>1
      <4>3. g.pos[a] < g.pos[n] => g.pos[m] < g.pos[n]
        BY <4>1, <4>2
      <4> QED BY <3>1, <4>3 DEF LeftOf
    <3>3. LeftOf(g, a, n, s) => key[m] < k
      BY <1>4, <1>13, <3>2 DEF Fits
    <3>4. ~LeftOf(g, a, n, s) => k < key[a]
      BY <1>4, <1>13 DEF Fits
    <3> QED BY <1>5, <1>6, <2>2, <3>3, <3>4
  <2> QED BY <2>1, <2>2
<1>14. PlaceTurn(g, g)
  BY <1>10, <1>13 DEF PlaceTurn
<1>15. MovesTurn /\ AddsTurn(g)
  BY <1>0 DEF MovesTurn, AddsTurn
<1>16. Course(g, "RelocateUnflag", l)'
  <2>1. KeyAtDest(l)'
    <3> SUFFICES ASSUME l.start # Root, op[l.dest] = l.dest_op PROVE key'[l.dest] = l.k
      BY <1>0 DEF KeyAtDest, AtDest
    <3>1. Course(g, "RelocateKey", l)
      BY DEF OrderInv
    <3>2. key[l.dest] = l.k
      BY <3>1 DEF Course, KeyAtDest, AtDest
    <3>3. Seen(l.dest, l.dest_op)
      BY <1>1 DEF Place, SecondFind
    <3>4. l.dest \in Nodes /\ l.dest_op.flag = "NONE"
      BY <3>3 DEF Seen, Known, Quiet
    <3> QED BY <1>1, <1>2, <1>5, <3>2, <3>4
  <2>2. desc'[l.helped].dest = a /\ desc'[l.helped].key_to_put = d.key_to_put
    BY <1>0
  <2>3. op'[a] = Word("RELOCATE", l.helped) => key'[a] = d.key_to_put
    BY <1>3, <1>5
  <2> QED BY <2>1, <2>2, <2>3 DEF Course, Inserting
<1>17. \A j \in (Len(desc) + 1) .. Len(desc') : FALSE
  BY <1>0, <1>1, HeapTypes
<1> QED BY <1>0, <1>7, <1>10, <1>12, <1>14, <1>15, <1>16, <1>17, OrderStep DEF Step

(* 224 *)
LEMMA RelocateKeyOrder ==
    ASSUME Inv, Heap', Advance, NEW g \in Labels, OrderInv(g), NEW t \in All, pc[t] = "RelocateKey",
           NEW l, l = loc[t], RelocateKey(t, l, desc[l.helped])
    PROVE  KeysTurn /\ OrderInv(g)'
<1>0. PICK i, d, a, w : i = l.helped /\ d = desc[i] /\ a = d.dest /\ w = Word("RELOCATE", i)
  OBVIOUS
<1>1. pc[t] \in Relocating
  BY DEF Relocating
<1>2. Step(t, "RelocateUnflag", l) /\ UNCHANGED <<op, child, desc>>
  BY DEF RelocateKey
<1>3. CASE key[a] = d.key_to_remove
  <2>1. key' = [key EXCEPT ![a] = d.key_to_put]
    BY <1>0, <1>3 DEF RelocateKey
  <2> QED BY <1>0, <1>2, <1>3, <2>1, KeyMoves
<1>4. CASE key[a] # d.key_to_remove
  <2>1. key' = key /\ op' = op /\ child' = child /\ desc' = desc
    BY <1>0, <1>2, <1>4 DEF RelocateKey
  <2>2. Nodes' = Nodes /\ \A j \in (Len(desc) + 1) .. Len(desc') : FALSE
    BY <2>1, HeapTypes DEF Nodes, Inv
  <2>3. MovesTurn /\ AddsTurn(g)
    BY <2>1 DEF MovesTurn, AddsTurn
  <2>4. op[a] = w => key[a] = d.key_to_put
    <3>1. MoveOK(g, i)
      BY <1>0, <1>1, HelpingMove
    <3> QED BY <1>0, <1>4, <3>1 DEF MoveOK
  <2>5. KeyAtDest(l)
    <3>1. Course(g, "RelocateKey", l)
      BY DEF OrderInv
    <3> QED BY <3>1 DEF Course
  <2>6. Course(g, "RelocateUnflag", l)'
    <3>1. KeyAtDest(l)'
      BY <2>1, <2>5 DEF KeyAtDest, AtDest
    <3>2. op'[desc'[l.helped].dest] = Word("RELOCATE", l.helped) =>
            key'[desc'[l.helped].dest] = desc'[l.helped].key_to_put
      BY <1>0, <2>1, <2>4
    <3> QED BY <3>1, <3>2 DEF Course, Inserting
  <2>7. KeysTurn
    BY <2>1 DEF KeysTurn
  <2>8. OrderInv(g)'
    BY <1>2, <2>1, <2>2, <2>3, <2>6, WordsOrder DEF Step
  <2> QED BY <2>7, <2>8
<1> QED BY <1>3, <1>4

-----------------------------------------------------------------------------
(* All steps. *)

(* A call begins, or nothing happens. *)
LEMMA EnterOrder ==
    ASSUME Inv, Heap', Advance, NEW g \in Labels, OrderInv(g), NEW t \in All, NEW fn, NEW k, Enter(t, fn, k)
    PROVE  OrderInv(g)'
<1>1. PICK c, m : c = [fn |-> fn, k |-> k] /\ m = Frame(c)
  OBVIOUS
<1>2. /\ key' = key /\ op' = op /\ child' = child /\ desc' = desc
      /\ pc' = [pc EXCEPT ![t] = "FindOp"] /\ loc' = [loc EXCEPT ![t] = m]
  BY <1>1 DEF Enter, heap
<1>3. Nodes' = Nodes /\ \A j \in (Len(desc) + 1) .. Len(desc') : FALSE
  BY <1>2, HeapTypes DEF Nodes, Inv
<1>4. MovesTurn /\ AddsTurn(g)
  BY <1>2 DEF MovesTurn, AddsTurn
<1>5. Course(g, "FindOp", m)'
  <2>1. m.start = Root
    BY <1>1 DEF Frame, NoLocals
  <2> QED BY <2>1 DEF Course, KeyAtDest, Inserting
<1> QED BY <1>2, <1>3, <1>4, <1>5, WordsOrder

LEMMA StutterOrder ==
    ASSUME NEW g \in Labels, OrderInv(g), UNCHANGED vars
    PROVE  OrderInv(g)'
<1>1. key' = key /\ op' = op /\ child' = child /\ desc' = desc /\ pc' = pc /\ loc' = loc
  BY DEF vars
<1>2. \A i : (Done(i)' <=> Done(i)) /\ (IsChildCAS(i)' <=> IsChildCAS(i)) /\ (IsRelocate(i)' <=> IsRelocate(i))
  BY <1>1 DEF Done, IsChildCAS, IsRelocate, Nodes
<1>3. \A n : (Gone(n)' <=> Gone(n)) /\ (Waiting(n)' <=> Waiting(n)) /\ (Leaves(n)' <=> Leaves(n))
  BY <1>1, <1>2 DEF Gone, Waiting, Leaves, Committed
<1>4. \A n : (Hidden(n)' <=> Hidden(n)) /\ (Known(n)' <=> Known(n))
  BY <1>1, <1>3 DEF Hidden, Known, Nodes
<1>5. Nodes' = Nodes /\ Tree' = Tree /\ \A c : Heirs(c)' = Heirs(c)
  BY <1>1, <1>3, <1>4 DEF Tree, Nodes, Heirs
<1>6. \A n, w : Seen(n, w)' <=> Seen(n, w)
  BY <1>1, <1>4 DEF Seen
<1>7. Shape(Tree, child, g)' /\ KeysInv(g)' /\ MarkedInv' /\ AddsInv(g)' /\ MovesInv(g)'
  <2>1. Shape(Tree, child, g)'
    BY <1>1, <1>5 DEF OrderInv
  <2>2. KeysInv(g)'
    BY <1>1, <1>3, <1>5 DEF OrderInv, KeysInv
  <2>3. MarkedInv'
    BY <1>1, <1>5 DEF OrderInv, MarkedInv
  <2>4. AddsInv(g)'
    BY <1>1, <1>3, <1>5 DEF OrderInv, AddsInv, Fits
  <2>5. MovesInv(g)'
    BY <1>1, <1>2, <1>5 DEF OrderInv, MovesInv, MoveOK
  <2> QED BY <2>1, <2>2, <2>3, <2>4, <2>5
<1>8. ASSUME NEW t \in All PROVE Course(g, pc[t], loc[t])'
  <2>1. PICK p, l : p = pc[t] /\ l = loc[t]
    OBVIOUS
  <2>2. Course(g, p, l)
    BY <2>1 DEF OrderInv
  <2>3. Course(g, p, l)'
    <3>1. /\ \A x, k : Upper(g, x, k)' <=> Upper(g, x, k)
          /\ \A c, s, k : Fits(g, c, s, k)' <=> Fits(g, c, s, k)
      BY <1>1, <1>5 DEF Upper, Fits
    <3>2. \A x : Good(g, x, l)' <=> Good(g, x, l)
      BY <1>1, <3>1 DEF Good
    <3>3. /\ Leads(g, l)' <=> Leads(g, l)
          /\ Bounded(g, l)' <=> Bounded(g, l)
          /\ FitsHere(g, l)' <=> FitsHere(g, l)
      BY <1>1, <1>5, <1>6, <3>1, <3>2 DEF Leads, Bounded, FitsHere, IsHere
    <3>4. /\ RightTurn(g, l)' <=> RightTurn(g, l)
          /\ KeyAtDest(l)' <=> KeyAtDest(l)
          /\ Follows(g, l)' <=> Follows(g, l)
          /\ Chosen(l)' <=> Chosen(l)
          /\ (IsHere(l)' <=> IsHere(l)) /\ (AtDest(l)' <=> AtDest(l))
      BY <1>1, <3>3 DEF RightTurn, KeyAtDest, Follows, Chosen, IsHere, AtDest
    <3> QED BY <1>1, <1>5, <1>6, <2>2, <3>2, <3>3, <3>4 DEF Course
  <2> QED BY <1>1, <2>1, <2>3
<1> QED BY <1>7, <1>8 DEF OrderInv

LEMMA CASesOrder ==
    ASSUME Inv, Heap', Advance, NEW g \in Labels, OrderInv(g), NEW t \in All, CAS(t, loc[t])
    PROVE  \E h \in Labels : OrderInv(h)'
<1>1. PICK l : l = loc[t]
  OBVIOUS
<1>2. CASE pc[t] = "InsertCAS" /\ InsertCAS(t, l)
  BY <1>1, <1>2, InsertCASOrder
<1>3. CASE pc[t] = "DeleteMark" /\ DeleteMark(t, l)
  BY <1>1, <1>3, DeleteMarkOrder
<1>4. CASE pc[t] = "DeleteRelocate" /\ DeleteRelocate(t, l)
  BY <1>1, <1>4, DeleteRelocateOrder
<1>5. CASE pc[t] = "MarkedCAS" /\ MarkedCAS(t, l)
  BY <1>1, <1>5, MarkedCASOrder
<1>6. CASE pc[t] = "ChildCAS" /\ ChildCAS(t, l, desc[l.helped])
  BY <1>1, <1>6, ChildCASOrder
<1>7. CASE pc[t] = "ChildCASDone" /\ ChildCASDone(t, l)
  BY <1>1, <1>7, ChildCASDoneOrder
<1>8. CASE pc[t] = "RelocateDest" /\ RelocateDest(t, l, desc[l.helped])
  BY <1>1, <1>8, RelocateDestOrder
<1>9. CASE pc[t] = "RelocateSucceed" /\ RelocateSucceed(t, l)
  BY <1>1, <1>9, StateOrder
<1>10. CASE pc[t] = "RelocateFail" /\ RelocateFail(t, l)
  BY <1>1, <1>10, StateOrder
<1>11. CASE pc[t] = "RelocateKey" /\ RelocateKey(t, l, desc[l.helped])
  BY <1>1, <1>11, RelocateKeyOrder
<1>12. CASE pc[t] = "RelocateUnflag" /\ RelocateUnflag(t, l, desc[l.helped])
  BY <1>1, <1>12, RelocateUnflagOrder
<1>13. CASE pc[t] = "RelocateMark" /\ RelocateMark(t, l, desc[l.helped])
  BY <1>1, <1>13, RelocateMarkOrder
<1> QED BY <1>1, <1>2, <1>3, <1>4, <1>5, <1>6, <1>7, <1>8, <1>9, <1>10, <1>11, <1>12, <1>13 DEF CAS, At

(* The nodes of the tree have an order, along which the keys grow. *)
Ordered == \E g \in Labels : OrderInv(g)

THEOREM NextOrder == Inv /\ Ordered /\ [Next]_vars => Ordered'
<1> SUFFICES ASSUME Inv, NEW g \in Labels, OrderInv(g), [Next]_vars PROVE \E h \in Labels : OrderInv(h)'
  BY DEF Ordered
<1>1. Heap' /\ Advance
  BY NextInv DEF Inv
<1>2. CASE Fill
  BY <1>1, <1>2, EnterOrder DEF Fill, All
<1>3. ASSUME NEW t \in Threads, NEW fn \in {"insert", "delete", "search"}, NEW k \in Keys[t], Call(t, fn, k)
      PROVE  \E h \in Labels : OrderInv(h)'
  BY <1>1, <1>3, EnterOrder DEF Call, All
<1>4. ASSUME NEW t \in All, Work(t) PROVE \E h \in Labels : OrderInv(h)'
  BY <1>1, <1>4, LoadsOrder, CASesOrder DEF Work
<1>5. CASE UNCHANGED vars
  BY <1>1, <1>5, StutterOrder
<1> QED BY <1>2, <1>3, <1>4, <1>5 DEF Next

(* The root alone. *)
THEOREM InitOrder == Init => Ordered
<1> SUFFICES ASSUME Init PROVE Ordered
  OBVIOUS
<1>1. Inv
  BY InitInv
<1>2. /\ Nodes = {Root} /\ Len(desc) = 0 /\ key[Root] = -1 /\ op[Root].flag = "NONE"
      /\ child[Root] = NoChildren
  BY DEF Init, Nodes, Root, NullWord, Word
<1>3. Tree = {Root} /\ Root \in Nat
  BY <1>1, <1>2, TreeFacts DEF Inv, Root
<1>4. PICK g : g = [lo |-> [x \in Nat |-> 0], pos |-> [x \in Nat |-> 1], hi |-> [x \in Nat |-> 2]]
  OBVIOUS
<1>5. g \in Labels /\ g.lo[Root] = 0 /\ g.pos[Root] = 1 /\ g.hi[Root] = 2
  BY <1>3, <1>4 DEF Labels
<1>6. Shape(Tree, child, g)
  <2>1. child[Root].left.null /\ child[Root].right.null
    BY <1>2 DEF NoChildren, SetNull
  <2>2. \A y : child[Root].left # Ptr(y) /\ child[Root].right # Ptr(y)
    BY <2>1 DEF Ptr
  <2>3. Placed(Tree, child, g, Root)
    BY <1>3, <1>5, <2>1, <2>2 DEF Placed
  <2> QED BY <1>3, <2>3 DEF Shape
<1>7. KeysInv(g)
  BY <1>2, <1>3, <1>5 DEF KeysInv
<1>8. MarkedInv /\ AddsInv(g) /\ MovesInv(g)
  BY <1>2 DEF MarkedInv, AddsInv, MovesInv, Waiting
<1>9. ASSUME NEW t \in All PROVE Course(g, pc[t], loc[t])
  <2>1. pc[t] = "idle" /\ loc[t] = NoLocals
    BY DEF Init
  <2>2. KeyAtDest(NoLocals)
    BY DEF KeyAtDest, NoLocals
  <2> QED BY <2>1, <2>2, Elsewhere
<1> QED BY <1>5, <1>6, <1>7, <1>8, <1>9 DEF Ordered, OrderInv

(* The tree has such an order at all times. *)
THEOREM AlwaysOrdered == Spec => [](Inv /\ Ordered)
<1>1. Init => Inv /\ Ordered
  BY InitInv, InitOrder
<1>2. Inv /\ Ordered /\ [Next]_vars => (Inv /\ Ordered)'
  BY NextInv, NextOrder
<1> QED BY <1>1, <1>2, PTL DEF Spec

-----------------------------------------------------------------------------
(* What can be reached. *)

LEMMA BelowIs ==
    ASSUME NEW p, ~p.null, NEW m, m \in Below(p)
    PROVE  m \in Nodes /\ \A C \in SUBSET Nodes : p.node \in C /\ Closed(C) => m \in C
BY DEF Below

LEMMA ReachableIs ==
    \A m : m \in Reachable <=> m \in Nodes /\ \A C \in SUBSET Nodes : Root \in C /\ Closed(C) => m \in C
<1>1. ~Ptr(Root).null /\ Ptr(Root).node = Root
  BY DEF Ptr
<1> QED BY <1>1 DEF Reachable, Below

(* What can be reached is in the tree, and what is below a node is inside  *)
(* its bounds.                                                             *)
LEMMA ReachableInTree ==
    ASSUME Heap
    PROVE  Reachable \subseteq Tree
<1>1. Closed(Tree) /\ Root \in Tree /\ Tree \subseteq Nodes
  BY TreeFacts DEF Closed
<1> QED BY <1>1, ReachableIs

LEMMA BelowInBounds ==
    ASSUME Heap, NEW g \in Labels, Shape(Tree, child, g), NEW c \in Tree, NEW p, ~p.null, p.node = c,
           NEW m, m \in Below(p)
    PROVE  m \in Tree /\ g.lo[c] < g.pos[m] /\ g.pos[m] < g.hi[c]
<1>1. PICK C : C = {x \in Tree : g.lo[c] <= g.lo[x] /\ g.hi[x] <= g.hi[c]}
  OBVIOUS
<1>2. \A x \in Tree : g.lo[x] \in Int /\ g.pos[x] \in Int /\ g.hi[x] \in Int
                      /\ g.lo[x] < g.pos[x] /\ g.pos[x] < g.hi[x]
  BY ChildPlaces
<1>3. C \subseteq Nodes /\ c \in C
  BY <1>1, <1>2, TreeFacts
<1>4. Closed(C)
  <2> SUFFICES ASSUME NEW x \in C, NEW s \in Sides, ~child[x][s].null PROVE child[x][s].node \in C
    BY DEF Closed
  <2>1. x \in Tree /\ g.lo[c] <= g.lo[x] /\ g.hi[x] <= g.hi[c]
    BY <1>1
  <2>2. PICK y : y = child[x][s].node
    OBVIOUS
  <2>3. y \in Tree /\ g.lo[x] <= g.lo[y] /\ g.hi[y] <= g.hi[x]
    <3>1. CASE s = "left"
      <4>1. y \in Tree /\ g.lo[y] = g.lo[x] /\ g.hi[y] = g.pos[x]
        BY <2>1, <2>2, <3>1, ChildPlaces
      <4> QED BY <1>2, <2>1, <4>1
    <3>2. CASE s = "right"
      <4>1. y \in Tree /\ g.lo[y] = g.pos[x] /\ g.hi[y] = g.hi[x]
        BY <2>1, <2>2, <3>2, ChildPlaces
      <4> QED BY <1>2, <2>1, <4>1
    <3> QED BY <3>1, <3>2 DEF Sides
  <2>4. g.lo[c] <= g.lo[y] /\ g.hi[y] <= g.hi[c]
    BY <1>2, <2>1, <2>3
  <2> QED BY <1>1, <2>2, <2>3, <2>4
<1>5. m \in C
  BY <1>3, <1>4, BelowIs
<1> QED BY <1>1, <1>2, <1>5

(* A traversal that starts now is never misled: the nodes in reach are in  *)
(* search order at every moment, and two have the same key only while the  *)
(* one whose key has moved waits to be taken out (lockfree.cpp:97-106,     *)
(* 224).                                                                   *)
THEOREM SearchOrderHolds == Spec => []SearchOrder
<1>1. Inv /\ Ordered => SearchOrder
  <2> SUFFICES ASSUME Inv, NEW g \in Labels, OrderInv(g), NEW n \in Reachable
               PROVE  /\ \A m \in Below(child[n].left) : key[m] < key[n]
                      /\ \A m \in Below(child[n].right) :
                           key[m] > key[n] \/ (key[m] = key[n] /\ Leaves(m))
    BY DEF Ordered, SearchOrder
  <2>1. Heap /\ Shape(Tree, child, g) /\ KeysInv(g)
    BY DEF Inv, OrderInv
  <2>2. n \in Tree
    BY <2>1, ReachableInTree
  <2>3. ASSUME NEW m \in Below(child[n].left) PROVE key[m] < key[n]
    <3>1. ~child[n].left.null
      BY <2>3 DEF Below
    <3>2. PICK c : c = child[n].left.node
      OBVIOUS
    <3>3. c \in Tree /\ g.hi[c] = g.pos[n]
      BY <2>1, <2>2, <3>1, <3>2, ChildPlaces
    <3>4. m \in Tree /\ g.pos[m] < g.pos[n]
      BY <2>1, <3>1, <3>2, <3>3, BelowInBounds
    <3> QED BY <2>1, <2>2, <3>1, <3>4, KeyOrder
  <2>4. ASSUME NEW m \in Below(child[n].right) PROVE key[m] > key[n] \/ (key[m] = key[n] /\ Leaves(m))
    <3>1. ~child[n].right.null
      BY <2>4 DEF Below
    <3>2. PICK c : c = child[n].right.node
      OBVIOUS
    <3>3. c \in Tree /\ g.lo[c] = g.pos[n]
      BY <2>1, <2>2, <3>1, <3>2, ChildPlaces
    <3>4. m \in Tree /\ g.pos[n] < g.pos[m]
      BY <2>1, <3>1, <3>2, <3>3, BelowInBounds
    <3>5. key[n] < key[m] \/ (key[n] = key[m] /\ Leaves(m))
      BY <2>1, <2>2, <3>4, KeyOrder
    <3>6. key[n] \in Int /\ key[m] \in Int
      BY <2>1, <2>2, <3>4, TreeFacts, KeyTypes
    <3> QED BY <3>5, <3>6
  <2> QED BY <2>3, <2>4
<1> QED BY <1>1, AlwaysOrdered, PTL

-----------------------------------------------------------------------------
(* Which steps change what is in the tree. *)

(* Nothing that is there: keys and children stay what they are, and a new  *)
(* node waits to be linked.                                                *)
Still ==
    /\ Len(key) <= Len(key')
    /\ \A n \in Nodes' \ Nodes : Hidden(n)'
    /\ \A n \in Nodes : key'[n] = key[n]
    /\ \A n \in Nodes, s \in Sides : child'[n][s] = child[n][s]

LEMMA InsertStill ==
    ASSUME Heap, NEW t, NEW l, Place("InsertCAS", l), InsertCAS(t, l)
    PROVE  Still
<1>1. /\ Len(key) \in Nat /\ key \in Seq(AllKeys \cup {-1}) /\ Len(child) = Len(key)
      /\ child \in Seq([Sides -> [null : BOOLEAN, node : Nat]])
      /\ op \in Seq(Words) /\ Len(op) = Len(key) /\ desc \in Seq(Range(desc)) /\ Len(desc) \in Nat
  BY HeapTypes DEF Heap, HeapInv
<1>2. CASE UNCHANGED heap
  <2>1. key' = key /\ child' = child
    BY <1>2 DEF heap
  <2>2. Nodes' \ Nodes = {}
    BY <2>1 DEF Nodes
  <2> QED BY <1>1, <2>1, <2>2 DEF Still
<1>3. PICK i, z, d, w : /\ i = Len(desc) + 1 /\ z = Len(key) + 1 /\ w = Word("CHILDCAS", i)
                        /\ d = ChildCASOp(FoundSide(l), l.old, Ptr(z))
  OBVIOUS
<1>4. CASE /\ op[l.curr] = l.curr_op
           /\ op' = Append([op EXCEPT ![l.curr] = w], NullWord)
           /\ key' = Append(key, l.k) /\ child' = Append(child, NoChildren)
           /\ desc' = Append(desc, d)
  <2>1. SetNull(NoNode) \in [null : BOOLEAN, node : Nat]
    BY DEF SetNull, NoNode
  <2>2. NoChildren \in [Sides -> [null : BOOLEAN, node : Nat]]
    BY <2>1 DEF NoChildren, Sides
  <2>3. l.k \in AllKeys /\ l.curr \in Nodes
    BY DEF Place, Inserting, Seen, Known
  <2>4. Len(key') = Len(key) + 1 /\ \A n \in Nodes : key'[n] = key[n] /\ child'[n] = child[n]
    BY <1>1, <1>4, <2>2, <2>3, AppendProperties DEF Nodes
  <2>5. op'[l.curr] = w
    <3>1. w \in Words /\ NullWord \in Words
      BY <1>1, <1>3 DEF Word, NullWord, Words, Flags
    <3>2. [op EXCEPT ![l.curr] = w] \in Seq(Words) /\ Len([op EXCEPT ![l.curr] = w]) = Len(op)
          /\ [op EXCEPT ![l.curr] = w][l.curr] = w
      BY <1>1, <2>3, <3>1, ExceptSeq DEF Nodes
    <3> QED BY <1>1, <1>4, <2>3, <3>1, <3>2, AppendProperties DEF Nodes
  <2>6. desc'[i] = d
    <3>1. d \in Range(desc) \cup {d} /\ desc \in Seq(Range(desc) \cup {d})
      BY <1>1, SeqMonotonic
    <3> QED BY <1>1, <1>3, <1>4, <3>1, AppendProperties
  <2>7. l.found # "FOUND" /\ EndsHere(l) /\ child[l.curr][FoundSide(l)] = l.old
    BY <1>4 DEF Place, Inserting
  <2>8. l.old.null /\ child'[l.curr][FoundSide(l)] = l.old
    BY <1>4, <2>3, <2>4, <2>7 DEF EndsHere
  <2>9. d.side = FoundSide(l) /\ d.expected = l.old /\ d.update = Ptr(z) /\ w.flag = "CHILDCAS" /\ w.op = i
    BY <1>3 DEF ChildCASOp, Word
  <2>10. Waiting(l.curr)' /\ desc'[op'[l.curr].op].expected.null /\ desc'[op'[l.curr].op].update = Ptr(z)
    BY <2>5, <2>6, <2>8, <2>9 DEF Waiting
  <2>11. l.curr \in Nodes' /\ \A n \in Nodes' \ Nodes : n = z
    BY <1>1, <1>3, <2>3, <2>4 DEF Nodes
  <2>12. \A n \in Nodes' \ Nodes : Hidden(n)'
    BY <2>10, <2>11 DEF Hidden
  <2> QED BY <1>1, <2>4, <2>12 DEF Still
<1> QED BY <1>2, <1>3, <1>4 DEF InsertCAS

LEMMA CASSteps ==
    ASSUME Inv, NEW t \in All, CAS(t, loc[t])
    PROVE  \/ Still
           \/ pc[t] = "ChildCAS" /\ ChildCAS(t, loc[t], desc[loc[t].helped])
           \/ pc[t] = "RelocateKey" /\ RelocateKey(t, loc[t], desc[loc[t].helped])
<1>1. PICK l : l = loc[t]
  OBVIOUS
<1>2. Len(key) \in Nat
  BY HeapTypes DEF Inv
<1>3. (key' = key /\ child' = child) \/ UNCHANGED heap => Still
  BY <1>2 DEF Still, heap, Nodes
<1>4. CASE pc[t] = "InsertCAS" /\ InsertCAS(t, l)
  <2>1. Heap /\ Place("InsertCAS", l)
    BY <1>1, <1>4, Here
  <2> QED BY <1>4, <2>1, InsertStill
<1>5. CASE DeleteMark(t, l) \/ ChildCASDone(t, l)
  BY <1>3, <1>5 DEF DeleteMark, ChildCASDone, CASOp
<1>6. CASE DeleteRelocate(t, l) \/ MarkedCAS(t, l)
  BY <1>3, <1>6 DEF DeleteRelocate, MarkedCAS
<1>7. CASE RelocateDest(t, l, desc[l.helped]) \/ RelocateUnflag(t, l, desc[l.helped])
  BY <1>3, <1>7 DEF RelocateDest, RelocateUnflag, CASOp
<1>8. CASE RelocateSucceed(t, l) \/ RelocateFail(t, l)
  BY <1>3, <1>8 DEF RelocateSucceed, RelocateFail, CASState
<1>9. CASE RelocateMark(t, l, desc[l.helped])
  BY <1>3, <1>9 DEF RelocateMark, CASOp
<1> QED BY <1>1, <1>4, <1>5, <1>6, <1>7, <1>8, <1>9 DEF CAS, At

LEMMA Steps ==
    ASSUME Inv, [Next]_vars
    PROVE  \/ Still
           \/ \E t \in All : pc[t] = "ChildCAS" /\ ChildCAS(t, loc[t], desc[loc[t].helped])
           \/ \E t \in All : pc[t] = "RelocateKey" /\ RelocateKey(t, loc[t], desc[loc[t].helped])
<1>1. key' = key /\ child' = child => Still
  BY HeapTypes DEF Inv, Still, Nodes
<1>2. CASE Fill \/ UNCHANGED vars
  BY <1>1, <1>2 DEF Fill, Enter, heap, vars
<1>3. CASE \E t \in Threads, fn \in {"insert", "delete", "search"} : \E k \in Keys[t] : Call(t, fn, k)
  BY <1>1, <1>3 DEF Call, Enter, heap
<1>4. ASSUME NEW t \in All, Load(t, loc[t]) PROVE Still
  BY <1>1, <1>4 DEF Load, heap
<1>5. ASSUME NEW t \in All, CAS(t, loc[t])
      PROVE  \/ Still
             \/ pc[t] = "ChildCAS" /\ ChildCAS(t, loc[t], desc[loc[t].helped])
             \/ pc[t] = "RelocateKey" /\ RelocateKey(t, loc[t], desc[loc[t].helped])
  BY <1>5, CASSteps
<1> QED BY <1>2, <1>3, <1>4, <1>5 DEF Next, Work

(* A key is only ever replaced by the one that the operation brings. *)
LEMMA KeysMove == ASSUME Inv, Ordered, [Next]_vars PROVE KeysTurn
<1>1. Heap' /\ Advance
  BY NextInv DEF Inv
<1>2. PICK g \in Labels : OrderInv(g)
  BY DEF Ordered
<1>3. CASE Still
  BY <1>3 DEF Still, KeysTurn
<1>4. ASSUME NEW t \in All, pc[t] = "ChildCAS", ChildCAS(t, loc[t], desc[loc[t].helped])
      PROVE  KeysTurn
  BY <1>4 DEF ChildCAS, KeysTurn
<1>5. ASSUME NEW t \in All, pc[t] = "RelocateKey", RelocateKey(t, loc[t], desc[loc[t].helped])
      PROVE  KeysTurn
  <2>1. PICK l : l = loc[t]
    OBVIOUS
  <2> QED BY <1>1, <1>2, <1>5, <2>1, RelocateKeyOrder
<1> QED BY <1>3, <1>4, <1>5, Steps

(* The key of a node only grows, for as long as the node exists and        *)
(* whatever helper runs late, so that the CAS on a key meets the key it    *)
(* expects at most once; and it does not change in a marked node           *)
(* (lockfree.cpp:165, 224).                                                *)
THEOREM KeysGrow == Spec => KeysOnlyGrow
<1>1. Inv /\ Ordered /\ [Next]_vars =>
        \A n \in Nodes :
          LET d == desc[op[n].op]
          IN  /\ key'[n] >= key[n]
              /\ op[n].flag = "MARK" => key'[n] = key[n]
              /\ Receives(n) => {key[n], key'[n]} \subseteq {d.key_to_remove, d.key_to_put}
  <2> SUFFICES ASSUME Inv, NEW g \in Labels, OrderInv(g), [Next]_vars, NEW n \in Nodes,
                      NEW i, i = op[n].op, NEW d, d = desc[i]
               PROVE  /\ key'[n] >= key[n]
                      /\ op[n].flag = "MARK" => key'[n] = key[n]
                      /\ Receives(n) => {key[n], key'[n]} \subseteq {d.key_to_remove, d.key_to_put}
    BY DEF Ordered
  <2>1. KeysTurn
    BY KeysMove DEF Ordered
  <2>2. key[n] \in Int /\ key'[n] \in Int
    <3>1. Heap /\ Heap' /\ Advance
      BY NextInv DEF Inv
    <3>2. n \in Nodes'
      BY <3>1, HeapTypes DEF Nodes, Advance, Forward
    <3> QED BY <3>1, <3>2, KeyTypes, KeyTypesNext
  <2>3. key'[n] >= key[n] /\ (op[n].flag = "MARK" => key'[n] = key[n])
    BY <2>1, <2>2 DEF KeysTurn, Receives
  <2>4. ASSUME Receives(n) PROVE {key[n], key'[n]} \subseteq {d.key_to_remove, d.key_to_put}
    <3>1. op[n].flag = "RELOCATE" /\ d.dest = n
      BY <2>4 DEF Receives
    <3>2. IsRelocate(i) /\ op[n] = Word("RELOCATE", i)
      BY <3>1 DEF Inv, Heap, HeapInv, Words, Word
    <3>3. MoveOK(g, i)
      BY <3>2 DEF OrderInv, MovesInv, IsRelocate
    <3>4. key[n] \in {d.key_to_remove, d.key_to_put}
      BY <3>1, <3>2, <3>3 DEF MoveOK
    <3>5. key'[n] \in {key[n], d.key_to_put}
      BY <2>1 DEF KeysTurn
    <3> QED BY <3>4, <3>5
  <2> QED BY <2>3, <2>4
<1> QED BY <1>1, AlwaysOrdered, PTL DEF Spec, KeysOnlyGrow

-----------------------------------------------------------------------------
(* What a step takes out of reach. *)

(* A set of nodes that a traversal from the root does not leave. *)
Around(C) == C \in SUBSET Nodes /\ Root \in C /\ Closed(C)

LEMMA InReach == \A m : m \in Reachable <=> m \in Nodes /\ \A C : Around(C) => m \in C
BY ReachableIs DEF Around

LEMMA InReachNext == \A m : m \in Reachable' <=> m \in Nodes' /\ \A C : Around(C)' => m \in C
<1>1. (\A m : m \in Reachable <=> m \in Nodes /\ \A C : Around(C) => m \in C)'
  BY InReach, PTL
<1> QED BY <1>1

(* What is not gone is in reach. *)
Joined == Tree \subseteq Reachable

(* What RemovalIsFinal says of a step. *)
RemovalTurn ==
    /\ Cardinality(Reachable \ Reachable') <= 1
    /\ \A n \in Reachable \ Reachable' : op[n].flag = "MARK"
    /\ \A n \in Reachable' \ Reachable : n \in Nodes => op[n].flag # "MARK"

LEMMA AtMostOne ==
    ASSUME NEW e, Reachable \ Reachable' \subseteq {e}
    PROVE  Cardinality(Reachable \ Reachable') <= 1
<1>1. PICK S : S = Reachable \ Reachable'
  OBVIOUS
<1>2. S = {} \/ S = {e}
  BY <1>1
<1>3. Cardinality(S) = 0 \/ Cardinality(S) = 1
  BY <1>2, FS_EmptySet, FS_Singleton
<1> QED BY <1>1, <1>3

(* Where no pointer changes, the same nodes are in reach. *)
LEMMA StillReach ==
    ASSUME Heap, Nodes \subseteq Nodes', \A n \in Nodes, s \in Sides : child'[n][s] = child[n][s]
    PROVE  RemovalTurn /\ Reachable \subseteq Reachable'
<1>1. ASSUME NEW C, Around(C)' PROVE Around(C \cap Nodes)
  <2>1. \A n \in Nodes, s \in Sides : ~child[n][s].null => child[n][s].node \in Nodes
    BY HeapTypes DEF Heap, HeapInv, Pointers, Nodes, Root
  <2>2. Root \in Nodes /\ Root \in C
    BY <1>1, HeapTypes DEF Around
  <2>3. ASSUME NEW n \in C \cap Nodes, NEW s \in Sides PROVE child[n][s].null \/ child[n][s].node \in C
    BY <1>1, <2>3 DEF Around, Closed
  <2> QED BY <2>1, <2>2, <2>3 DEF Around, Closed
<1>2. ASSUME NEW C, Around(C) PROVE Around(C)'
  <2>1. ASSUME NEW n \in C, NEW s \in Sides PROVE child'[n][s].null \/ child'[n][s].node \in C
    BY <1>2 DEF Around, Closed
  <2>2. C \in SUBSET Nodes' /\ Root \in C
    BY <1>2 DEF Around
  <2> QED BY <2>1, <2>2 DEF Around, Closed
<1>3. ASSUME NEW m \in Reachable PROVE m \in Reachable'
  BY <1>1, InReach, InReachNext
<1>4. ASSUME NEW m \in Reachable', m \in Nodes PROVE m \in Reachable
  BY <1>2, <1>4, InReach, InReachNext
<1>5. Reachable \ Reachable' = {}
  BY <1>3
<1>6. Cardinality(Reachable \ Reachable') <= 1
  BY <1>5, AtMostOne
<1> QED BY <1>3, <1>4, <1>5, <1>6 DEF RemovalTurn

(* A new node comes into reach, alone. *)
LEMMA AddReach ==
    ASSUME NEW n, NEW i, NEW d, Linkage(n, i, d), d.expected.null, child[n][d.side] = d.expected
    PROVE  RemovalTurn /\ (Joined => Joined')
<1>1. PICK z : z = d.update.node
  OBVIOUS
<1>2. /\ ~d.update.null /\ z \in Nodes /\ z # n /\ op[z].flag = "NONE"
      /\ \A s \in Sides : child[z][s].null
      /\ child'[n][d.side] = d.update /\ Nodes' = Nodes /\ n \in Tree
      /\ \A m \in Nodes, s \in Sides : m # n \/ s # d.side => child'[m][s] = child[m][s]
  BY <1>1 DEF Linkage, Adds, NullWord, Word, NoChildren, SetNull, Sides
<1>3. ASSUME NEW C, Around(C)' PROVE Around(C)
  <2>1. ASSUME NEW x \in C, NEW s \in Sides PROVE child[x][s].null \/ child[x][s].node \in C
    <3>1. x \in Nodes
      BY <1>2, <1>3 DEF Around
    <3>2. CASE x = n /\ s = d.side
      BY <3>2
    <3>3. CASE x # n \/ s # d.side
      <4>1. child'[x][s] = child[x][s]
        BY <1>2, <3>1, <3>3
      <4>2. child'[x][s].null \/ child'[x][s].node \in C
        BY <1>3 DEF Around, Closed
      <4> QED BY <4>1, <4>2
    <3> QED BY <3>2, <3>3
  <2>2. C \in SUBSET Nodes /\ Root \in C
    BY <1>2, <1>3 DEF Around
  <2> QED BY <2>1, <2>2 DEF Around, Closed
<1>4. ASSUME NEW C, Around(C) PROVE Around(C \cup {z})'
  <2>1. ASSUME NEW x \in C \cup {z}, NEW s \in Sides
        PROVE  child'[x][s].null \/ child'[x][s].node \in C \cup {z}
    <3>1. x \in Nodes
      BY <1>2, <1>4 DEF Around
    <3>2. CASE x = n /\ s = d.side
      BY <1>1, <1>2, <3>2
    <3>3. CASE x # n \/ s # d.side
      <4>1. child'[x][s] = child[x][s]
        BY <1>2, <3>1, <3>3
      <4>2. child[x][s].null \/ child[x][s].node \in C
        BY <1>2, <1>4 DEF Around, Closed
      <4> QED BY <4>1, <4>2
    <3> QED BY <3>2, <3>3
  <2>2. C \cup {z} \in SUBSET Nodes' /\ Root \in C \cup {z}
    BY <1>2, <1>4 DEF Around
  <2> QED BY <2>1, <2>2 DEF Around, Closed
<1>5. ASSUME NEW m \in Reachable PROVE m \in Reachable'
  BY <1>2, <1>3, InReach, InReachNext
<1>6. ASSUME NEW m \in Reachable', m # z PROVE m \in Reachable
  <2>1. m \in Nodes
    BY <1>2, InReachNext
  <2>2. ASSUME NEW C, Around(C) PROVE m \in C
    <3>1. Around(C \cup {z})'
      BY <1>4, <2>2
    <3>2. m \in C \cup {z}
      BY <3>1, InReachNext
    <3> QED BY <1>6, <3>2
  <2> QED BY <2>1, <2>2, InReach
<1>7. Reachable \ Reachable' = {}
  BY <1>5
<1>8. Cardinality(Reachable \ Reachable') <= 1
  BY <1>7, AtMostOne
<1>9. ASSUME Joined PROVE Joined'
  <2>1. Tree' = Tree \cup {z} /\ n \in Reachable'
    BY <1>1, <1>2, <1>5, <1>9 DEF Linkage, Joined
  <2>2. ASSUME NEW C, Around(C)' PROVE z \in C
    <3>1. n \in C
      BY <2>1, <2>2, InReachNext
    <3>2. d.side \in Sides /\ ~child'[n][d.side].null /\ child'[n][d.side].node = z
      BY <1>1, <1>2 DEF Linkage
    <3> QED BY <2>2, <3>1, <3>2 DEF Around, Closed
  <2>3. z \in Reachable'
    BY <1>2, <2>2, InReachNext
  <2> QED BY <1>5, <1>9, <2>1, <2>3 DEF Joined
<1> QED BY <1>2, <1>6, <1>7, <1>8, <1>9 DEF RemovalTurn

(* A marked node goes out of reach, alone: its parent takes its child. *)
LEMMA TakeOutReach ==
    ASSUME MarkedInv, Heap, NEW n, NEW i, NEW d, Linkage(n, i, d), ~d.expected.null,
           child[n][d.side] = d.expected
    PROVE  RemovalTurn /\ (Joined => Joined')
<1>1. PICK e : e = d.expected.node
  OBVIOUS
<1>2. /\ e \in Nodes /\ e # n /\ op[e].flag = "MARK"
      /\ child'[n][d.side] = Replacement(e) /\ Nodes' = Nodes /\ n \in Nodes /\ d.side \in Sides
      /\ \A m \in Nodes, s \in Sides : m # n \/ s # d.side => child'[m][s] = child[m][s]
  <2>1. Tree \subseteq Nodes
    BY TreeFacts
  <2> QED BY <1>1, <2>1 DEF Linkage
<1>3. \/ Replacement(e).null /\ \A s \in Sides : child[e][s].null
      \/ \E s \in Sides : /\ Replacement(e) = child[e][s]
                         /\ \A r \in Sides : r # s => child[e][r].null
  <2>1. child[e].left.null \/ child[e].right.null
    BY <1>2 DEF MarkedInv, Sides
  <2> QED BY <2>1 DEF Replacement, SetNull, Sides
<1>4. ASSUME NEW C
      PROVE  Replacement(e).null \/ Replacement(e).node \in C
               <=> \A s \in Sides : child[e][s].null \/ child[e][s].node \in C
  BY <1>3
<1>5. ASSUME NEW C, Around(C)' PROVE Around(C) \/ Around(C \cup {e})
  <2>1. C \in SUBSET Nodes /\ Root \in C
    BY <1>2, <1>5 DEF Around
  <2>2. ASSUME NEW x \in C, NEW s \in Sides, x # n \/ s # d.side
        PROVE  child[x][s].null \/ child[x][s].node \in C
    <3>1. child'[x][s] = child[x][s]
      BY <1>2, <2>1, <2>2
    <3>2. child'[x][s].null \/ child'[x][s].node \in C
      BY <1>5 DEF Around, Closed
    <3> QED BY <3>1, <3>2
  <2>3. CASE n \notin C
    <3>1. \A x \in C, s \in Sides : child[x][s].null \/ child[x][s].node \in C
      BY <2>2, <2>3
    <3> QED BY <2>1, <3>1 DEF Around, Closed
  <2>4. CASE n \in C
    <3>1. child'[n][d.side].null \/ child'[n][d.side].node \in C
      BY <1>2, <1>5, <2>4 DEF Around, Closed
    <3>2. \A s \in Sides : child[e][s].null \/ child[e][s].node \in C
      BY <1>2, <1>4, <3>1
    <3>3. child[n][d.side].node \in C \cup {e}
      BY <1>1
    <3>4. \A x \in C \cup {e}, s \in Sides : child[x][s].null \/ child[x][s].node \in C \cup {e}
      BY <2>2, <3>2, <3>3
    <3>5. C \cup {e} \in SUBSET Nodes /\ Root \in C \cup {e}
      BY <1>2, <2>1
    <3> QED BY <3>4, <3>5 DEF Around, Closed
  <2> QED BY <2>3, <2>4
<1>6. ASSUME NEW C, Around(C) PROVE Around(C)'
  <2>1. C \in SUBSET Nodes' /\ Root \in C
    BY <1>2, <1>6 DEF Around
  <2>2. ASSUME NEW x \in C, NEW s \in Sides PROVE child'[x][s].null \/ child'[x][s].node \in C
    <3>1. CASE x # n \/ s # d.side
      <4>1. child'[x][s] = child[x][s] /\ (child[x][s].null \/ child[x][s].node \in C)
        BY <1>2, <1>6, <2>1, <3>1 DEF Around, Closed
      <4> QED BY <4>1
    <3>2. CASE x = n /\ s = d.side
      <4>1. e \in C
        BY <1>1, <1>6, <3>2 DEF Around, Closed
      <4>2. \A r \in Sides : child[e][r].null \/ child[e][r].node \in C
        BY <1>6, <4>1 DEF Around, Closed
      <4>3. Replacement(e).null \/ Replacement(e).node \in C
        BY <1>4, <4>2
      <4> QED BY <1>2, <3>2, <4>3
    <3> QED BY <3>1, <3>2
  <2> QED BY <2>1, <2>2 DEF Around, Closed
<1>7. ASSUME NEW m \in Reachable, m # e PROVE m \in Reachable'
  <2>1. m \in Nodes'
    BY <1>2, InReach
  <2>2. ASSUME NEW C, Around(C)' PROVE m \in C
    <3>1. m \in C \cup {e}
      BY <1>5, <2>2, InReach
    <3> QED BY <1>7, <3>1
  <2> QED BY <2>1, <2>2, InReachNext
<1>8. ASSUME NEW m \in Reachable' PROVE m \in Reachable
  BY <1>2, <1>6, InReach, InReachNext
<1>9. Reachable \ Reachable' \subseteq {e}
  BY <1>7
<1>10. Cardinality(Reachable \ Reachable') <= 1
  BY <1>9, AtMostOne
<1>11. Tree' = Tree \ {e}
  BY <1>1 DEF Linkage
<1>12. Joined => Joined'
  BY <1>7, <1>11 DEF Joined
<1> QED BY <1>2, <1>8, <1>9, <1>10, <1>12 DEF RemovalTurn

(* Where no pointer changes, what is in reach stays so. *)
LEMMA StillJoined ==
    ASSUME Heap, Heap', Advance, Nodes \subseteq Nodes', \A n \in Nodes' \ Nodes : Hidden(n)',
           \A n \in Nodes, s \in Sides : child'[n][s] = child[n][s], Joined
    PROVE  Joined'
<1>1. Reachable \subseteq Reachable'
  BY StillReach
<1>2. ASSUME NEW n \in Tree' PROVE n \in Tree
  <2>1. n \in Nodes' /\ ~Hidden(n)' /\ ~Gone(n)'
    BY <1>2 DEF Tree, Known
  <2>2. n \in Nodes /\ ~Hidden(n) /\ ~Gone(n)
    BY <2>1, HiddenStays DEF Advance, NewPointers
  <2> QED BY <2>2 DEF Tree, Known
<1> QED BY <1>1, <1>2 DEF Joined

LEMMA ReachTurn ==
    ASSUME Inv, NEW g \in Labels, OrderInv(g), [Next]_vars
    PROVE  RemovalTurn /\ (Joined => Joined')
<1>1. Heap /\ Heap' /\ Advance /\ Nodes \subseteq Nodes' /\ MarkedInv
  <2>1. Heap /\ Heap' /\ Advance
    BY NextInv DEF Inv
  <2>2. Len(key) <= Len(key') /\ Len(key) \in Nat /\ Len(key') \in Nat
    BY <2>1, HeapTypes DEF Advance, Forward
  <2> QED BY <2>1, <2>2 DEF Nodes, OrderInv
<1>2. CASE Still
  <2>1. /\ \A n \in Nodes' \ Nodes : Hidden(n)'
        /\ \A n \in Nodes, s \in Sides : child'[n][s] = child[n][s]
    BY <1>2 DEF Still
  <2> QED BY <1>1, <2>1, StillReach, StillJoined
<1>3. ASSUME child' = child, Nodes' = Nodes PROVE RemovalTurn /\ (Joined => Joined')
  <2>1. /\ \A n \in Nodes' \ Nodes : Hidden(n)'
        /\ \A n \in Nodes, s \in Sides : child'[n][s] = child[n][s]
    BY <1>3
  <2> QED BY <1>1, <2>1, StillReach, StillJoined
<1>4. ASSUME NEW t \in All, pc[t] = "RelocateKey", RelocateKey(t, loc[t], desc[loc[t].helped])
      PROVE  RemovalTurn /\ (Joined => Joined')
  <2>1. child' = child /\ Len(key') = Len(key)
    <3>1. key \in Seq(AllKeys \cup {-1})
      BY <1>1 DEF Heap, HeapInv
    <3> QED BY <1>4, <3>1 DEF RelocateKey
  <2>2. Nodes' = Nodes
    BY <2>1 DEF Nodes
  <2> QED BY <1>3, <2>1, <2>2
<1>5. ASSUME NEW t \in All, pc[t] = "ChildCAS", ChildCAS(t, loc[t], desc[loc[t].helped])
      PROVE  RemovalTurn /\ (Joined => Joined')
  <2>1. PICK l, d, n, i : l = loc[t] /\ d = desc[l.helped] /\ n = l.target /\ i = l.helped
    OBVIOUS
  <2>2. Place("ChildCAS", l) /\ TooLate(l) /\ n \in Nodes
    BY <1>5, <2>1, Here DEF Place, Linking, Links, Known
  <2>3. UNCHANGED <<key, op, desc>> /\ Nodes' = Nodes
    BY <1>5 DEF ChildCAS, Nodes
  <2>4. CASE child[n][d.side] # d.expected
    <3>1. child' = child
      BY <1>5, <2>1, <2>4 DEF ChildCAS
    <3> QED BY <1>3, <2>3, <3>1
  <2>5. CASE child[n][d.side] = d.expected
    <3>1. child' = [child EXCEPT ![n][d.side] = d.update]
      BY <1>5, <2>1, <2>5 DEF ChildCAS
    <3>2. op[n] = Word("CHILDCAS", i)
      BY <2>1, <2>2, <2>5 DEF TooLate
    <3>3. Linkage(n, i, d)
      BY <1>1, <2>1, <2>2, <2>3, <2>5, <3>1, <3>2, LinkStep
    <3> QED BY <1>1, <2>5, <3>3, AddReach, TakeOutReach
  <2> QED BY <2>4, <2>5
<1> QED BY <1>2, <1>4, <1>5, Steps

(* A step takes at most one node out of the tree, and a marked one; a node *)
(* once marked never comes back into reach, however late the CAS of a      *)
(* helper is that still holds a pointer to it (lockfree.cpp:183-204).      *)
THEOREM RemovedForGood == Spec => RemovalIsFinal
<1>1. Inv /\ Ordered /\ [Next]_vars => RemovalTurn
  BY ReachTurn DEF Ordered
<1> QED BY <1>1, AlwaysOrdered, PTL DEF Spec, RemovalIsFinal, RemovalTurn

LEMMA InitJoined == Init => Joined
<1> SUFFICES ASSUME Init PROVE Joined
  OBVIOUS
<1>1. Heap /\ Nodes = {Root}
  BY InitInv DEF Inv, Init, Nodes, Root
<1>2. \A n \in Tree : n = Root
  BY <1>1 DEF Tree
<1>3. Root \in Reachable
  BY <1>1, InReach DEF Around
<1> QED BY <1>2, <1>3 DEF Joined

(* No node is lost: what has been linked and has not been taken out by a   *)
(* change that names it is in reach of a traversal from the root, whatever *)
(* was linked or taken out above it in the meantime (lockfree.cpp:183-204).*)
THEOREM NothingLost == Spec => []Joined
<1>1. Init => Joined
  BY InitJoined
<1>2. Inv /\ Ordered /\ [Next]_vars /\ Joined => Joined'
  BY ReachTurn DEF Ordered
<1> QED BY <1>1, <1>2, AlwaysOrdered, PTL DEF Spec
=============================================================================
