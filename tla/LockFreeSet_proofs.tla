----------------------------- MODULE LockFreeSet_proofs -----------------------------
(***************************************************************************)
(* The non-blocking tree is a set: LSpec implements ConcurrentSet, for any *)
(* number of threads, keys and calls.  A key is in the set as long as a    *)
(* node that does not leave will have it, and by the order of the tree at  *)
(* most one does; an update takes effect at the CAS that makes it          *)
(* irrevocable, whose thread may be another than the caller.               *)
(***************************************************************************)
EXTENDS LockFreeSet, LockFreeOrder_proofs

(* The places of the helpers. *)
Helpers == Marking \cup Linking \cup Relocating

(* What the locals l of a thread at p say about its call.  A helper runs   *)
(* for find or for the update of the thread itself, and only deleteNode    *)
(* has a second find.                                                      *)
CallOK(p, l) ==
    /\ p # "idle" => l.fn \in {"insert", "delete", "search"}
    /\ l.then = "answer" => p \in Helpers
    /\ p \in Helpers => l.then \in {"find", "answer"}
    /\ p \in Inserting => l.fn = "insert"
    /\ p \in Deleting \/ l.start # Root => l.fn = "delete"
    /\ p \in Relocating /\ l.then = "answer" =>
         /\ l.fn = "delete" /\ l.curr # desc[l.helped].dest
         /\ l.k = desc[l.helped].key_to_remove

(* Relocation i is the update of a thread at p with locals l. *)
Own(p, l, i) == p \in Relocating /\ l.then = "answer" /\ l.helped = i

(* A relocation is the update of one thread, which does not leave before   *)
(* its outcome is known.                                                   *)
CallsInv ==
    /\ \A t \in All : CallOK(pc[t], loc[t])
    /\ \A t, u \in All, i \in Nat : Own(pc[t], loc[t], i) /\ Own(pc[u], loc[u], i) => t = u
    /\ \A i \in 1 .. Len(desc) :
         IsRelocate(i) /\ desc[i].state = "ONGOING" => \E t \in All : Own(pc[t], loc[t], i)

(* The history variables. *)
SeenInv ==
    /\ contents = KeySet
    /\ \A t \in All : IF InCall(t) THEN (loc[t].k \in contents) \in seen[t] ELSE seen[t] = {}

(* The nodes whose keys are in the set. *)
Live == {n \in Nodes \ {Root} : ~Leaves(n)}

-----------------------------------------------------------------------------
(* The set is made of the keys of the nodes that do not leave, each once.  *)

(* Nothing else keeps a node out of the set: what is gone is marked, and   *)
(* what waits to be linked hangs on a node in reach.                       *)
LEMMA InTreeIs ==
    ASSUME Heap, Joined, NEW n
    PROVE  n \in InTree /\ ~Leaves(n) <=> n \in Live
<1>1. InTree \subseteq Nodes \ {Root}
  BY DEF InTree
<1>2. ASSUME n \in Live PROVE n \in InTree
  <2>1. n \in Nodes /\ n # Root /\ op[n].flag # "MARK"
    BY <1>2 DEF Live, Leaves
  <2>2. CASE Known(n)
    <3>1. ~Gone(n)
      BY <2>1 DEF Heap, TreeInv
    <3>2. n \in Reachable
      BY <2>1, <2>2, <3>1 DEF Joined, Tree
    <3> QED BY <2>1, <3>2 DEF InTree
  <2>3. CASE ~Known(n)
    <3>1. PICK m \in Nodes : Waiting(m) /\ desc[op[m].op].update = Ptr(n)
      BY <2>1, <2>3 DEF Known, Hidden
    <3>2. op[m].flag = "CHILDCAS"
      BY <3>1 DEF Waiting
    <3>3. m \in Reachable
      BY <3>2, TreeFacts DEF Joined
    <3> QED BY <2>1, <3>1, <3>2, <3>3 DEF InTree
  <2> QED BY <2>2, <2>3
<1> QED BY <1>1, <1>2 DEF Live

LEMMA KeySetIs == Heap /\ Joined => \A k : k \in KeySet <=> \E n \in Live : FinalKey(n) = k
<1> SUFFICES ASSUME Heap, Joined, NEW k PROVE k \in KeySet <=> \E n \in Live : FinalKey(n) = k
  OBVIOUS
<1>1. k \in KeySet <=> \E n : n \in InTree /\ ~Leaves(n) /\ FinalKey(n) = k
  BY DEF KeySet
<1> QED BY <1>1, InTreeIs

LEMMA KeySetIsNext == Heap' /\ Joined' => \A k : k \in KeySet' <=> \E n \in Live' : FinalKey(n)' = k
<1>1. (Heap /\ Joined => \A k : k \in KeySet <=> \E n \in Live : FinalKey(n) = k)'
  BY KeySetIs, PTL
<1> QED BY <1>1

(* The key a node will have is that of a node of the tree, its own or that *)
(* of the one right after it.                                              *)
LEMMA FinalIs ==
    ASSUME Heap, NEW g \in Labels, OrderInv(g), NEW n \in Tree
    PROVE  /\ FinalKey(n) \in Int /\ key[n] <= FinalKey(n)
           /\ \/ FinalKey(n) = key[n]
              \/ \E x \in Tree : FinalKey(n) = key[x] /\ g.lo[x] = g.pos[n] /\ child[x].left.null /\ Leaves(x)
<1>1. n \in Nodes /\ key[n] \in Int
  BY TreeFacts, KeyTypes
<1>2. CASE ~Receives(n)
  BY <1>1, <1>2 DEF FinalKey
<1>3. CASE Receives(n)
  <2>1. PICK i, d, w : i = op[n].op /\ d = desc[i] /\ w = Word("RELOCATE", i)
    OBVIOUS
  <2>2. op[n] = w /\ d.dest = n /\ IsRelocate(i) /\ w.flag = "RELOCATE" /\ w.op = i
    BY <1>1, <1>3, <2>1 DEF Receives, Heap, HeapInv, Words, Word
  <2>3. MoveOK(g, i)
    BY <2>2 DEF OrderInv, MovesInv, IsRelocate
  <2>4. /\ d.key_to_remove \in Int /\ d.key_to_put \in Int /\ d.key_to_remove < d.key_to_put
        /\ key[n] \in {d.key_to_remove, d.key_to_put}
    BY <2>1, <2>2, <2>3 DEF MoveOK
  <2>5. PICK m \in Nodes : m # n /\ op[m] = w
    BY <2>1, <2>2, <2>3 DEF MoveOK
  <2>6. child[m].left.null /\ key[m] = d.key_to_put /\ g.lo[m] = g.pos[n]
    BY <2>1, <2>2, <2>3, <2>5 DEF MoveOK
  <2>7. m \in Tree
    BY <2>2, <2>5, TreeFacts
  <2>8. Leaves(m)
    BY <2>1, <2>2, <2>5 DEF Leaves, Committed
  <2>9. FinalKey(n) = d.key_to_put
    BY <1>3, <2>1 DEF FinalKey
  <2> QED BY <2>4, <2>6, <2>7, <2>8, <2>9
<1> QED BY <1>2, <1>3

(* Along the order, the keys to be grow where nodes do not leave.          *)
LEMMA FinalGrows ==
    ASSUME Heap, NEW g \in Labels, OrderInv(g), NEW n \in Tree, NEW m \in Tree, ~Leaves(m),
           g.pos[n] < g.pos[m]
    PROVE  FinalKey(n) < FinalKey(m)
<1>1. Shape(Tree, child, g) /\ KeysInv(g)
  BY DEF OrderInv
<1>2. /\ key[n] \in Int /\ key[m] \in Int /\ g.pos[n] \in Int /\ g.pos[m] \in Int
      /\ key[n] < key[m]
  BY <1>1, KeyOrder
<1>3. FinalKey(m) \in Int /\ key[m] <= FinalKey(m) /\ FinalKey(n) \in Int
  BY FinalIs
<1>4. CASE FinalKey(n) = key[n]
  BY <1>2, <1>3, <1>4
<1>5. ASSUME NEW x \in Tree, FinalKey(n) = key[x], g.lo[x] = g.pos[n], child[x].left.null, Leaves(x)
      PROVE  FinalKey(n) < FinalKey(m)
  <2>1. g.pos[m] <= g.lo[x] \/ g.pos[x] <= g.pos[m]
    BY <1>1, <1>5, ChildPlaces
  <2>2. g.pos[x] \in Int /\ key[x] \in Int /\ (g.pos[x] = g.pos[m] => x = m)
        /\ (g.pos[x] < g.pos[m] => key[x] < key[m])
    BY <1>1, KeyOrder
  <2>3. g.pos[x] < g.pos[m]
    BY <1>2, <1>5, <2>1, <2>2
  <2> QED BY <1>2, <1>3, <1>5, <2>2, <2>3
<1> QED BY <1>4, <1>5, FinalIs

(* What fits a null pointer is no key to be of the tree. *)
LEMMA FitsNot ==
    ASSUME Heap, NEW g \in Labels, OrderInv(g), NEW c, NEW s, NEW k \in Int, Fits(g, c, s, k), NEW n \in Tree
    PROVE  FinalKey(n) # k
<1>1. \A x \in Tree : key[x] \in Int /\ key[x] # k
  BY TreeFacts, KeyTypes DEF Fits
<1> QED BY <1>1, FinalIs

(* A key fits one null pointer at most. *)
LEMMA FitsOnce ==
    ASSUME Heap, NEW g \in Labels, OrderInv(g), NEW k \in Int,
           NEW a \in Tree, NEW r \in Sides, child[a][r].null, Fits(g, a, r, k),
           NEW b \in Tree, NEW s \in Sides, child[b][s].null, Fits(g, b, s, k)
    PROVE  a = b /\ r = s
<1>1. Shape(Tree, child, g) /\ Tree \subseteq Nat /\ Root \in Tree
  BY TreeFacts DEF OrderInv
<1>2. ASSUME NEW x \in Tree, LeftOf(g, x, a, r), ~LeftOf(g, x, b, s) PROVE FALSE
  <2>1. key[x] \in Int
    BY TreeFacts, KeyTypes
  <2> QED BY <1>2, <2>1 DEF Fits
<1>3. ASSUME NEW x \in Tree, LeftOf(g, x, b, s), ~LeftOf(g, x, a, r) PROVE FALSE
  <2>1. key[x] \in Int
    BY TreeFacts, KeyTypes
  <2> QED BY <1>3, <2>1 DEF Fits
<1>4. ~(g.pos[a] < g.pos[b]) /\ ~(a = b /\ r = "left" /\ s = "right")
  BY <1>1, <1>3, Apart
<1>5. ~(g.pos[b] < g.pos[a]) /\ ~(b = a /\ s = "left" /\ r = "right")
  BY <1>1, <1>2, Apart
<1>6. g.pos[a] \in Int /\ g.pos[b] \in Int /\ (g.pos[a] = g.pos[b] => a = b)
  BY <1>1, LabelTypes DEF Shape
<1> QED BY <1>4, <1>5, <1>6 DEF Sides

(* Where a node that waits to be linked will hang. *)
LEMMA HiddenPlace ==
    ASSUME Heap, NEW g \in Labels, OrderInv(g), NEW n \in Nodes, n \notin Tree, ~Leaves(n)
    PROVE  /\ FinalKey(n) = key[n] /\ key[n] \in Int
           /\ \E a \in Tree, s \in Sides :
                /\ op[a].flag = "CHILDCAS" /\ desc[op[a].op].update = Ptr(n)
                /\ s = desc[op[a].op].side
                /\ child[a][s].null /\ Fits(g, a, s, key[n])
<1>1. Hidden(n)
  BY DEF Tree, Known, Leaves, Heap, TreeInv
<1>2. PICK a \in Nodes : Waiting(a) /\ desc[op[a].op].expected.null /\ desc[op[a].op].update = Ptr(n)
  BY <1>1 DEF Hidden
<1>3. PICK i, d, s : i = op[a].op /\ d = desc[i] /\ s = d.side
  OBVIOUS
<1>4. op[a].flag = "CHILDCAS" /\ a \in Tree /\ child[a][s] = d.expected
  BY <1>2, <1>3, TreeFacts DEF Waiting
<1>5. s \in Sides
  BY <1>2, <1>3, GoneIsNode
<1>6. d.update.node = n
  BY <1>2, <1>3, PtrSame DEF Ptr
<1>7. Fits(g, a, s, key[n])
  BY <1>2, <1>3, <1>6 DEF OrderInv, AddsInv
<1>8. op[n] = NullWord
  BY <1>2, <1>3, <1>6 DEF Heap, PendingInv, Adds
<1>9. FinalKey(n) = key[n] /\ key[n] \in Int
  BY <1>8, KeyTypes DEF FinalKey, Receives, NullWord, Word
<1> QED BY <1>2, <1>3, <1>4, <1>5, <1>7, <1>9

(* Two nodes that do not leave have different keys to be. *)
LEMMA Once ==
    ASSUME Heap, NEW g \in Labels, OrderInv(g), NEW n \in Live, NEW m \in Live, FinalKey(n) = FinalKey(m)
    PROVE  n = m
<1>1. n \in Nodes /\ m \in Nodes /\ ~Leaves(n) /\ ~Leaves(m)
  BY DEF Live
<1>2. CASE n \in Tree /\ m \in Tree
  <2>1. FinalKey(n) \in Int
    BY <1>2, FinalIs
  <2>2. ~(g.pos[n] < g.pos[m]) /\ ~(g.pos[m] < g.pos[n])
    BY <1>1, <1>2, <2>1, FinalGrows
  <2>3. Shape(Tree, child, g) /\ KeysInv(g)
    BY DEF OrderInv
  <2> QED BY <1>2, <2>2, <2>3, KeyOrder
<1>3. CASE n \notin Tree /\ m \in Tree
  BY <1>1, <1>3, HiddenPlace, FitsNot
<1>4. CASE n \in Tree /\ m \notin Tree
  BY <1>1, <1>4, HiddenPlace, FitsNot
<1>5. CASE n \notin Tree /\ m \notin Tree
  <2>1. FinalKey(n) = key[n] /\ FinalKey(m) = key[m] /\ key[n] \in Int /\ key[n] = key[m]
    BY <1>1, <1>5, HiddenPlace
  <2>2. PICK a \in Tree, r \in Sides : /\ desc[op[a].op].update = Ptr(n)
                                      /\ child[a][r].null /\ Fits(g, a, r, key[n])
    BY <1>1, <1>5, HiddenPlace
  <2>3. PICK b \in Tree, s \in Sides : /\ desc[op[b].op].update = Ptr(m)
                                      /\ child[b][s].null /\ Fits(g, b, s, key[n])
    BY <1>1, <1>5, <2>1, HiddenPlace
  <2>4. a = b
    BY <2>1, <2>2, <2>3, FitsOnce
  <2> QED BY <2>2, <2>3, <2>4, PtrSame
<1> QED BY <1>2, <1>3, <1>4, <1>5

(* What fits an undisturbed null pointer is not in the set. *)
LEMMA Absent ==
    ASSUME Heap, Joined, NEW g \in Labels, OrderInv(g), NEW k \in Int,
           NEW c \in Tree, NEW s \in Sides, op[c].flag = "NONE", child[c][s].null, Fits(g, c, s, k)
    PROVE  k \notin KeySet
<1> SUFFICES ASSUME NEW n \in Live, FinalKey(n) = k PROVE FALSE
  BY KeySetIs
<1>1. n \in Nodes /\ ~Leaves(n)
  BY DEF Live
<1>2. CASE n \in Tree
  BY <1>2, FitsNot
<1>3. CASE n \notin Tree
  <2>1. key[n] = k
    BY <1>1, <1>3, HiddenPlace
  <2>2. PICK a \in Tree, r \in Sides : op[a].flag = "CHILDCAS" /\ child[a][r].null /\ Fits(g, a, r, key[n])
    BY <1>1, <1>3, HiddenPlace
  <2>3. a = c
    BY <2>1, <2>2, FitsOnce
  <2> QED BY <2>2, <2>3
<1> QED BY <1>2, <1>3

-----------------------------------------------------------------------------
(* What a step leaves of the set and of the relocations. *)

(* The relocations published are what they were. *)
MovesSame ==
    \A i \in 1 .. Len(desc) : IsRelocate(i) =>
        /\ IsRelocate(i)'
        /\ desc'[i].dest = desc[i].dest
        /\ desc'[i].key_to_remove = desc[i].key_to_remove
        /\ desc'[i].key_to_put = desc[i].key_to_put
        /\ desc'[i].state = "ONGOING" => desc[i].state = "ONGOING"

(* Whether they will succeed, too. *)
OutcomeStays(i) == Committed(i)' <=> Committed(i)
OutcomesStay == \A i \in 1 .. Len(desc) : IsRelocate(i) => OutcomeStays(i)

LEMMA MovesStay ==
    ASSUME Heap, Advance,
           \/ desc' = desc
           \/ \E d : desc' = Append(desc, d)
           \/ \E i, new : CASState(i, new)
    PROVE  MovesSame
<1> SUFFICES ASSUME NEW i \in 1 .. Len(desc), IsRelocate(i)
             PROVE  /\ IsRelocate(i)'
                    /\ desc'[i].dest = desc[i].dest
                    /\ desc'[i].key_to_remove = desc[i].key_to_remove
                    /\ desc'[i].key_to_put = desc[i].key_to_put
                    /\ desc'[i].state = "ONGOING" => desc[i].state = "ONGOING"
  BY DEF MovesSame
<1>1. IsRelocate(i)' /\ desc'[i].dest = desc[i].dest
  BY KindStays
<1>2. desc'[i].key_to_put = desc[i].key_to_put
  BY DEF Advance, Forward
<1>3. desc'[i].state = "ONGOING" => desc[i].state = "ONGOING"
  BY DEF Advance, Forward
<1>4. desc'[i].key_to_remove = desc[i].key_to_remove
  <2>1. CASE desc' = desc
    BY <2>1
  <2>2. ASSUME NEW d, desc' = Append(desc, d) PROVE desc'[i].key_to_remove = desc[i].key_to_remove
    BY <2>2 DEF Heap, HeapInv
  <2>3. ASSUME NEW j, NEW new, CASState(j, new) PROVE desc'[i].key_to_remove = desc[i].key_to_remove
    <3>1. desc' = desc \/ desc' = [desc EXCEPT ![j] = [desc[j] EXCEPT !.state = new]]
      BY <2>3 DEF CASState
    <3>2. ASSUME desc' = [desc EXCEPT ![j] = [desc[j] EXCEPT !.state = new]]
          PROVE  desc'[i].key_to_remove = desc[i].key_to_remove
      <4>1. DOMAIN desc = 1 .. Len(desc)
        BY DEF Heap, HeapInv
      <4>2. i # j => desc'[i] = desc[i]
        BY <3>2, <4>1
      <4>3. i = j => desc'[i] = [desc[i] EXCEPT !.state = new]
        BY <3>2, <4>1
      <4>4. "key_to_remove" \in DOMAIN desc[i]
        BY DEF IsRelocate
      <4>5. [desc[i] EXCEPT !.state = new].key_to_remove = desc[i].key_to_remove
        BY <4>4
      <4> QED BY <4>2, <4>3, <4>5
    <3> QED BY <3>1, <3>2
  <2> QED BY <2>1, <2>2, <2>3
<1> QED BY <1>1, <1>2, <1>3, <1>4

(* A relocation succeeds when its word reaches dest, and not later. *)
LEMMA OutcomeKept ==
    ASSUME Heap, Advance, NEW i, IsRelocate(i), NEW d, d = desc[i],
           op'[d.dest] = Word("RELOCATE", i) => op[d.dest] = Word("RELOCATE", i),
           desc'[i].state = "SUCCEED" /\ d.state # "SUCCEED" => op[d.dest] = Word("RELOCATE", i)
    PROVE  OutcomeStays(i)
<1>1. desc'[i].dest = d.dest /\ d.dest \in Nodes /\ d.state \in {"ONGOING", "SUCCEED", "FAILED"}
  BY KindStays, SeenStays DEF RelocateOK
<1>2. d.state = "SUCCEED" => desc'[i].state = "SUCCEED"
  BY DEF Advance, Forward, IsRelocate
<1>3. ASSUME op[d.dest] = Word("RELOCATE", i), op'[d.dest] # Word("RELOCATE", i) PROVE d.state = "SUCCEED"
  <2>1. op[d.dest].flag = "RELOCATE" /\ op[d.dest].op = i
    BY <1>3 DEF Word
  <2> QED BY <1>1, <1>3, <2>1 DEF Advance, NewWords
<1> QED BY <1>1, <1>2, <1>3 DEF OutcomeStays, Committed

(* The node stays in the set or out of it, with the key it will have.      *)
KeepsPlace(n) == (Leaves(n)' <=> Leaves(n)) /\ (~Leaves(n) => FinalKey(n)' = FinalKey(n))

LEMMA PlaceKept ==
    ASSUME Heap, MovesSame, NEW n \in Nodes, op'[n] = op[n], key'[n] = key[n],
           op[n].flag = "RELOCATE" => OutcomeStays(op[n].op)
    PROVE  KeepsPlace(n)
<1>1. CASE op[n].flag # "RELOCATE"
  BY <1>1 DEF KeepsPlace, Leaves, FinalKey, Receives
<1>2. CASE op[n].flag = "RELOCATE"
  <2>1. PICK i : i = op[n].op
    OBVIOUS
  <2>2. IsRelocate(i) /\ i \in 1 .. Len(desc)
    BY <1>2, <2>1 DEF Heap, HeapInv, IsRelocate
  <2>3. desc'[i].dest = desc[i].dest /\ desc'[i].key_to_put = desc[i].key_to_put
    BY <2>2 DEF MovesSame
  <2>4. Leaves(n)' <=> Leaves(n)
    BY <1>2, <2>1, <2>3 DEF Leaves, OutcomeStays
  <2>5. FinalKey(n)' = FinalKey(n)
    BY <2>1, <2>3 DEF FinalKey, Receives
  <2> QED BY <2>4, <2>5 DEF KeepsPlace
<1> QED BY <1>1, <1>2

(* If every node keeps its place the set is what it was. *)
LEMMA SameSet ==
    ASSUME Heap, Joined, Heap', Joined', Nodes' = Nodes, \A n \in Nodes : KeepsPlace(n)
    PROVE  KeySet' = KeySet
<1>1. \A n : n \in Live' <=> n \in Live
  BY DEF Live, KeepsPlace
<1>2. \A n \in Live : FinalKey(n)' = FinalKey(n)
  BY DEF Live, KeepsPlace
<1>3. \A k : k \in KeySet' <=> k \in KeySet
  BY <1>1, <1>2, KeySetIs, KeySetIsNext
<1>4. \A k \in KeySet' : k \in KeySet
  BY <1>3
<1>5. \A k \in KeySet : k \in KeySet'
  BY <1>3
<1> QED BY <1>4, <1>5

(* What a step does to the set that does nothing to it. *)
Idles == MovesSame /\ OutcomesStay /\ KeySet' = KeySet

(* Both trees, before and after a step. *)
Trees == Heap /\ Joined /\ Heap' /\ Joined' /\ Advance

LEMMA IdleHeap ==
    ASSUME Trees, UNCHANGED heap
    PROVE  Idles
<1>1. MovesSame
  BY MovesStay DEF heap, Trees
<1>2. OutcomesStay
  BY DEF heap, OutcomesStay, OutcomeStays, Committed
<1>3. Nodes' = Nodes /\ \A n \in Nodes : op'[n] = op[n] /\ key'[n] = key[n]
  BY DEF heap, Nodes
<1>4. \A n \in Nodes : KeepsPlace(n)
  <2> SUFFICES ASSUME NEW n \in Nodes PROVE KeepsPlace(n)
    OBVIOUS
  <2>1. op[n].flag = "RELOCATE" => OutcomeStays(op[n].op)
    BY <1>2 DEF OutcomesStay, Trees, Heap, HeapInv, IsRelocate
  <2> QED BY <1>1, <1>3, <2>1, PlaceKept DEF Trees
<1> QED BY <1>1, <1>2, <1>3, <1>4, SameSet DEF Idles, Trees

(* The words of children's changes come and go. *)
LEMMA IdleWords ==
    ASSUME Trees, key' = key, desc' = desc \/ \E d : desc' = Append(desc, d),
           \A n \in Nodes : op'[n] = op[n] \/ {op[n].flag, op'[n].flag} \subseteq {"NONE", "CHILDCAS"}
    PROVE  Idles
<1>1. MovesSame
  BY MovesStay DEF Trees
<1>2. ASSUME NEW i \in 1 .. Len(desc), IsRelocate(i) PROVE OutcomeStays(i)
  <2>1. PICK d : d = desc[i]
    OBVIOUS
  <2>2. desc'[i] = desc[i]
    <3>1. desc \in Seq(Range(desc))
      BY DEF Trees, Heap, HeapInv
    <3>2. ASSUME NEW e, desc' = Append(desc, e) PROVE desc'[i] = desc[i]
      BY <3>1, <3>2
    <3> QED BY <3>2
  <2>3. d.dest \in Nodes
    BY <1>2, <2>1, KindStays, SeenStays DEF RelocateOK, Trees
  <2>4. op'[d.dest] = Word("RELOCATE", i) => op[d.dest] = Word("RELOCATE", i)
    BY <2>3 DEF Word
  <2> QED BY <1>2, <2>1, <2>2, <2>4, OutcomeKept DEF Trees
<1>3. Nodes' = Nodes
  BY DEF Nodes
<1>4. ASSUME NEW n \in Nodes PROVE KeepsPlace(n)
  <2>1. CASE op'[n] = op[n]
    <3>1. op[n].flag = "RELOCATE" => OutcomeStays(op[n].op)
      BY <1>2 DEF Trees, Heap, HeapInv, IsRelocate
    <3> QED BY <1>1, <2>1, <3>1, PlaceKept DEF Trees
  <2>2. CASE {op[n].flag, op'[n].flag} \subseteq {"NONE", "CHILDCAS"}
    BY <2>2 DEF KeepsPlace, Leaves, FinalKey, Receives
  <2> QED BY <2>1, <2>2
<1>5. KeySet' = KeySet
  BY <1>3, <1>4, SameSet DEF Trees
<1> QED BY <1>1, <1>2, <1>5 DEF Idles, OutcomesStay

(* The outcome of a relocation is noted. *)
LEMMA IdleState ==
    ASSUME Trees, NEW i, IsRelocate(i), NEW new, CASState(i, new),
           new = "SUCCEED" => op[desc[i].dest] = Word("RELOCATE", i) \/ desc[i].state = "SUCCEED"
    PROVE  Idles
<1>1. MovesSame
  BY MovesStay DEF Trees
<1>2. UNCHANGED <<key, op, child>>
  BY DEF CASState
<1>3. ASSUME NEW j \in 1 .. Len(desc), IsRelocate(j) PROVE OutcomeStays(j)
  <2>1. PICK d : d = desc[j]
    OBVIOUS
  <2>2. desc' = desc \/ desc' = [desc EXCEPT ![i] = [desc[i] EXCEPT !.state = new]]
    BY DEF CASState
  <2>3. DOMAIN desc = 1 .. Len(desc) /\ "state" \in DOMAIN desc[i]
    BY DEF Trees, Heap, HeapInv, IsRelocate
  <2>4. desc'[j].state # d.state => j = i /\ desc'[j].state = new
    BY <2>1, <2>2, <2>3
  <2>5. desc'[j].state = "SUCCEED" /\ d.state # "SUCCEED" => op[d.dest] = Word("RELOCATE", j)
    BY <2>1, <2>4
  <2>6. op'[d.dest] = Word("RELOCATE", j) => op[d.dest] = Word("RELOCATE", j)
    BY <1>2
  <2> QED BY <1>3, <2>1, <2>5, <2>6, OutcomeKept DEF Trees
<1>4. Nodes' = Nodes
  BY <1>2 DEF Nodes
<1>5. ASSUME NEW n \in Nodes PROVE KeepsPlace(n)
  <2>1. op[n].flag = "RELOCATE" => OutcomeStays(op[n].op)
    BY <1>3 DEF Trees, Heap, HeapInv, IsRelocate
  <2>2. op'[n] = op[n] /\ key'[n] = key[n]
    BY <1>2
  <2> QED BY <1>1, <2>1, <2>2, PlaceKept DEF Trees
<1>6. KeySet' = KeySet
  BY <1>4, <1>5, SameSet DEF Trees
<1> QED BY <1>1, <1>3, <1>6 DEF Idles, OutcomesStay

(* One word changes, and its node keeps its place. *)
LEMMA IdleWord ==
    ASSUME Trees, UNCHANGED <<key, child, desc>>, NEW n \in Nodes, NEW w, w.flag # "RELOCATE",
           op' = [op EXCEPT ![n] = w], KeepsPlace(n)
    PROVE  Idles
<1>1. MovesSame
  BY MovesStay DEF Trees
<1>2. op'[n] = w /\ \A m \in Nodes : m # n => op'[m] = op[m]
  BY DEF Trees, Heap, HeapInv, Nodes
<1>3. ASSUME NEW i \in 1 .. Len(desc), IsRelocate(i) PROVE OutcomeStays(i)
  <2>1. PICK d : d = desc[i]
    OBVIOUS
  <2>2. d.dest \in Nodes
    BY <1>3, <2>1, KindStays, SeenStays DEF RelocateOK, Trees
  <2>3. op'[d.dest] = Word("RELOCATE", i) => op[d.dest] = Word("RELOCATE", i)
    BY <1>2, <2>2 DEF Word
  <2> QED BY <1>3, <2>1, <2>3, OutcomeKept DEF Trees
<1>4. Nodes' = Nodes
  BY DEF Nodes
<1>5. ASSUME NEW m \in Nodes, m # n PROVE KeepsPlace(m)
  <2>1. op[m].flag = "RELOCATE" => OutcomeStays(op[m].op)
    BY <1>3 DEF Trees, Heap, HeapInv, IsRelocate
  <2>2. op'[m] = op[m] /\ key'[m] = key[m]
    BY <1>2, <1>5
  <2> QED BY <1>1, <2>1, <2>2, PlaceKept DEF Trees
<1>6. KeySet' = KeySet
  BY <1>4, <1>5, SameSet DEF Trees
<1> QED BY <1>1, <1>3, <1>6 DEF Idles, OutcomesStay

(* dest takes its new key, which was to be its key before (line 224). *)
LEMMA IdleKey ==
    ASSUME Trees, Inv, NEW g \in Labels, OrderInv(g), NEW t \in All, NEW l, l = loc[t],
           pc[t] = "RelocateKey", RelocateKey(t, l, desc[l.helped])
    PROVE  Idles
<1>1. PICK i, d, w : i = l.helped /\ d = desc[i] /\ w = Word("RELOCATE", i)
  OBVIOUS
<1>2. IsRelocate(i) /\ i \in 1 .. Len(desc) /\ d.dest \in Nodes /\ d.state = "SUCCEED"
  BY <1>1, Helping DEF Relocating, Place
<1>3. UNCHANGED <<op, child, desc>>
  BY DEF RelocateKey
<1>4. MovesSame
  BY <1>3, MovesStay DEF Trees
<1>5. OutcomesStay
  BY <1>3 DEF OutcomesStay, OutcomeStays, Committed
<1>6. \A n \in Nodes : n # d.dest => key'[n] = key[n]
  <2>1. key' \in {key, [key EXCEPT ![d.dest] = d.key_to_put]}
    BY <1>1 DEF RelocateKey
  <2>2. key \in Seq(AllKeys \cup {-1}) /\ Nodes = 1 .. Len(key)
    BY DEF Trees, Heap, HeapInv, Nodes
  <2> QED BY <2>1, <2>2
<1>7. key'[d.dest] # key[d.dest] => key[d.dest] = d.key_to_remove
  BY <1>1 DEF RelocateKey
<1>8. Nodes' = Nodes
  <2>1. Len(key') = Len(key)
    BY DEF RelocateKey, Trees, Heap, HeapInv
  <2> QED BY <2>1 DEF Nodes
<1>9. ASSUME NEW n \in Nodes, key'[n] = key[n] PROVE KeepsPlace(n)
  <2>1. op[n].flag = "RELOCATE" => OutcomeStays(op[n].op)
    BY <1>5 DEF OutcomesStay, Trees, Heap, HeapInv, IsRelocate
  <2> QED BY <1>3, <1>4, <1>9, <2>1, PlaceKept DEF Trees
<1>10. ASSUME key[d.dest] = d.key_to_remove PROVE KeepsPlace(d.dest)
  <2>1. MoveOK(g, i)
    BY <1>2 DEF OrderInv, MovesInv
  <2>2. key[d.dest] \in Int /\ d.key_to_remove \in Int /\ d.key_to_put \in Int
        /\ d.key_to_remove < d.key_to_put
    BY <1>1, <1>2, <2>1, KeyTypes DEF MoveOK, Trees
  <2>3. op[d.dest] # w => key[d.dest] >= d.key_to_put
    BY <1>1, <1>2, <2>1 DEF MoveOK
  <2>4. op[d.dest] = w
    BY <1>10, <2>2, <2>3
  <2> QED BY <1>1, <1>3, <2>4 DEF KeepsPlace, Leaves, FinalKey, Receives, Word
<1>11. \A n \in Nodes : KeepsPlace(n)
  BY <1>6, <1>7, <1>9, <1>10
<1> QED BY <1>4, <1>5, <1>8, <1>11, SameSet DEF Idles, Trees

(* dest is released with its new key (line 225). *)
LEMMA IdleUnflag ==
    ASSUME Trees, Inv, NEW g \in Labels, OrderInv(g), NEW t \in All, NEW l, l = loc[t],
           pc[t] = "RelocateUnflag", RelocateUnflag(t, l, desc[l.helped])
    PROVE  Idles
<1>1. PICK i, d, w : i = l.helped /\ d = desc[i] /\ w = Word("RELOCATE", i)
  OBVIOUS
<1>2. IsRelocate(i) /\ i \in 1 .. Len(desc) /\ d.dest \in Nodes
  BY <1>1, Helping DEF Relocating
<1>3. CASOp(d.dest, w, Word("NONE", i))
  BY <1>1 DEF RelocateUnflag
<1>4. CASE op[d.dest] # w
  <2>1. UNCHANGED heap
    BY <1>3, <1>4 DEF CASOp, heap
  <2> QED BY <2>1, IdleHeap
<1>5. CASE op[d.dest] = w
  <2>1. UNCHANGED <<key, child, desc>> /\ op' = [op EXCEPT ![d.dest] = Word("NONE", i)]
    BY <1>3, <1>5 DEF CASOp
  <2>2. op'[d.dest] = Word("NONE", i)
    BY <1>2, <2>1 DEF Trees, Heap, HeapInv, Nodes
  <2>3. key[d.dest] = d.key_to_put
    BY <1>1, <1>5 DEF OrderInv, Course
  <2>4. KeepsPlace(d.dest)
    <3>1. op[d.dest].flag = "RELOCATE" /\ op[d.dest].op = i /\ op'[d.dest].flag = "NONE"
      BY <1>5, <1>1, <2>2 DEF Word
    <3>2. ~Leaves(d.dest)' /\ FinalKey(d.dest)' = key'[d.dest]
      BY <3>1 DEF Leaves, FinalKey, Receives
    <3>3. ~Leaves(d.dest) /\ FinalKey(d.dest) = d.key_to_put
      BY <1>1, <3>1 DEF Leaves, FinalKey, Receives
    <3> QED BY <2>1, <2>3, <3>2, <3>3 DEF KeepsPlace
  <2>5. Word("NONE", i).flag # "RELOCATE"
    BY DEF Word
  <2> QED BY <1>2, <2>1, <2>4, <2>5, IdleWord
<1> QED BY <1>4, <1>5

(* The node whose key has moved is marked; it had left before (line 231).  *)
(* One whose key has not moved is released.                                *)
LEMMA IdleMark ==
    ASSUME Trees, Inv, NEW t \in All, NEW l, l = loc[t],
           pc[t] = "RelocateMark", RelocateMark(t, l, desc[l.helped])
    PROVE  Idles
<1>1. PICK i, d, w : i = l.helped /\ d = desc[i] /\ w = Word("RELOCATE", i)
  OBVIOUS
<1>2. IsRelocate(i) /\ l.curr \in Nodes /\ l.curr # d.dest /\ l.state = d.state
      /\ op[d.dest] \notin {d.dest_op, w}
  BY <1>1, Helping DEF Relocating, Place, DestPassed
<1>3. PICK v : /\ v = Word(IF l.state = "SUCCEED" THEN "MARK" ELSE "NONE", i)
               /\ CASOp(l.curr, w, v)
  BY <1>1 DEF RelocateMark
<1>4. CASE op[l.curr] # w
  <2>1. UNCHANGED heap
    BY <1>3, <1>4 DEF CASOp, heap
  <2> QED BY <2>1, IdleHeap
<1>5. CASE op[l.curr] = w
  <2>1. UNCHANGED <<key, child, desc>> /\ op' = [op EXCEPT ![l.curr] = v]
    BY <1>3, <1>5 DEF CASOp
  <2>2. op'[l.curr] = v
    BY <1>2, <2>1 DEF Trees, Heap, HeapInv, Nodes
  <2>3. KeepsPlace(l.curr)
    <3>1. op[l.curr].flag = "RELOCATE" /\ op[l.curr].op = i
      BY <1>1, <1>5 DEF Word
    <3>2. Leaves(l.curr) <=> d.state = "SUCCEED"
      BY <1>1, <1>2, <3>1 DEF Leaves, Committed
    <3>3. op'[l.curr].flag = IF d.state = "SUCCEED" THEN "MARK" ELSE "NONE"
      BY <1>2, <1>3, <2>2 DEF Word
    <3>4. Leaves(l.curr)' <=> d.state = "SUCCEED"
      BY <3>3 DEF Leaves
    <3>5. FinalKey(l.curr) = key[l.curr]
      BY <1>1, <1>2, <3>1 DEF FinalKey, Receives
    <3>6. FinalKey(l.curr)' = key[l.curr]
      BY <2>1, <3>3 DEF FinalKey, Receives
    <3> QED BY <3>2, <3>4, <3>5, <3>6 DEF KeepsPlace
  <2>4. v.flag # "RELOCATE"
    BY <1>3 DEF Word
  <2> QED BY <1>2, <2>1, <2>3, <2>4, IdleWord
<1> QED BY <1>4, <1>5

-----------------------------------------------------------------------------
(* The three CASes that change the set, and those that only might. *)

LEMMA SetLoses ==
    ASSUME Trees, NEW g \in Labels, OrderInv(g), NEW e \in Live,
           \A k : (\E n \in Live' : FinalKey(n)' = k) <=> (\E n \in Live : n # e /\ FinalKey(n) = k)
    PROVE  FinalKey(e) \in KeySet /\ KeySet' = KeySet \ {FinalKey(e)}
<1>1. FinalKey(e) \in KeySet
  BY KeySetIs DEF Trees
<1>2. \A n \in Live : FinalKey(n) = FinalKey(e) => n = e
  BY Once DEF Trees
<1>3. \A k : k \in KeySet' <=> k \in KeySet /\ k # FinalKey(e)
  BY <1>2, KeySetIs, KeySetIsNext DEF Trees
<1>4. \A k \in KeySet' : k \in KeySet \ {FinalKey(e)}
  BY <1>3
<1>5. \A k \in KeySet \ {FinalKey(e)} : k \in KeySet'
  BY <1>3
<1> QED BY <1>1, <1>4, <1>5

(* Line 142 adds the key, which was not there. *)
LEMMA Inserts ==
    ASSUME Trees, Inv, NEW g \in Labels, OrderInv(g), NEW t \in All, NEW l, l = loc[t],
           pc[t] = "InsertCAS", InsertCAS(t, l), op[l.curr] = l.curr_op
    PROVE  MovesSame /\ OutcomesStay /\ l.k \notin KeySet /\ KeySet' = KeySet \cup {l.k}
<1>1. PICK i, z, d : /\ i = Len(desc) + 1 /\ z = Len(key) + 1
                     /\ d = ChildCASOp(FoundSide(l), l.old, Ptr(Len(key) + 1))
  OBVIOUS
<1>2. /\ op' = Append([op EXCEPT ![l.curr] = Word("CHILDCAS", i)], NullWord)
      /\ key' = Append(key, l.k) /\ desc' = Append(desc, d)
  BY <1>1 DEF InsertCAS
<1>3. Place("InsertCAS", l) /\ Course(g, "InsertCAS", l)
  BY Here DEF OrderInv
<1>4. l.curr \in Nodes /\ Known(l.curr) /\ op[l.curr].flag = "NONE" /\ l.k \in AllKeys
      /\ EndsHere(l) /\ FitsHere(g, l)
  BY <1>3 DEF Place, Course, Inserting, Seen, Quiet, Known
<1>5. Len(key) \in Nat /\ Nodes' = Nodes \cup {z} /\ z \notin Nodes /\ Len(desc) \in Nat
  <2>1. key \in Seq(AllKeys \cup {-1}) /\ Len(key) \in Nat /\ Len(desc) \in Nat
    BY HeapTypes DEF Trees, Heap, HeapInv
  <2>2. Len(key') = z
    BY <1>1, <1>2, <2>1
  <2> QED BY <1>1, <2>1, <2>2 DEF Nodes
<1>6. /\ op'[z] = NullWord /\ op'[l.curr] = Word("CHILDCAS", i)
      /\ \A n \in Nodes : n # l.curr => op'[n] = op[n]
  <2>1. op \in Seq(Words) /\ Len(op) = Len(key) /\ Len(key) \in Nat /\ DOMAIN op = Nodes
    BY HeapTypes DEF Trees, Heap, HeapInv, Nodes
  <2>2. Word("CHILDCAS", i) \in Words
    BY <1>1, <1>5 DEF Word, Words, Flags
  <2>3. PICK q : q = [op EXCEPT ![l.curr] = Word("CHILDCAS", i)]
    OBVIOUS
  <2>4. /\ q \in Seq(Words) /\ Len(q) = Len(key) /\ q[l.curr] = Word("CHILDCAS", i)
        /\ \A n \in Nodes : n # l.curr => q[n] = op[n]
    BY <1>4, <2>1, <2>2, <2>3, ExceptSeq DEF Nodes
  <2>5. op' = Append(q, NullWord)
    BY <1>2, <2>3
  <2>6. op'[Len(key) + 1] = NullWord /\ \A n \in Nodes : op'[n] = q[n]
    BY <2>1, <2>4, <2>5, AppendProperties DEF Nodes
  <2> QED BY <1>1, <1>4, <2>4, <2>6
<1>7. key'[z] = l.k /\ \A n \in Nodes : key'[n] = key[n]
  <2>1. key \in Seq(AllKeys \cup {-1})
    BY DEF Trees, Heap, HeapInv
  <2> QED BY <1>1, <1>2, <2>1 DEF Nodes
<1>8. MovesSame
  BY <1>2, MovesStay DEF Trees
<1>9. ASSUME NEW j \in 1 .. Len(desc), IsRelocate(j) PROVE OutcomeStays(j)
  <2>1. PICK e : e = desc[j]
    OBVIOUS
  <2>2. e.dest \in Nodes /\ desc'[j] = e
    <3>1. e.dest \in Nodes
      BY <1>9, <2>1, KindStays, SeenStays DEF RelocateOK, Trees
    <3>2. desc \in Seq(Range(desc))
      BY DEF Trees, Heap, HeapInv
    <3> QED BY <1>2, <2>1, <3>1, <3>2
  <2>3. op'[e.dest] = Word("RELOCATE", j) => op[e.dest] = Word("RELOCATE", j)
    BY <1>6, <2>2 DEF Word
  <2> QED BY <1>9, <2>1, <2>2, <2>3, OutcomeKept DEF Trees
<1>10. ASSUME NEW n \in Nodes PROVE KeepsPlace(n)
  <2>1. CASE n # l.curr
    <3>1. op[n].flag = "RELOCATE" => OutcomeStays(op[n].op)
      BY <1>9 DEF Trees, Heap, HeapInv, IsRelocate
    <3> QED BY <1>6, <1>7, <1>8, <2>1, <3>1, PlaceKept DEF Trees
  <2>2. CASE n = l.curr
    <3>1. op[n].flag = "NONE" /\ op'[n].flag = "CHILDCAS" /\ key'[n] = key[n]
      BY <1>4, <1>6, <1>7, <2>2 DEF Word
    <3>2. ~Leaves(n)' /\ FinalKey(n)' = key'[n]
      BY <3>1 DEF Leaves, FinalKey, Receives
    <3>3. ~Leaves(n) /\ FinalKey(n) = key[n]
      BY <3>1 DEF Leaves, FinalKey, Receives
    <3> QED BY <3>1, <3>2, <3>3 DEF KeepsPlace
  <2> QED BY <2>1, <2>2
<1>11. ~Leaves(z)' /\ FinalKey(z)' = l.k /\ z # Root
  <2>1. op'[z].flag = "NONE"
    BY <1>6 DEF NullWord, Word
  <2>2. Root \in Nodes
    BY HeapTypes DEF Trees
  <2> QED BY <1>5, <1>7, <2>1, <2>2 DEF Leaves, FinalKey, Receives
<1>12. \A k : (\E n \in Live' : FinalKey(n)' = k) <=> (k = l.k \/ \E n \in Live : FinalKey(n) = k)
  <2>1. \A n : n \in Live' <=> n = z \/ n \in Live
    BY <1>5, <1>10, <1>11 DEF Live, KeepsPlace
  <2>2. \A n \in Live : FinalKey(n)' = FinalKey(n)
    BY <1>10 DEF Live, KeepsPlace
  <2> QED BY <1>11, <2>1, <2>2
<1>13. \A k : k \in KeySet' <=> k = l.k \/ k \in KeySet
  BY <1>12, KeySetIs, KeySetIsNext DEF Trees
<1>14. KeySet' = KeySet \cup {l.k}
  <2>1. \A k \in KeySet' : k \in KeySet \cup {l.k}
    BY <1>13
  <2>2. \A k \in KeySet \cup {l.k} : k \in KeySet'
    BY <1>13
  <2> QED BY <2>1, <2>2
<1>15. l.k \notin KeySet
  <2>1. PICK c, s, k : c = l.curr /\ s = FoundSide(l) /\ k = l.k
    OBVIOUS
  <2>2. s \in Sides /\ child[c][s].null /\ Fits(g, c, s, k) /\ op[c].flag = "NONE"
    BY <1>4, <2>1 DEF FoundSide, Sides, EndsHere, FitsHere, IsHere
  <2>3. c \in Tree
    BY <1>4, <2>1, Busy DEF Tree, Trees
  <2>4. k \in Int
    <3>1. k \in AllKeys
      BY <1>4, <2>1
    <3>2. k \in Nat
      BY <3>1, KeyTypes DEF Trees
    <3> QED BY <3>2
  <2>5. k \notin KeySet
    BY <2>2, <2>3, <2>4, Absent DEF Trees
  <2> QED BY <2>1, <2>5
<1> QED BY <1>8, <1>9, <1>14, <1>15 DEF OutcomesStay

(* Line 157 takes the key out. *)
LEMMA Marks ==
    ASSUME Trees, Inv, NEW g \in Labels, OrderInv(g), NEW t \in All, NEW l, l = loc[t],
           pc[t] = "DeleteMark", DeleteMark(t, l), op[l.curr] = l.curr_op
    PROVE  MovesSame /\ OutcomesStay /\ l.k \in KeySet /\ KeySet' = KeySet \ {l.k}
<1>1. Place("DeleteMark", l) /\ Course(g, "DeleteMark", l)
  BY Here DEF OrderInv
<1>2. PICK c, w : c = l.curr /\ w = Word("MARK", l.curr_op.op)
  OBVIOUS
<1>3. c \in Nodes /\ op[c].flag = "NONE" /\ c # Root /\ key[c] = l.k
  BY <1>1, <1>2 DEF Place, Course, Deleting, UnderParent, Link, Seen, Quiet, Known, IsHere
<1>4. UNCHANGED <<key, child, desc>> /\ op' = [op EXCEPT ![c] = w] /\ w.flag = "MARK"
  BY <1>2 DEF DeleteMark, CASOp, Word
<1>5. op'[c] = w /\ \A n \in Nodes : n # c => op'[n] = op[n]
  BY <1>3, <1>4 DEF Trees, Heap, HeapInv, Nodes
<1>6. MovesSame
  BY <1>4, MovesStay DEF Trees
<1>7. ASSUME NEW i \in 1 .. Len(desc), IsRelocate(i) PROVE OutcomeStays(i)
  <2>1. PICK d : d = desc[i]
    OBVIOUS
  <2>2. d.dest \in Nodes
    BY <1>7, <2>1, KindStays, SeenStays DEF RelocateOK, Trees
  <2>3. op'[d.dest] = Word("RELOCATE", i) => op[d.dest] = Word("RELOCATE", i)
    BY <1>4, <1>5, <2>2 DEF Word
  <2> QED BY <1>4, <1>7, <2>1, <2>3, OutcomeKept DEF Trees
<1>8. ASSUME NEW n \in Nodes, n # c PROVE KeepsPlace(n)
  <2>1. op[n].flag = "RELOCATE" => OutcomeStays(op[n].op)
    BY <1>7 DEF Trees, Heap, HeapInv, IsRelocate
  <2> QED BY <1>4, <1>5, <1>6, <1>8, <2>1, PlaceKept DEF Trees
<1>9. c \in Live /\ FinalKey(c) = l.k
  BY <1>3 DEF Live, Leaves, FinalKey, Receives
<1>10. Leaves(c)'
  BY <1>4, <1>5 DEF Leaves
<1>11. \A k : (\E n \in Live' : FinalKey(n)' = k) <=> (\E n \in Live : n # c /\ FinalKey(n) = k)
  <2>1. Nodes' = Nodes
    BY <1>4 DEF Nodes
  <2>2. \A n : n \in Live' <=> n \in Live /\ n # c
    BY <1>8, <1>10, <2>1 DEF Live, KeepsPlace
  <2>3. \A n \in Live : n # c => FinalKey(n)' = FinalKey(n)
    BY <1>8 DEF Live, KeepsPlace
  <2> QED BY <2>2, <2>3
<1>12. FinalKey(c) \in KeySet /\ KeySet' = KeySet \ {FinalKey(c)}
  BY <1>9, <1>11, SetLoses
<1> QED BY <1>6, <1>7, <1>9, <1>12 DEF OutcomesStay

(* Line 166 changes nothing yet. *)
LEMMA Announces ==
    ASSUME Trees, Inv, NEW g \in Labels, OrderInv(g), NEW t \in All, NEW l, l = loc[t],
           pc[t] = "DeleteRelocate", DeleteRelocate(t, l), op[l.curr] = l.curr_op,
           NEW i, i = Len(desc) + 1
    PROVE  /\ Idles /\ IsRelocate(i)' /\ ~Committed(i)' /\ l.curr # desc'[i].dest
           /\ desc'[i].key_to_remove = l.k /\ Len(desc') = i /\ Len(desc) \in Nat
<1>1. Place("DeleteRelocate", l) /\ Course(g, "DeleteRelocate", l)
  BY Here DEF OrderInv
<1>2. PICK c, w, d : /\ c = l.curr /\ w = Word("RELOCATE", i)
                     /\ d = RelocateOp(l.dest, l.dest_op, l.k, l.new_key)
  OBVIOUS
<1>3. c \in Nodes /\ op[c].flag = "NONE" /\ c # l.dest /\ l.dest \in Nodes
  <2>1. Seen(c, l.curr_op) /\ Seen(l.dest, l.dest_op) /\ Chosen(l)
    BY <1>1, <1>2 DEF Place, Course, Moving, SecondFind, IsHere
  <2> QED BY <1>2, <2>1 DEF Seen, Quiet, Known, Chosen
<1>4. UNCHANGED <<key, child>> /\ op' = [op EXCEPT ![c] = w] /\ desc' = Append(desc, d)
  BY <1>2 DEF DeleteRelocate
<1>5. op'[c] = w /\ \A n \in Nodes : n # c => op'[n] = op[n]
  BY <1>3, <1>4 DEF Trees, Heap, HeapInv, Nodes
<1>6. desc'[i] = d /\ Len(desc') = i /\ Len(desc) \in Nat /\ \A j \in 1 .. Len(desc) : desc'[j] = desc[j]
  <2>1. desc \in Seq(Range(desc)) /\ Len(desc) \in Nat
    BY HeapTypes DEF Trees, Heap, HeapInv
  <2> QED BY <1>4, <2>1
<1>7. /\ d.state = "ONGOING" /\ d.dest = l.dest /\ d.key_to_remove = l.k
      /\ DOMAIN d = {"state", "dest", "dest_op", "key_to_remove", "key_to_put"}
  BY <1>2 DEF RelocateOp
<1>8. MovesSame
  BY <1>4, MovesStay DEF Trees
<1>9. ASSUME NEW j \in 1 .. Len(desc), IsRelocate(j) PROVE OutcomeStays(j)
  <2>1. PICK e : e = desc[j]
    OBVIOUS
  <2>2. e.dest \in Nodes
    BY <1>9, <2>1, KindStays, SeenStays DEF RelocateOK, Trees
  <2>3. w # Word("RELOCATE", j)
    BY <1>2, <1>6 DEF Word
  <2>4. op'[e.dest] = Word("RELOCATE", j) => op[e.dest] = Word("RELOCATE", j)
    BY <1>5, <2>2, <2>3
  <2> QED BY <1>6, <1>9, <2>1, <2>4, OutcomeKept DEF Trees
<1>10. ~Committed(i)'
  <2>1. op[l.dest].op <= Len(desc)
    BY <1>3 DEF Trees, Heap, HeapInv
  <2>2. op'[l.dest] = op[l.dest]
    BY <1>3, <1>5
  <2>3. op'[l.dest].op # i
    BY <1>6, <2>1, <2>2
  <2>4. op'[l.dest] # w
    BY <1>2, <2>3 DEF Word
  <2> QED BY <1>2, <1>6, <1>7, <2>4 DEF Committed
<1>11. ASSUME NEW n \in Nodes PROVE KeepsPlace(n)
  <2>1. CASE n # c
    <3>1. op[n].flag = "RELOCATE" => OutcomeStays(op[n].op)
      BY <1>9 DEF Trees, Heap, HeapInv, IsRelocate
    <3> QED BY <1>4, <1>5, <1>8, <2>1, <3>1, PlaceKept DEF Trees
  <2>2. CASE n = c
    <3>1. ~Leaves(c) /\ FinalKey(c) = key[c]
      BY <1>3 DEF Leaves, FinalKey, Receives
    <3>2. op'[c].flag = "RELOCATE" /\ op'[c].op = i
      BY <1>2, <1>5 DEF Word
    <3>3. ~Leaves(c)'
      BY <1>10, <3>2 DEF Leaves
    <3>4. FinalKey(c)' = key[c]
      BY <1>3, <1>4, <1>6, <1>7, <3>2 DEF FinalKey, Receives
    <3> QED BY <2>2, <3>1, <3>3, <3>4 DEF KeepsPlace
  <2> QED BY <2>1, <2>2
<1>12. Nodes' = Nodes
  BY <1>4 DEF Nodes
<1>13. KeySet' = KeySet
  BY <1>11, <1>12, SameSet DEF Trees
<1>14. IsRelocate(i)'
  BY <1>6, <1>7 DEF IsRelocate
<1>15. Idles
  BY <1>8, <1>9, <1>13 DEF Idles, OutcomesStay
<1> QED BY <1>2, <1>3, <1>6, <1>7, <1>10, <1>14, <1>15

(* Line 212: the relocation has reached dest, so that its key goes. *)
LEMMA Reaches ==
    ASSUME Trees, Inv, NEW g \in Labels, OrderInv(g), NEW t \in All, NEW l, l = loc[t],
           pc[t] = "RelocateDest", RelocateDest(t, l, desc[l.helped]),
           NEW i, i = l.helped, NEW d, d = desc[i], op[d.dest] = d.dest_op
    PROVE  /\ MovesSame /\ IsRelocate(i) /\ d.state = "ONGOING" /\ ~Committed(i) /\ Committed(i)'
           /\ \A j \in 1 .. Len(desc) : IsRelocate(j) /\ j # i => OutcomeStays(j)
           /\ d.key_to_remove \in KeySet /\ KeySet' = KeySet \ {d.key_to_remove}
<1>1. PICK w, c, m : w = Word("RELOCATE", i) /\ c = d.dest /\ m = l.curr
  OBVIOUS
<1>2. /\ IsRelocate(i) /\ i \in 1 .. Len(desc) /\ i \in Nat /\ c \in Nodes /\ c # Root
      /\ d.dest_op \in Words /\ d.dest_op.flag = "NONE" /\ d.dest_op.op < i
      /\ d.state \in {"ONGOING", "SUCCEED", "FAILED"}
      /\ d.state = "SUCCEED" => UpTo(w, op[c])
      /\ d.state = "FAILED" => op[c] \notin {d.dest_op, w}
      /\ m \in Nodes /\ m # Root /\ op[m] \in Words /\ Relocates(l) /\ w \in Words /\ w.op = i
      /\ w.flag = "RELOCATE"
  BY <1>1, Helping DEF Relocating, Flags
<1>3. ~UpTo(w, d.dest_op)
  BY <1>2 DEF UpTo, Before, Words
<1>4. d.state = "ONGOING" /\ op[c] # w
  BY <1>1, <1>2, <1>3
<1>5. m # c
  BY <1>1, <1>2, <1>3 DEF Relocates
<1>6. MoveOK(g, i)
  BY <1>2 DEF OrderInv, MovesInv
<1>7. op[m] \in {w, Word("MARK", i)}
  BY <1>1, <1>2, <1>4, <1>5 DEF Relocates
<1>8. op[m] = w
  <2>1. op[m].op = i
    BY <1>1, <1>7 DEF Word
  <2>2. \A n \in Nodes : n # c /\ op[n].op = i /\ op[n] # w => op[c] \notin {d.dest_op, w}
    BY <1>1, <1>6 DEF MoveOK
  <2> QED BY <1>1, <1>2, <1>5, <2>1, <2>2
<1>9. key[m] = d.key_to_put /\ key[c] = d.key_to_remove /\ d.key_to_remove # d.key_to_put
  <2>1. key[m] = d.key_to_put
    <3>1. \A n \in Nodes : n # c /\ op[n] = w => key[n] = d.key_to_put
      BY <1>1, <1>6 DEF MoveOK
    <3> QED BY <1>2, <1>5, <1>8, <3>1
  <2>2. key[c] = d.key_to_remove
    BY <1>1, <1>6 DEF MoveOK
  <2>3. d.key_to_remove \in Int /\ d.key_to_put \in Int /\ d.key_to_remove < d.key_to_put
    BY <1>6 DEF MoveOK
  <2> QED BY <2>1, <2>2, <2>3
<1>10. \A n \in Nodes : op[n] = w => n = m
  BY <1>1, <1>2, <1>4, <1>5 DEF Relocates
<1>11. UNCHANGED <<key, child, desc>> /\ op' = [op EXCEPT ![c] = w]
  BY <1>1 DEF RelocateDest, CASOp
<1>12. op'[c] = w /\ \A n \in Nodes : n # c => op'[n] = op[n]
  BY <1>2, <1>11 DEF Trees, Heap, HeapInv, Nodes
<1>13. MovesSame
  BY <1>11, MovesStay DEF Trees
<1>14. ASSUME NEW j \in 1 .. Len(desc), IsRelocate(j), j # i PROVE OutcomeStays(j)
  <2>1. PICK e : e = desc[j]
    OBVIOUS
  <2>2. e.dest \in Nodes
    BY <1>14, <2>1, KindStays, SeenStays DEF RelocateOK, Trees
  <2>3. op'[e.dest] = Word("RELOCATE", j) => op[e.dest] = Word("RELOCATE", j)
    BY <1>1, <1>12, <1>14, <2>2 DEF Word
  <2> QED BY <1>11, <1>14, <2>1, <2>3, OutcomeKept DEF Trees
<1>15. ~Committed(i) /\ Committed(i)'
  BY <1>1, <1>4, <1>11, <1>12 DEF Committed
<1>16. ASSUME NEW n \in Nodes, n # c, n # m PROVE KeepsPlace(n)
  <2>1. ASSUME op[n].flag = "RELOCATE" PROVE OutcomeStays(op[n].op)
    <3>1. IsRelocate(op[n].op)
      BY <2>1 DEF Trees, Heap, HeapInv
    <3>2. op[n].op # i
      <4>1. op[n] \in Words
        BY DEF Trees, Heap, HeapInv
      <4> QED BY <1>1, <1>10, <1>16, <2>1, <4>1 DEF Words, Word
    <3> QED BY <1>14, <3>1, <3>2 DEF IsRelocate
  <2> QED BY <1>11, <1>12, <1>13, <1>16, <2>1, PlaceKept DEF Trees
<1>17. c \in Live /\ FinalKey(c) = d.key_to_remove
  <2>1. op[c].flag = "NONE"
    BY <1>1, <1>2
  <2>2. ~Leaves(c) /\ FinalKey(c) = key[c]
    BY <2>1 DEF Leaves, FinalKey, Receives
  <2> QED BY <1>2, <1>9, <2>2 DEF Live
<1>18. ~Leaves(c)' /\ FinalKey(c)' = d.key_to_put
  BY <1>1, <1>2, <1>11, <1>12 DEF Leaves, FinalKey, Receives
<1>19. m \in Live /\ FinalKey(m) = d.key_to_put /\ Leaves(m)'
  <2>1. op[m].flag = "RELOCATE" /\ op[m].op = i /\ op'[m] = op[m]
    BY <1>2, <1>5, <1>8, <1>12
  <2>2. ~Leaves(m) /\ FinalKey(m) = key[m]
    BY <1>1, <1>5, <1>15, <2>1 DEF Leaves, FinalKey, Receives
  <2>3. Leaves(m)'
    BY <1>1, <1>5, <1>11, <1>15, <2>1 DEF Leaves
  <2> QED BY <1>2, <1>9, <2>2, <2>3 DEF Live
<1>20. \A k : (\E n \in Live' : FinalKey(n)' = k) <=> (\E n \in Live : n # c /\ FinalKey(n) = k)
  <2>1. Nodes' = Nodes
    BY <1>11 DEF Nodes
  <2>2. \A n : n \in Live' <=> n \in Live /\ n # m
    BY <1>2, <1>16, <1>17, <1>18, <1>19, <2>1 DEF Live, KeepsPlace
  <2>3. \A n \in Live : n # c /\ n # m => FinalKey(n)' = FinalKey(n)
    BY <1>16 DEF Live, KeepsPlace
  <2> QED BY <1>5, <1>17, <1>18, <1>19, <2>2, <2>3
<1>21. FinalKey(c) \in KeySet /\ KeySet' = KeySet \ {FinalKey(c)}
  BY <1>17, <1>20, SetLoses
<1> QED BY <1>2, <1>4, <1>13, <1>14, <1>15, <1>17, <1>21

-----------------------------------------------------------------------------
(* The calls. *)

(* The call of a thread at p with locals l has its answer or can no longer *)
(* fail.                                                                   *)
Decided(p, l) ==
    \/ p = "Return"
    \/ l.then = "answer" /\ (p \in Marking \cup Linking \/ Committed(l.helped))

(* A thread at p with locals l has gone on to to with m: nobody has taken  *)
(* up a relocation but the thread that publishes it, and nobody has left   *)
(* one whose outcome is open.                                              *)
OwnsStay(p, l, to, m) ==
    /\ \A i \in Nat : Own(to, m, i) => Own(p, l, i) \/ i > Len(desc)
    /\ \A i \in 1 .. Len(desc) : Own(p, l, i) /\ desc'[i].state = "ONGOING" => Own(to, m, i)
    /\ \A i \in 1 .. Len(desc') : i > Len(desc) /\ IsRelocate(i)' => Own(to, m, i)

(* t goes on with its call. *)
Proceeds(t, to, m) ==
    /\ pc' = [pc EXCEPT ![t] = to] /\ loc' = [loc EXCEPT ![t] = m]
    /\ pc[t] \notin {"idle", "Return"} /\ to # "idle"
    /\ m.fn = loc[t].fn /\ m.k = loc[t].k

LEMMA CallOKStays ==
    ASSUME MovesSame, NEW p, NEW l, CallOK(p, l),
           p \in Relocating /\ l.then = "answer" => IsRelocate(l.helped)
    PROVE  CallOK(p, l)'
BY DEF CallOK, MovesSame, IsRelocate

LEMMA MovedOn ==
    ASSUME Inv, NEW t \in All, NEW to, NEW m,
           pc' = [pc EXCEPT ![t] = to], loc' = [loc EXCEPT ![t] = m]
    PROVE  /\ pc'[t] = to /\ loc'[t] = m
           /\ \A u \in All : u # t => pc'[u] = pc[u] /\ loc'[u] = loc[u]
BY DEF Inv, LocalInv

LEMMA CallsStay ==
    ASSUME Inv, Advance, CallsInv, MovesSame, NEW t \in All, NEW to, NEW m,
           pc' = [pc EXCEPT ![t] = to], loc' = [loc EXCEPT ![t] = m],
           CallOK(to, m)', OwnsStay(pc[t], loc[t], to, m)
    PROVE  CallsInv'
<1>1. /\ pc'[t] = to /\ loc'[t] = m
      /\ \A u \in All : u # t => pc'[u] = pc[u] /\ loc'[u] = loc[u]
  BY MovedOn
<1>2. ASSUME NEW u \in All PROVE CallOK(pc[u], loc[u])' 
  <2>1. CASE u = t
    BY <1>1, <2>1
  <2>2. CASE u # t
    <3>1. PICK p, l : p = pc[u] /\ l = loc[u]
      OBVIOUS
    <3>2. CallOK(p, l) /\ (p \in Relocating => IsRelocate(l.helped))
      BY <3>1, Here DEF CallsInv, Place, Relocates
    <3>3. CallOK(p, l)'
      BY <3>2, CallOKStays
    <3> QED BY <1>1, <2>2, <3>1, <3>3
  <2> QED BY <2>1, <2>2
<1>3. \A u \in All, i \in Nat : Own(pc[u], loc[u], i) => i <= Len(desc)
  BY Here DEF Own, Place, Relocates, IsRelocate
<1>4. Len(desc) \in Nat
  BY HeapTypes DEF Inv
<1>5. ASSUME NEW u \in All, NEW v \in All, NEW i \in Nat, Own(pc'[u], loc'[u], i), Own(pc'[v], loc'[v], i)
      PROVE  u = v
  <2>1. ASSUME NEW x \in All, x # t, Own(pc'[x], loc'[x], i) PROVE Own(pc[x], loc[x], i) /\ i <= Len(desc)
    BY <1>1, <1>3, <2>1
  <2>2. Own(pc'[t], loc'[t], i) /\ i <= Len(desc) => Own(pc[t], loc[t], i)
    BY <1>1, <1>4 DEF OwnsStay
  <2> QED BY <1>5, <2>1, <2>2 DEF CallsInv
<1>6. ASSUME NEW i \in 1 .. Len(desc'), IsRelocate(i)', desc'[i].state = "ONGOING"
      PROVE  \E u \in All : Own(pc'[u], loc'[u], i)
  <2>1. CASE i > Len(desc)
    BY <1>1, <1>6, <2>1 DEF OwnsStay
  <2>2. CASE i <= Len(desc)
    <3>1. i \in 1 .. Len(desc)
      BY <1>4, <2>2
    <3>2. IsRelocate(i) /\ desc[i].state = "ONGOING"
      BY <1>6, <3>1 DEF IsRelocate, Advance, Forward, MovesSame
    <3>3. PICK u \in All : Own(pc[u], loc[u], i)
      BY <3>1, <3>2 DEF CallsInv
    <3>4. CASE u = t
      BY <1>1, <1>6, <3>1, <3>3, <3>4 DEF OwnsStay
    <3>5. CASE u # t
      BY <1>1, <3>3, <3>5
    <3> QED BY <3>4, <3>5
  <2> QED BY <1>4, <2>1, <2>2
<1> QED BY <1>2, <1>5, <1>6 DEF CallsInv

(* The answer that l gives is right at this moment. *)
RightAnswer(l) ==
    \/ l.fn = "search" /\ l.result = (l.k \in KeySet)
    \/ l.fn = "insert" /\ l.k \in KeySet /\ l.result = FALSE
    \/ l.fn = "delete" /\ l.k \notin KeySet /\ l.result = FALSE

(* The step is the update of a thread with locals l. *)
Updates(l) ==
    \/ l.fn = "insert" /\ l.k \notin KeySet /\ KeySet' = KeySet \cup {l.k}
    \/ l.fn = "delete" /\ l.k \in KeySet /\ KeySet' = KeySet \ {l.k}

SameDecision(u) == Decided(pc[u], loc[u])' <=> Decided(pc[u], loc[u])

(* What a step of t says of the set: nothing, or t gives its answer, or it *)
(* makes the update of u, who may be another thread.                       *)
Silent(to, m) == KeySet' = KeySet /\ (\A u \in All : SameDecision(u)) /\ (to = "Return" => m.result = TRUE)
Replies(t, to, m) ==
    /\ KeySet' = KeySet /\ ~Decided(pc[t], loc[t]) /\ to = "Return" /\ RightAnswer(m)
    /\ \A u \in All \ {t} : SameDecision(u)
Updated(u, to) ==
    /\ ~Decided(pc[u], loc[u]) /\ Decided(pc[u], loc[u])' /\ pc[u] # "idle" /\ Updates(loc[u])
    /\ to # "Return"
    /\ \A v \in All \ {u} : SameDecision(v)

Turn(t, to, m) ==
    /\ Proceeds(t, to, m)
    /\ Silent(to, m) \/ Replies(t, to, m) \/ \E u \in All : Updated(u, to)

(* What a step of a thread in a call does to the set and to the calls. *)
Turned == CallsInv' /\ \E t \in All : \E to, m : Turn(t, to, m)

(* Only the outcome of its relocation can decide the call of another.      *)
LEMMA DecisionStays ==
    ASSUME NEW p, NEW l, CallOK(p, l), p \in Relocating /\ l.then = "answer" => OutcomeStays(l.helped)
    PROVE  Decided(p, l)' <=> Decided(p, l)
<1>1. CASE l.then # "answer"
  BY <1>1 DEF Decided
<1>2. CASE p \in Relocating /\ l.then = "answer"
  BY <1>2 DEF Decided, OutcomeStays
<1>3. CASE p \in Marking \cup Linking
  BY <1>3 DEF Decided
<1> QED BY <1>1, <1>2, <1>3 DEF CallOK, Helpers

LEMMA OthersStay ==
    ASSUME Inv, CallsInv, NEW t \in All, NEW to, NEW m,
           pc' = [pc EXCEPT ![t] = to], loc' = [loc EXCEPT ![t] = m],
           NEW u \in All, u # t,
           \A i \in 1 .. Len(desc) : IsRelocate(i) /\ Own(pc[u], loc[u], i) => OutcomeStays(i)
    PROVE  SameDecision(u)
<1>1. pc'[u] = pc[u] /\ loc'[u] = loc[u]
  BY MovedOn
<1>2. PICK p, l : p = pc[u] /\ l = loc[u]
  OBVIOUS
<1>3. CallOK(p, l) /\ (p \in Relocating => IsRelocate(l.helped))
  BY <1>2, Here DEF CallsInv, Place, Relocates
<1>4. p \in Relocating /\ l.then = "answer" => OutcomeStays(l.helped)
  BY <1>2, <1>3 DEF Own, IsRelocate
<1>5. Decided(p, l)' <=> Decided(p, l)
  BY <1>3, <1>4, DecisionStays
<1>6. Decided(pc[u], loc[u])' <=> Decided(p, l)'
  BY <1>1, <1>2 DEF Decided, Committed
<1> QED BY <1>2, <1>5, <1>6 DEF SameDecision

(* A step that does nothing to the set or its call. *)
LEMMA SilentTurn ==
    ASSUME Inv, CallsInv, Advance, Idles, NEW t \in All, NEW to, NEW m, Proceeds(t, to, m),
           CallOK(to, m)', OwnsStay(pc[t], loc[t], to, m),
           Decided(to, m)' <=> Decided(pc[t], loc[t]), to = "Return" => m.result = TRUE
    PROVE  Turned
<1>1. CallsInv'
  BY CallsStay DEF Proceeds, Idles
<1>2. \A u \in All : u # t => SameDecision(u)
  BY OthersStay DEF Proceeds, Idles, OutcomesStay
<1>3. SameDecision(t)
  <2>0. t \in DOMAIN pc /\ t \in DOMAIN loc
    BY DEF Inv, LocalInv
  <2>1. pc'[t] = to /\ loc'[t] = m
    BY <2>0 DEF Proceeds
  <2>2. Decided(pc[t], loc[t])' <=> Decided(to, m)'
    BY <2>1 DEF Decided, Committed
  <2> QED BY <2>2 DEF SameDecision
<1>4. Silent(to, m)
  BY <1>2, <1>3 DEF Silent, Idles
<1>5. Turn(t, to, m)
  BY <1>4 DEF Turn
<1>6. \E x \in All : \E to2, m2 : Turn(x, to2, m2)
  BY <1>5
<1> QED BY <1>1, <1>6 DEF Turned

-----------------------------------------------------------------------------
(* Loads before a helper runs. *)

LEMMA SearchTurn ==
    ASSUME Inv, CallsInv, Trees, UNCHANGED heap, NEW t \in All, NEW l, l = loc[t],
           pc[t] \notin Helpers \cup {"idle", "Return"}, NEW to, NEW m, Step(t, to, m),
           m.fn = l.fn, m.k = l.k, m.then # "answer", to \notin {"idle", "Return"}, CallOK(to, m)
    PROVE  Turned
<1>1. Idles
  BY IdleHeap
<1>2. l.then # "answer"
  BY DEF CallsInv, CallOK
<1>3. CallOK(to, m)'
  BY <1>1, CallOKStays DEF Idles
<1>4. OwnsStay(pc[t], loc[t], to, m)
  <2>1. Len(desc') = Len(desc) /\ Len(desc) \in Nat
    BY HeapTypes DEF heap, Trees
  <2> QED BY <1>2, <2>1 DEF OwnsStay, Own
<1>5. Decided(to, m)' <=> Decided(pc[t], loc[t])
  BY <1>2 DEF Decided
<1>6. Proceeds(t, to, m)
  BY DEF Proceeds, Step
<1> QED BY <1>1, <1>3, <1>4, <1>5, <1>6, SilentTurn DEF Trees

LEMMA FrameIs ==
    ASSUME NEW l, NEW r
    PROVE  /\ Frame(l).fn = l.fn /\ Frame(l).k = l.k /\ Frame(l).then = "none" /\ Frame(l).start = Root
           /\ Rewind(l).fn = l.fn /\ Rewind(l).k = l.k /\ Rewind(l).then = "none"
           /\ Rewind(l).start = l.start
           /\ [Frame(l) EXCEPT !.result = r].fn = l.fn /\ [Frame(l) EXCEPT !.result = r].k = l.k
           /\ [Frame(l) EXCEPT !.result = r].then = "none" /\ [Frame(l) EXCEPT !.result = r].start = Root
           /\ [Frame(l) EXCEPT !.result = r].result = r
BY DEF Frame, Rewind, NoLocals

(* What find and its callers start over with. *)
LEMMA FrameCall ==
    ASSUME NEW p, NEW l, CallOK(p, l), p # "idle", NEW r
    PROVE  /\ CallOK("FindOp", Frame(l)) /\ CallOK("FindOp", Rewind(l))
           /\ CallOK("Return", [Frame(l) EXCEPT !.result = r])
<1>1. /\ l.fn \in {"insert", "delete", "search"} /\ (l.start # Root => l.fn = "delete")
  BY DEF CallOK
<1>2. \A q \in {"FindOp", "Return"} :
        q # "idle" /\ q \notin Helpers /\ q \notin Inserting /\ q \notin Deleting /\ q \notin Relocating
  BY DEF Helpers, Marking, Linking, Relocating, Inserting, Deleting
<1>3. ASSUME NEW q \in {"FindOp", "Return"}, NEW m, m.fn = l.fn, m.then = "none", m.start \in {Root, l.start}
      PROVE  CallOK(q, m)
  BY <1>1, <1>2, <1>3 DEF CallOK
<1>4. ASSUME NEW m \in {Frame(l), Rewind(l), [Frame(l) EXCEPT !.result = r]}
      PROVE  m.fn = l.fn /\ m.then = "none" /\ m.start \in {Root, l.start}
  <2>1. CASE m = Frame(l)
    BY <2>1, FrameIs
  <2>2. CASE m = Rewind(l)
    BY <2>2, FrameIs
  <2>3. CASE m = [Frame(l) EXCEPT !.result = r]
    <3>1. PICK n : n = [Frame(l) EXCEPT !.result = r]
      OBVIOUS
    <3>2. n.fn = l.fn /\ n.then = "none" /\ n.start = Root
      BY <3>1, FrameIs
    <3> QED BY <2>3, <3>1, <3>2
  <2> QED BY <1>4, <2>1, <2>2, <2>3
<1>5. ASSUME NEW q \in {"FindOp", "Return"}, NEW m \in {Frame(l), Rewind(l), [Frame(l) EXCEPT !.result = r]}
      PROVE  CallOK(q, m)
  BY <1>3, <1>4
<1> QED BY <1>5

LEMMA AgainTurn ==
    ASSUME Inv, CallsInv, Trees, UNCHANGED heap, NEW t \in All, NEW l, l = loc[t],
           pc[t] \notin Helpers \cup {"idle", "Return"}, FindAgain(t, l) \/ Retry(t, l)
    PROVE  Turned
<1>1. PICK m \in {Frame(l), Rewind(l)} : Step(t, "FindOp", m)
  BY DEF FindAgain, Retry
<1>2. CallOK("FindOp", m)
  <2>1. PICK p : p = pc[t] /\ p # "idle" /\ CallOK(p, l)
    BY DEF CallsInv
  <2>2. CallOK("FindOp", Frame(l)) /\ CallOK("FindOp", Rewind(l))
    BY <2>1, FrameCall
  <2> QED BY <1>1, <2>2
<1>3. m.fn = l.fn /\ m.k = l.k /\ m.then = "none"
  BY FrameIs
<1> QED BY <1>1, <1>2, <1>3, SearchTurn

(* 74-81 *)
LEMMA FindOpTurn ==
    ASSUME Inv, CallsInv, Trees, UNCHANGED heap, NEW t \in All, NEW l, l = loc[t],
           pc[t] = "FindOp", FindOp(t, l)
    PROVE  Turned
<1>1. Place("FindOp", l) /\ CallOK("FindOp", l)
  BY Here DEF CallsInv
<1>2. pc[t] \notin Helpers \cup {"idle", "Return"}
  BY DEF Helpers, Marking, Linking, Relocating
<1>3. PICK w : w = op[l.start]
  OBVIOUS
<1>4. CASE Step(t, "FindRight", [l EXCEPT !.curr = l.start, !.curr_op = w])
  <2>1. PICK m : m = [l EXCEPT !.curr = l.start, !.curr_op = w]
    OBVIOUS
  <2>2. m.fn = l.fn /\ m.k = l.k /\ m.then = l.then /\ m.start = l.start
    BY <1>1, <2>1 DEF Place, NoLocals
  <2>3. CallOK("FindRight", m) /\ m.then # "answer"
    BY <1>1, <2>2 DEF CallOK, Helpers, Marking, Linking, Relocating, Inserting, Deleting
  <2>4. Step(t, "FindRight", m)
    BY <1>4, <2>1
  <2> QED BY <1>2, <2>2, <2>3, <2>4, SearchTurn
<1>5. CASE Step(t, "ChildCAS", [l EXCEPT !.helped = w.op, !.target = Root, !.then = "find"])
  <2>1. PICK m : m = [l EXCEPT !.helped = w.op, !.target = Root, !.then = "find"]
    OBVIOUS
  <2>2. m.fn = l.fn /\ m.k = l.k /\ m.then = "find" /\ m.start = l.start
    BY <1>1, <2>1 DEF Place, NoLocals
  <2>3. CallOK("ChildCAS", m)
    BY <1>1, <2>2 DEF CallOK, Helpers, Marking, Linking, Relocating, Inserting, Deleting
  <2>4. Step(t, "ChildCAS", m)
    BY <1>5, <2>1
  <2> QED BY <1>2, <2>2, <2>3, <2>4, SearchTurn
<1>6. CASE Retry(t, l)
  BY <1>2, <1>6, AgainTurn
<1> QED BY <1>3, <1>4, <1>5, <1>6 DEF FindOp

(* A step down or to the next test of find, deleteNode or insert. *)
LEMMA PlainTurn ==
    ASSUME Inv, CallsInv, Trees, UNCHANGED heap, NEW t \in All, NEW l, l = loc[t],
           pc[t] \notin Helpers \cup {"idle", "Return"}, NEW to, NEW m, Step(t, to, m),
           \A f \in {"fn", "k", "then", "start"} : m[f] = l[f],
           to \notin Helpers \cup {"idle", "Return"},
           to \in Inserting => l.fn = "insert", to \in Deleting => l.fn = "delete"
    PROVE  Turned
<1>1. CallOK(pc[t], l)
  BY DEF CallsInv
<1>2. m.fn = l.fn /\ m.k = l.k /\ m.then = l.then /\ m.start = l.start
  OBVIOUS
<1>3. CallOK(to, m) /\ m.then # "answer"
  BY <1>1, <1>2 DEF CallOK, Helpers
<1> QED BY <1>2, <1>3, SearchTurn

(* 82-86, 98-105 *)
LEMMA FollowTurn ==
    ASSUME Inv, CallsInv, Trees, UNCHANGED heap, NEW t \in All, NEW l, l = loc[t],
           pc[t] \in {"FindRight", "FindLeft"}, FindRight(t, l) \/ FindLeft(t, l)
    PROVE  Turned
<1>1. DOMAIN l = DOMAIN NoLocals
  BY Here DEF Place
<1>2. PICK to, m : /\ to \in {"FindCheck", "FindNext"} /\ Step(t, to, m)
                   /\ \A f \in {"fn", "k", "then", "start"} : m[f] = l[f]
  <2>1. CASE FindRight(t, l)
    <3>1. PICK n, p : /\ n = [[l EXCEPT !.found = "NOTFOUND_R", !.last_right = l.curr,
                                    !.last_right_op = l.curr_op] EXCEPT !.next = p.node]
                      /\ Step(t, IF p.null THEN "FindCheck" ELSE "FindNext", n)
      BY <2>1 DEF FindRight, Follow
    <3>2. \A f \in {"fn", "k", "then", "start"} : n[f] = l[f]
      BY <1>1, <3>1 DEF NoLocals
    <3> QED BY <3>1, <3>2
  <2>2. CASE FindLeft(t, l)
    <3>1. PICK n, p : /\ n = [[l EXCEPT !.found = "NOTFOUND_L"] EXCEPT !.next = p.node]
                      /\ Step(t, IF p.null THEN "FindCheck" ELSE "FindNext", n)
      BY <2>2 DEF FindLeft, Follow
    <3>2. \A f \in {"fn", "k", "then", "start"} : n[f] = l[f]
      BY <1>1, <3>1 DEF NoLocals
    <3> QED BY <3>1, <3>2
  <2> QED BY <2>1, <2>2
<1>3. /\ pc[t] \notin Helpers \cup {"idle", "Return"} /\ to \notin Helpers \cup {"idle", "Return"}
      /\ to \notin Inserting /\ to \notin Deleting
  BY <1>2 DEF Helpers, Marking, Linking, Relocating, Inserting, Deleting
<1> QED BY <1>2, <1>3, PlainTurn

(* 87-95 *)
LEMMA FindNextTurn ==
    ASSUME Inv, CallsInv, Trees, UNCHANGED heap, NEW t \in All, NEW l, l = loc[t],
           pc[t] = "FindNext", FindNext(t, l)
    PROVE  Turned
<1>1. Place("FindNext", l) /\ CallOK("FindNext", l)
  BY Here DEF CallsInv
<1>2. pc[t] \notin Helpers \cup {"idle", "Return"}
  BY DEF Helpers, Marking, Linking, Relocating
<1>3. PICK w, down : /\ w = op[l.next]
                     /\ down = [l EXCEPT !.parent = l.curr, !.parent_op = l.curr_op,
                                         !.curr = l.next, !.curr_op = w]
  OBVIOUS
<1>4. down.fn = l.fn /\ down.k = l.k /\ down.then = l.then /\ down.start = l.start
      /\ DOMAIN down = DOMAIN NoLocals
  BY <1>1, <1>3 DEF Place, NoLocals
<1>5. CASE Step(t, "FindKey", down)
  <2>1. \A f \in {"fn", "k", "then", "start"} : down[f] = l[f]
    BY <1>4
  <2>2. "FindKey" \notin Helpers \cup {"idle", "Return"} /\ "FindKey" \notin Inserting \cup Deleting
    BY DEF Helpers, Marking, Linking, Relocating, Inserting, Deleting
  <2> QED BY <1>2, <1>5, <2>1, <2>2, PlainTurn
<1>6. CASE w.flag # "NONE" /\ Step(t, HelperOf[w.flag],
                                   [down EXCEPT !.helped = w.op, !.target = l.next, !.then = "find"])
  <2>1. PICK m, to : m = [down EXCEPT !.helped = w.op, !.target = l.next, !.then = "find"]
                     /\ to = HelperOf[w.flag]
    OBVIOUS
  <2>2. m.fn = l.fn /\ m.k = l.k /\ m.then = "find" /\ m.start = l.start
    BY <1>4, <2>1 DEF NoLocals
  <2>3. w.flag \in {"MARK", "CHILDCAS", "RELOCATE"}
    <3>1. l.next \in Nodes
      BY <1>1 DEF Place, Link, Known
    <3> QED BY <1>3, <1>6, <3>1 DEF Trees, Heap, HeapInv, Words, Flags
  <2>4. to \in Helpers /\ to \notin Inserting \cup Deleting /\ to \notin {"idle", "Return"}
    BY <2>1, <2>3 DEF HelperOf, Helpers, Marking, Linking, Relocating, Inserting, Deleting
  <2>5. CallOK(to, m)
    <3>1. l.fn \in {"insert", "delete", "search"} /\ (l.start # Root => l.fn = "delete")
      BY <1>1 DEF CallOK
    <3>2. m.then # "answer"
      BY <2>2
    <3> QED BY <2>2, <2>4, <3>1, <3>2 DEF CallOK
  <2>6. Step(t, to, m) /\ m.then # "answer"
    BY <1>6, <2>1, <2>2
  <2> QED BY <1>2, <2>2, <2>4, <2>5, <2>6, SearchTurn
<1> QED BY <1>3, <1>5, <1>6 DEF FindNext

(* 96-110 *)
LEMMA FindKeyTurn ==
    ASSUME Inv, CallsInv, Trees, UNCHANGED heap, NEW t \in All, NEW l, l = loc[t],
           pc[t] = "FindKey", FindKey(t, l)
    PROVE  Turned
<1>1. DOMAIN l = DOMAIN NoLocals
  BY Here DEF Place
<1>2. PICK m \in {l, [l EXCEPT !.found = "FOUND"]}, to \in {"FindLeft", "FindRight", "FindCheckCurr"} :
        Step(t, to, m)
  BY DEF FindKey
<1>3. \A f \in {"fn", "k", "then", "start"} : m[f] = l[f]
  BY <1>1, <1>2 DEF NoLocals
<1>4. /\ pc[t] \notin Helpers \cup {"idle", "Return"} /\ to \notin Helpers \cup {"idle", "Return"}
      /\ to \notin Inserting /\ to \notin Deleting
  BY <1>2 DEF Helpers, Marking, Linking, Relocating, Inserting, Deleting
<1> QED BY <1>2, <1>3, <1>4, PlainTurn

(* 117 *)
LEMMA FindCheckTurn ==
    ASSUME Inv, CallsInv, Trees, UNCHANGED heap, NEW t \in All, NEW l, l = loc[t],
           pc[t] = "FindCheck", FindCheck(t, l)
    PROVE  Turned
<1>1. /\ pc[t] \notin Helpers \cup {"idle", "Return"} /\ "FindCheckCurr" \notin Helpers \cup {"idle", "Return"}
      /\ "FindCheckCurr" \notin Inserting /\ "FindCheckCurr" \notin Deleting
  BY DEF Helpers, Marking, Linking, Relocating, Inserting, Deleting
<1>2. CASE FindAgain(t, l)
  BY <1>1, <1>2, AgainTurn
<1>3. CASE Step(t, "FindCheckCurr", l)
  BY <1>1, <1>3, PlainTurn
<1> QED BY <1>2, <1>3 DEF FindCheck

(* An answer that changes nothing. *)
LEMMA ReplyTurn ==
    ASSUME Inv, CallsInv, Trees, UNCHANGED heap, NEW t \in All, NEW l, l = loc[t],
           pc[t] \notin Helpers \cup {"idle", "Return"}, NEW r, Answer(t, l, r),
           \/ l.fn = "search" /\ r = (l.k \in KeySet)
           \/ l.fn = "insert" /\ l.k \in KeySet /\ r = FALSE
           \/ l.fn = "delete" /\ l.k \notin KeySet /\ r = FALSE
    PROVE  Turned
<1>1. PICK m : m = [Frame(l) EXCEPT !.result = r]
  OBVIOUS
<1>2. m.fn = l.fn /\ m.k = l.k /\ m.then = "none" /\ m.result = r
  BY <1>1, FrameIs
<1>3. Idles
  BY IdleHeap
<1>4. l.then # "answer" /\ CallOK("Return", m)
  <2>1. PICK p : p = pc[t] /\ p # "idle" /\ p \notin Helpers /\ CallOK(p, l)
    BY DEF CallsInv
  <2>2. l.then # "answer"
    BY <2>1 DEF CallOK
  <2>3. CallOK("Return", [Frame(l) EXCEPT !.result = r])
    BY <2>1, FrameCall
  <2> QED BY <1>1, <2>2, <2>3
<1>5. CallOK("Return", m)'
  BY <1>2, <1>3, <1>4, CallOKStays DEF Idles
<1>6. OwnsStay(pc[t], loc[t], "Return", m)
  <2>1. Len(desc') = Len(desc) /\ Len(desc) \in Nat
    BY HeapTypes DEF heap, Trees
  <2> QED BY <1>2, <1>4, <2>1 DEF OwnsStay, Own
<1>7. Proceeds(t, "Return", m)
  BY <1>1, <1>2 DEF Proceeds, Answer, Step
<1>8. CallsInv'
  BY <1>3, <1>5, <1>6, <1>7, CallsStay DEF Proceeds, Idles, Trees
<1>9. \A u \in All \ {t} : SameDecision(u)
  BY <1>3, <1>7, OthersStay DEF Proceeds, Idles, OutcomesStay
<1>10. ~Decided(pc[t], loc[t])
  BY <1>4 DEF Decided
<1>11. RightAnswer(m)
  BY <1>2 DEF RightAnswer
<1>12. Replies(t, "Return", m)
  BY <1>3, <1>9, <1>10, <1>11 DEF Replies, Idles
<1>13. Turn(t, "Return", m)
  BY <1>7, <1>12 DEF Turn
<1> QED BY <1>8, <1>13 DEF Turned

(* A node that is undisturbed is in the set with its key. *)
LEMMA Present ==
    ASSUME Heap, Joined, NEW c, NEW w, Seen(c, w), op[c] = w, c # Root
    PROVE  key[c] \in KeySet
<1>1. c \in Nodes /\ op[c].flag = "NONE"
  BY DEF Seen, Quiet, Known
<1>2. c \in Live /\ FinalKey(c) = key[c]
  BY <1>1 DEF Live, Leaves, FinalKey, Receives
<1> QED BY <1>2, KeySetIs

(* 117, second test, and what find's caller makes of it. *)
LEMMA FindCheckCurrTurn ==
    ASSUME Inv, CallsInv, Trees, UNCHANGED heap, NEW g \in Labels, OrderInv(g), NEW t \in All,
           NEW l, l = loc[t], pc[t] = "FindCheckCurr", FindCheckCurr(t, l)
    PROVE  Turned
<1>1. Place("FindCheckCurr", l) /\ CallOK("FindCheckCurr", l) /\ Course(g, "FindCheckCurr", l)
  BY Here DEF CallsInv, OrderInv
<1>2. pc[t] \notin Helpers \cup {"idle", "Return"}
  BY DEF Helpers, Marking, Linking, Relocating
<1>3. CASE op[l.curr] # l.curr_op
  BY <1>2, <1>3, AgainTurn DEF FindCheckCurr
<1>4. CASE op[l.curr] = l.curr_op
  <2>1. FindReturns(t, l)
    BY <1>4 DEF FindCheckCurr
  <2>2. Seen(l.curr, l.curr_op)
    BY <1>1 DEF Place, Searching
  <2>3. ASSUME l.found = "FOUND" PROVE l.k \in KeySet
    <3>1. key[l.curr] = l.k /\ l.curr # Root
      BY <1>1, <1>4, <2>3 DEF Course, IsHere, Place, UnderParent, Link
    <3> QED BY <1>4, <2>2, <3>1, Present DEF Trees
  <2>4. ASSUME l.found # "FOUND", l.start = Root PROVE l.k \notin KeySet
    <3>1. PICK c, s, k : c = l.curr /\ s = FoundSide(l) /\ k = l.k
      OBVIOUS
    <3>2. EndsHere(l) /\ FitsHere(g, l) /\ k \in AllKeys
      BY <1>1, <2>4, <3>1 DEF Place, Course
    <3>3. s \in Sides /\ child[c][s].null /\ Fits(g, c, s, k) /\ op[c].flag = "NONE" /\ c \in Nodes /\ Known(c)
      BY <1>4, <2>2, <3>1, <3>2 DEF FoundSide, Sides, EndsHere, FitsHere, IsHere, Seen, Quiet, Known
    <3>4. c \in Tree
      BY <3>3, Busy DEF Tree, Trees
    <3>5. k \in Int
      <4>1. k \in Nat
        BY <3>2, KeyTypes DEF Trees
      <4> QED BY <4>1
    <3>6. k \notin KeySet
      BY <3>3, <3>4, <3>5, Absent DEF Trees
    <3> QED BY <3>1, <3>6
  <2>5. /\ {"DeleteRecheck", "InsertOld", "DeleteLeft"} \cap (Helpers \cup {"idle", "Return"}) = {}
        /\ {"DeleteRecheck", "DeleteLeft"} \cap Inserting = {} /\ {"DeleteRecheck", "InsertOld"} \cap Deleting = {}
    BY DEF Helpers, Marking, Linking, Relocating, Inserting, Deleting
  <2>6. CASE l.start # Root /\ Step(t, "DeleteRecheck", l)
    BY <1>2, <2>5, <2>6, PlainTurn
  <2>7. CASE l.start = Root /\ l.fn = "search" /\ Answer(t, l, l.found = "FOUND")
    <3>1. (l.found = "FOUND") = (l.k \in KeySet)
      BY <2>3, <2>4, <2>7
    <3> QED BY <1>2, <2>7, <3>1, ReplyTurn
  <2>8. CASE l.start = Root /\ l.fn = "insert" /\ l.found = "FOUND" /\ Answer(t, l, FALSE)
    BY <1>2, <2>3, <2>8, ReplyTurn
  <2>9. CASE l.start = Root /\ l.fn = "insert" /\ Step(t, "InsertOld", l)
    BY <1>2, <2>5, <2>9, PlainTurn
  <2>10. CASE l.start = Root /\ l.fn = "delete" /\ Step(t, "DeleteLeft", l)
    BY <1>2, <2>5, <2>10, PlainTurn
  <2>11. CASE l.start = Root /\ l.fn = "delete" /\ l.found # "FOUND" /\ Answer(t, l, FALSE)
    BY <1>2, <2>4, <2>11, ReplyTurn
  <2> QED BY <2>1, <2>6, <2>7, <2>8, <2>9, <2>10, <2>11 DEF FindReturns
<1> QED BY <1>3, <1>4

(* 138-139, 156, 163, 165 *)
LEMMA UpdateLoadTurn ==
    ASSUME Inv, CallsInv, Trees, UNCHANGED heap, NEW t \in All, NEW l, l = loc[t],
           \/ pc[t] = "InsertOld" /\ InsertOld(t, l)
           \/ pc[t] = "DeleteLeft" /\ DeleteLeft(t, l)
           \/ pc[t] = "DeleteRight" /\ DeleteRight(t, l)
           \/ pc[t] = "DeleteRecheck" /\ DeleteRecheck(t, l)
           \/ pc[t] = "DeleteKey" /\ DeleteKey(t, l)
    PROVE  Turned
<1>1. Place(pc[t], l) /\ CallOK(pc[t], l) /\ DOMAIN l = DOMAIN NoLocals
  BY Here DEF CallsInv, Place
<1>2. pc[t] \notin Helpers \cup {"idle", "Return"}
  BY DEF Helpers, Marking, Linking, Relocating
<1>3. /\ {"InsertCAS", "DeleteMark", "DeleteRight", "DeleteKey", "DeleteRelocate"}
           \cap (Helpers \cup {"idle", "Return"}) = {}
      /\ {"DeleteMark", "DeleteRight", "DeleteKey", "DeleteRelocate"} \cap Inserting = {}
      /\ {"InsertCAS", "DeleteKey", "DeleteRelocate"} \cap Deleting = {}
  BY DEF Helpers, Marking, Linking, Relocating, Inserting, Deleting
<1>4. CASE pc[t] = "InsertOld" /\ InsertOld(t, l)
  <2>1. PICK m : m = [l EXCEPT !.old = child[l.curr][FoundSide(l)]]
    OBVIOUS
  <2>2. \A f \in {"fn", "k", "then", "start"} : m[f] = l[f]
    BY <1>1, <2>1 DEF NoLocals
  <2>3. l.fn = "insert"
    BY <1>1, <1>4 DEF CallOK, Inserting
  <2>4. Step(t, "InsertCAS", m)
    BY <1>4, <2>1 DEF InsertOld
  <2> QED BY <1>2, <1>3, <2>2, <2>3, <2>4, PlainTurn
<1>5. CASE pc[t] = "DeleteLeft" /\ DeleteLeft(t, l)
  <2>1. PICK to \in {"DeleteMark", "DeleteRight"} : Step(t, to, l)
    BY <1>5 DEF DeleteLeft
  <2>2. l.fn = "delete"
    BY <1>1, <1>5 DEF CallOK, Deleting
  <2> QED BY <1>2, <1>3, <2>1, <2>2, PlainTurn
<1>6. CASE pc[t] = "DeleteRight" /\ DeleteRight(t, l)
  <2>1. l.fn = "delete"
    BY <1>1, <1>6 DEF CallOK, Deleting
  <2>2. CASE Step(t, "DeleteMark", l)
    BY <1>2, <1>3, <2>1, <2>2, PlainTurn
  <2>3. PICK n, m : /\ n = [l EXCEPT !.start = l.curr, !.dest = l.curr, !.dest_op = l.curr_op]
                    /\ m = Rewind(n)
    OBVIOUS
  <2>4. CASE Step(t, "FindOp", m)
    <3>1. n.fn = l.fn /\ n.k = l.k
      BY <1>1, <2>3 DEF NoLocals
    <3>2. m.fn = l.fn /\ m.k = l.k /\ m.then = "none"
      <4>1. Rewind(n).fn = n.fn /\ Rewind(n).k = n.k /\ Rewind(n).then = "none"
        BY FrameIs
      <4> QED BY <2>3, <3>1, <4>1
    <3>3. "FindOp" \notin Helpers \cup {"idle", "Return"} /\ "FindOp" \notin Inserting \cup Deleting \cup Relocating
      BY DEF Helpers, Marking, Linking, Relocating, Inserting, Deleting
    <3>4. CallOK("FindOp", m)
      BY <2>1, <3>2, <3>3 DEF CallOK
    <3> QED BY <1>2, <2>4, <3>2, <3>3, <3>4, SearchTurn
  <2> QED BY <1>6, <2>2, <2>3, <2>4 DEF DeleteRight
<1>7. CASE pc[t] = "DeleteRecheck" /\ DeleteRecheck(t, l)
  <2>1. CASE Retry(t, l)
    BY <1>2, <2>1, AgainTurn
  <2>2. CASE Step(t, "DeleteKey", l)
    BY <1>2, <1>3, <2>2, PlainTurn
  <2> QED BY <1>7, <2>1, <2>2 DEF DeleteRecheck
<1>8. CASE pc[t] = "DeleteKey" /\ DeleteKey(t, l)
  <2>1. PICK m : m = [l EXCEPT !.new_key = key[l.curr]]
    OBVIOUS
  <2>2. \A f \in {"fn", "k", "then", "start"} : m[f] = l[f]
    BY <1>1, <2>1 DEF NoLocals
  <2>3. Step(t, "DeleteRelocate", m)
    BY <1>8, <2>1 DEF DeleteKey
  <2> QED BY <1>2, <1>3, <2>2, <2>3, PlainTurn
<1> QED BY <1>4, <1>5, <1>6, <1>7, <1>8

-----------------------------------------------------------------------------
(* The helpers. *)

(* A helper is over. *)
LEMMA HelperReturnsTurn ==
    ASSUME Inv, CallsInv, Trees, Idles, NEW t \in All, NEW l, l = loc[t], pc[t] \in Helpers,
           NEW ok \in BOOLEAN, HelperReturns(t, l, ok), Len(desc') = Len(desc),
           l.then = "answer" => /\ Decided(pc[t], l) <=> ok
                                /\ pc[t] \in Relocating => desc'[l.helped].state # "ONGOING"
    PROVE  Turned
<1>1. CallOK(pc[t], l) /\ l.then \in {"find", "answer"} /\ pc[t] \notin {"idle", "Return"}
  BY DEF CallsInv, CallOK, Helpers, Marking, Linking, Relocating
<1>2. PICK to, m : /\ Step(t, to, m) /\ m.fn = l.fn /\ m.k = l.k /\ m.then = "none"
                   /\ to \in {"FindOp", "Return"} /\ CallOK(to, m)
                   /\ to = "Return" => m.result = TRUE
                   /\ to = "Return" <=> l.then = "answer" /\ ok
  <2>1. PICK p : p = pc[t] /\ p # "idle" /\ CallOK(p, l)
    BY <1>1
  <2>2. /\ CallOK("FindOp", Frame(l)) /\ CallOK("FindOp", Rewind(l))
        /\ CallOK("Return", [Frame(l) EXCEPT !.result = TRUE])
    BY <2>1, FrameCall
  <2>3. CASE l.then = "find"
    <3>1. PICK m : m = Rewind(l)
      OBVIOUS
    <3>2. m.fn = l.fn /\ m.k = l.k /\ m.then = "none"
      BY <3>1, FrameIs
    <3>3. Step(t, "FindOp", m)
      BY <2>3, <3>1 DEF HelperReturns, FindAgain
    <3> QED BY <2>2, <2>3, <3>1, <3>2, <3>3
  <2>4. CASE l.then = "answer" /\ ok
    <3>1. PICK m : m = [Frame(l) EXCEPT !.result = TRUE]
      OBVIOUS
    <3>2. m.fn = l.fn /\ m.k = l.k /\ m.then = "none" /\ m.result = TRUE
      BY <3>1, FrameIs
    <3>3. Step(t, "Return", m)
      BY <2>4, <3>1 DEF HelperReturns, Answer
    <3> QED BY <2>2, <2>4, <3>1, <3>2, <3>3
  <2>5. CASE l.then = "answer" /\ ~ok
    <3>1. PICK m : m = Frame(l)
      OBVIOUS
    <3>2. m.fn = l.fn /\ m.k = l.k /\ m.then = "none"
      BY <3>1, FrameIs
    <3>3. Step(t, "FindOp", m)
      BY <2>5, <3>1 DEF HelperReturns, Retry
    <3> QED BY <2>2, <2>5, <3>1, <3>2, <3>3
  <2> QED BY <1>1, <2>3, <2>4, <2>5
<1>3. CallOK(to, m)'
  BY <1>2, CallOKStays DEF Idles
<1>4. OwnsStay(pc[t], loc[t], to, m)
  <2>1. Len(desc) \in Nat
    BY HeapTypes DEF Trees
  <2> QED BY <1>2, <2>1 DEF OwnsStay, Own
<1>5. Decided(to, m)' <=> Decided(pc[t], loc[t])
  <2>1. Decided(to, m)' <=> to = "Return"
    BY <1>2 DEF Decided
  <2>2. CASE l.then = "find"
    BY <1>1, <1>2, <2>1, <2>2 DEF Decided
  <2>3. CASE l.then = "answer"
    BY <1>2, <2>1, <2>3
  <2> QED BY <1>1, <2>2, <2>3
<1>6. Proceeds(t, to, m)
  BY <1>1, <1>2 DEF Proceeds, Step
<1> QED BY <1>2, <1>3, <1>4, <1>5, <1>6, SilentTurn DEF Trees

(* helpRelocate goes on. *)
LEMMA RelocTurn ==
    ASSUME Inv, CallsInv, Trees, Idles, NEW t \in All, NEW l, l = loc[t], pc[t] \in Relocating,
           NEW to \in Relocating, NEW m, Step(t, to, m), Len(desc') = Len(desc),
           \A f \in {"fn", "k", "then", "start", "helped", "curr"} : m[f] = l[f]
    PROVE  Turned
<1>1. CallOK(pc[t], l) /\ IsRelocate(l.helped) /\ l.helped \in 1 .. Len(desc) /\ Len(desc) \in Nat
  BY Helping DEF CallsInv
<1>2. m.fn = l.fn /\ m.k = l.k /\ m.then = l.then /\ m.start = l.start /\ m.helped = l.helped /\ m.curr = l.curr
  OBVIOUS
<1>3. \A p \in Relocating : p \in Helpers /\ p \notin Inserting \cup Deleting \cup Marking \cup Linking
                            /\ p \notin {"idle", "Return"}
  BY DEF Helpers, Marking, Linking, Relocating, Inserting, Deleting
<1>4. CallOK(to, m)
  BY <1>1, <1>2, <1>3 DEF CallOK
<1>5. CallOK(to, m)'
  BY <1>1, <1>2, <1>4, CallOKStays DEF Idles
<1>6. OwnsStay(pc[t], loc[t], to, m)
  BY <1>1, <1>2 DEF OwnsStay, Own
<1>7. Decided(to, m)' <=> Decided(pc[t], loc[t])
  <2>1. Committed(l.helped)' <=> Committed(l.helped)
    BY <1>1 DEF Idles, OutcomesStay, OutcomeStays
  <2>2. Committed(m.helped)' <=> Committed(l.helped)
    BY <1>2, <2>1 DEF Committed
  <2> QED BY <1>2, <1>3, <2>2 DEF Decided
<1>8. Proceeds(t, to, m)
  BY <1>2, <1>3 DEF Proceeds, Step
<1>9. to # "Return"
  BY <1>3
<1> QED BY <1>5, <1>6, <1>7, <1>8, <1>9, SilentTurn DEF Trees

(* A helper that cannot fail any more goes on. *)
LEMMA OnwardTurn ==
    ASSUME Inv, CallsInv, Trees, Idles, NEW t \in All, NEW l, l = loc[t], pc[t] \in Helpers,
           NEW to \in Marking \cup Linking, NEW m, Step(t, to, m),
           \A f \in {"fn", "k", "then", "start"} : m[f] = l[f],
           pc[t] \in Relocating => Committed(l.helped) /\ desc'[l.helped].state # "ONGOING",
           \A i \in 1 .. Len(desc') : i > Len(desc) => ~IsRelocate(i)'
    PROVE  Turned
<1>1. CallOK(pc[t], l)
  BY DEF CallsInv
<1>2. m.fn = l.fn /\ m.k = l.k /\ m.then = l.then /\ m.start = l.start
  OBVIOUS
<1>3. /\ to \in Helpers /\ to \notin Inserting \cup Deleting \cup Relocating /\ to \notin {"idle", "Return"}
      /\ pc[t] \notin {"idle", "Return"}
  BY DEF Helpers, Marking, Linking, Relocating, Inserting, Deleting
<1>4. CallOK(to, m)
  BY <1>1, <1>2, <1>3 DEF CallOK
<1>5. CallOK(to, m)'
  BY <1>3, <1>4, CallOKStays DEF Idles
<1>6. OwnsStay(pc[t], loc[t], to, m)
  BY <1>3 DEF OwnsStay, Own
<1>7. Decided(to, m)' <=> Decided(pc[t], loc[t])
  <2>1. Decided(to, m)' <=> l.then = "answer"
    BY <1>2, <1>3 DEF Decided
  <2>2. Decided(pc[t], l) <=> l.then = "answer"
    BY <1>3 DEF Decided, Helpers
  <2> QED BY <2>1, <2>2
<1>8. Proceeds(t, to, m)
  BY <1>2, <1>3 DEF Proceeds, Step
<1> QED BY <1>3, <1>5, <1>6, <1>7, <1>8, SilentTurn DEF Trees

(* 228-229: at dest nothing is left to do, and the thread that published   *)
(* the relocation did not meet it there.                                   *)
LEMMA OutcomeTurn ==
    ASSUME Inv, CallsInv, Trees, Idles, NEW t \in All, NEW l, l = loc[t], pc[t] \in Relocating,
           NEW s, Outcome(t, l, s), Len(desc') = Len(desc)
    PROVE  Turned
<1>1. CallOK(pc[t], l) /\ DOMAIN l = DOMAIN NoLocals
  BY Here DEF CallsInv, Place
<1>2. CASE desc[l.helped].dest = l.curr
  <2>1. l.then # "answer"
    BY <1>1, <1>2 DEF CallOK
  <2>2. HelperReturns(t, l, s = "SUCCEED") /\ (s = "SUCCEED") \in BOOLEAN
    BY <1>2 DEF Outcome
  <2>3. pc[t] \in Helpers
    BY DEF Helpers
  <2> QED BY <2>1, <2>2, <2>3, HelperReturnsTurn
<1>3. CASE desc[l.helped].dest # l.curr
  <2>1. PICK m : m = [l EXCEPT !.state = s]
    OBVIOUS
  <2>2. \A f \in {"fn", "k", "then", "start", "helped", "curr"} : m[f] = l[f]
    BY <1>1, <2>1 DEF NoLocals
  <2>3. Step(t, "RelocateMark", m) /\ "RelocateMark" \in Relocating
    BY <1>3, <2>1 DEF Outcome, Relocating
  <2> QED BY <2>2, <2>3, RelocTurn
<1> QED BY <1>2, <1>3

(* 223-229 *)
LEMMA ActTurn ==
    ASSUME Inv, CallsInv, Trees, Idles, NEW t \in All, NEW l, l = loc[t], pc[t] \in Relocating,
           NEW s, ActOnState(t, l, s), Len(desc') = Len(desc)
    PROVE  Turned
<1>1. CASE s = "SUCCEED"
  <2>1. Step(t, "RelocateKey", l) /\ "RelocateKey" \in Relocating
    BY <1>1 DEF ActOnState, Relocating
  <2> QED BY <2>1, RelocTurn
<1>2. CASE s # "SUCCEED"
  BY <1>2, OutcomeTurn DEF ActOnState
<1> QED BY <1>1, <1>2

(* 191, 209-211, 213-214, 220 *)
LEMMA HelperLoadTurn ==
    ASSUME Inv, CallsInv, Trees, UNCHANGED heap, NEW t \in All, NEW l, l = loc[t],
           \/ pc[t] = "MarkedSide" /\ MarkedSide(t, l)
           \/ pc[t] = "RelocateState" /\ RelocateState(t, l, desc[l.helped])
           \/ pc[t] = "RelocateSeen" /\ RelocateSeen(t, l, desc[l.helped])
           \/ pc[t] = "RelocateReread" /\ RelocateReread(t, l, desc[l.helped])
    PROVE  Turned
<1>1. Idles /\ Len(desc') = Len(desc) /\ Len(desc) \in Nat
  BY IdleHeap, HeapTypes DEF heap, Trees
<1>2. DOMAIN l = DOMAIN NoLocals
  BY Here DEF Place
<1>3. {"RelocateState", "RelocateSeen", "RelocateReread", "RelocateDest", "RelocateSucceed",
       "RelocateFail"} \subseteq Relocating
  BY DEF Relocating
<1>4. \A f \in {"fn", "k", "then", "start", "helped", "curr"} : l[f] = l[f]
  OBVIOUS
<1>5. CASE pc[t] = "MarkedSide" /\ MarkedSide(t, l)
  <2>1. PICK m, s : m = [l EXCEPT !.side = s] /\ Step(t, "MarkedCAS", m)
    BY <1>5 DEF MarkedSide
  <2>2. \A f \in {"fn", "k", "then", "start"} : m[f] = l[f]
    BY <1>2, <2>1 DEF NoLocals
  <2>3. pc[t] \in Helpers /\ pc[t] \notin Relocating /\ "MarkedCAS" \in Marking \cup Linking
    BY <1>5 DEF Helpers, Marking, Linking, Relocating
  <2>4. \A j \in 1 .. Len(desc') : j > Len(desc) => ~IsRelocate(j)'
    BY <1>1
  <2> QED BY <1>1, <2>1, <2>2, <2>3, <2>4, OnwardTurn
<1>6. CASE pc[t] = "RelocateState" /\ RelocateState(t, l, desc[l.helped])
  <2>1. CASE Step(t, "RelocateDest", l)
    BY <1>1, <1>3, <1>4, <1>6, <2>1, RelocTurn
  <2>2. CASE ActOnState(t, l, desc[l.helped].state)
    BY <1>1, <1>3, <1>6, <2>2, ActTurn
  <2> QED BY <1>6, <2>1, <2>2 DEF RelocateState
<1>7. CASE pc[t] = "RelocateSeen" /\ RelocateSeen(t, l, desc[l.helped])
  <2>1. PICK to \in {"RelocateSucceed", "RelocateFail"} : Step(t, to, l)
    BY <1>7 DEF RelocateSeen
  <2> QED BY <1>1, <1>3, <1>4, <1>7, <2>1, RelocTurn
<1>8. CASE pc[t] = "RelocateReread" /\ RelocateReread(t, l, desc[l.helped])
  BY <1>1, <1>3, <1>8, ActTurn DEF RelocateReread
<1> QED BY <1>5, <1>6, <1>7, <1>8

(* 192-196 *)
LEMMA MarkedCASTurn ==
    ASSUME Inv, CallsInv, Trees, NEW t \in All, NEW l, l = loc[t],
           pc[t] = "MarkedCAS", MarkedCAS(t, l)
    PROVE  Turned
<1>1. Heap /\ DOMAIN l = DOMAIN NoLocals /\ UnderParent(l) /\ Len(desc) \in Nat
  BY Here, HeapTypes DEF Place, Marking
<1>2. pc[t] \in Helpers /\ pc[t] \notin Relocating /\ "ChildCAS" \in Marking \cup Linking
      /\ pc[t] \in Marking
  BY DEF Helpers, Marking, Linking, Relocating
<1>3. CASE op[l.parent] = l.parent_op
  <2>1. PICK i, m, d : /\ i = Len(desc) + 1 /\ d = ChildCASOp(l.side, Ptr(l.curr), Replacement(l.curr))
                       /\ m = [l EXCEPT !.helped = i, !.target = l.parent]
    OBVIOUS
  <2>2. /\ Step(t, "ChildCAS", m) /\ op' = [op EXCEPT ![l.parent] = Word("CHILDCAS", i)]
        /\ desc' = Append(desc, d) /\ UNCHANGED <<key, child>>
    BY <1>3, <2>1 DEF MarkedCAS
  <2>3. \A f \in {"fn", "k", "then", "start"} : m[f] = l[f]
    BY <1>1, <2>1 DEF NoLocals
  <2>4. l.parent \in Nodes /\ op[l.parent].flag = "NONE" /\ Word("CHILDCAS", i).flag = "CHILDCAS"
    BY <1>1, <1>3 DEF UnderParent, Link, Seen, Known, Quiet, Word
  <2>5. \A n \in Nodes : op'[n] = op[n] \/ {op[n].flag, op'[n].flag} \subseteq {"NONE", "CHILDCAS"}
    <3>1. op \in Seq(Words) /\ Nodes = 1 .. Len(op)
      BY <1>1 DEF Heap, HeapInv, Nodes
    <3> QED BY <2>2, <2>4, <3>1
  <2>6. Idles
    BY <2>2, <2>5, IdleWords
  <2>7. ~IsRelocate(i)'
    <3>1. desc'[i] = d
      BY <1>1, <2>1, <2>2 DEF Heap, HeapInv
    <3>2. DOMAIN d = {"side", "expected", "update"}
      BY <2>1 DEF ChildCASOp
    <3> QED BY <3>1, <3>2 DEF IsRelocate
  <2>8. \A j \in 1 .. Len(desc') : j > Len(desc) => ~IsRelocate(j)'
    <3>1. Len(desc') = i
      BY <1>1, <2>1, <2>2 DEF Heap, HeapInv
    <3>2. \A j \in 1 .. Len(desc') : j > Len(desc) => j = i
      BY <1>1, <2>1, <3>1
    <3> QED BY <2>7, <3>2
  <2> QED BY <1>2, <2>2, <2>3, <2>6, <2>8, OnwardTurn
<1>4. CASE op[l.parent] # l.parent_op
  <2>1. HelperReturns(t, l, TRUE) /\ UNCHANGED heap
    BY <1>4 DEF MarkedCAS
  <2>2. Idles /\ Len(desc') = Len(desc)
    BY <2>1, IdleHeap DEF heap
  <2>3. l.then = "answer" => Decided(pc[t], l)
    BY <1>2 DEF Decided
  <2> QED BY <1>2, <2>1, <2>2, <2>3, HelperReturnsTurn
<1> QED BY <1>3, <1>4

(* 202-203 *)
LEMMA LinkTurn ==
    ASSUME Inv, CallsInv, Trees, NEW t \in All, NEW l, l = loc[t],
           \/ pc[t] = "ChildCAS" /\ ChildCAS(t, l, desc[l.helped])
           \/ pc[t] = "ChildCASDone" /\ ChildCASDone(t, l)
    PROVE  Turned
<1>1. Heap /\ Len(desc) \in Nat
  BY Here, HeapTypes
<1>2. pc[t] \in Helpers /\ pc[t] \in Linking /\ pc[t] \notin Relocating /\ "ChildCASDone" \in Marking \cup Linking
  BY DEF Helpers, Marking, Linking, Relocating
<1>3. CASE pc[t] = "ChildCAS" /\ ChildCAS(t, l, desc[l.helped])
  <2>1. Step(t, "ChildCASDone", l) /\ UNCHANGED <<key, op, desc>>
    BY <1>3 DEF ChildCAS
  <2>2. Idles
    BY <2>1, IdleWords
  <2>3. Len(desc') = Len(desc)
    BY <2>1
  <2>4. \A f \in {"fn", "k", "then", "start"} : l[f] = l[f]
    OBVIOUS
  <2>5. \A j \in 1 .. Len(desc') : j > Len(desc) => ~IsRelocate(j)'
    BY <1>1, <2>3
  <2> QED BY <1>2, <2>1, <2>2, <2>4, <2>5, OnwardTurn
<1>4. CASE pc[t] = "ChildCASDone" /\ ChildCASDone(t, l)
  <2>1. PICK u, v : u = Word("CHILDCAS", l.helped) /\ v = Word("NONE", l.helped)
    OBVIOUS
  <2>2. HelperReturns(t, l, TRUE) /\ UNCHANGED <<key, child, desc>>
        /\ op' = IF op[l.target] = u THEN [op EXCEPT ![l.target] = v] ELSE op
    BY <1>4, <2>1 DEF ChildCASDone, CASOp
  <2>3. u.flag = "CHILDCAS" /\ v.flag = "NONE"
    BY <2>1 DEF Word
  <2>4. \A n \in Nodes : op'[n] = op[n] \/ {op[n].flag, op'[n].flag} \subseteq {"NONE", "CHILDCAS"}
    <3>1. op \in Seq(Words) /\ Nodes = 1 .. Len(op)
      BY <1>1 DEF Heap, HeapInv, Nodes
    <3> QED BY <2>2, <2>3, <3>1
  <2>5. Idles /\ Len(desc') = Len(desc)
    BY <2>2, <2>4, IdleWords
  <2>6. l.then = "answer" => Decided(pc[t], l)
    BY <1>2 DEF Decided
  <2> QED BY <1>2, <2>2, <2>5, <2>6, HelperReturnsTurn
<1> QED BY <1>3, <1>4

(* 212, too late: the word at dest is another. *)
LEMMA LateDestTurn ==
    ASSUME Inv, CallsInv, Trees, NEW t \in All, NEW l, l = loc[t],
           pc[t] = "RelocateDest", RelocateDest(t, l, desc[l.helped]),
           op[desc[l.helped].dest] # desc[l.helped].dest_op
    PROVE  Turned
<1>1. Step(t, "RelocateSeen", l) /\ UNCHANGED heap
  BY DEF RelocateDest, CASOp, heap
<1>2. Idles /\ Len(desc') = Len(desc)
  BY <1>1, IdleHeap DEF heap
<1>3. pc[t] \in Relocating /\ "RelocateSeen" \in Relocating
  BY DEF Relocating
<1>4. \A f \in {"fn", "k", "then", "start", "helped", "curr"} : l[f] = l[f]
  OBVIOUS
<1> QED BY <1>1, <1>2, <1>3, <1>4, RelocTurn

(* 215-216, 219 *)
LEMMA StateTurn ==
    ASSUME Inv, CallsInv, Trees, NEW t \in All, NEW l, l = loc[t],
           \/ pc[t] = "RelocateSucceed" /\ RelocateSucceed(t, l)
           \/ pc[t] = "RelocateFail" /\ RelocateFail(t, l)
    PROVE  Turned
<1>1. pc[t] \in Relocating /\ {"RelocateKey", "RelocateReread"} \subseteq Relocating
  BY DEF Relocating
<1>2. PICK i, d : i = l.helped /\ d = desc[i]
  OBVIOUS
<1>3. Heap /\ Place(pc[t], l) /\ IsRelocate(i) /\ i \in 1 .. Len(desc)
  BY <1>1, <1>2, Helping
<1>4. PICK to \in {"RelocateKey", "RelocateReread"}, new \in {"SUCCEED", "FAILED"} :
        /\ Step(t, to, l) /\ CASState(i, new)
        /\ new = "SUCCEED" => pc[t] = "RelocateSucceed"
  BY <1>2 DEF RelocateSucceed, RelocateFail
<1>5. new = "SUCCEED" => op[d.dest] = Word("RELOCATE", i) \/ d.state = "SUCCEED"
  BY <1>2, <1>3, <1>4 DEF Place
<1>6. Idles
  BY <1>2, <1>3, <1>4, <1>5, IdleState
<1>7. Len(desc') = Len(desc)
  BY <1>3, <1>4 DEF CASState, Heap, HeapInv
<1>8. \A f \in {"fn", "k", "then", "start", "helped", "curr"} : l[f] = l[f]
  OBVIOUS
<1> QED BY <1>1, <1>4, <1>6, <1>7, <1>8, RelocTurn

(* 224-225 *)
LEMMA CarriedOutTurn ==
    ASSUME Inv, CallsInv, Trees, NEW g \in Labels, OrderInv(g), NEW t \in All, NEW l, l = loc[t],
           \/ pc[t] = "RelocateKey" /\ RelocateKey(t, l, desc[l.helped])
           \/ pc[t] = "RelocateUnflag" /\ RelocateUnflag(t, l, desc[l.helped])
    PROVE  Turned
<1>1. pc[t] \in Relocating /\ "RelocateUnflag" \in Relocating
  BY DEF Relocating
<1>2. CASE pc[t] = "RelocateKey" /\ RelocateKey(t, l, desc[l.helped])
  <2>1. Idles
    BY <1>2, IdleKey
  <2>2. Step(t, "RelocateUnflag", l) /\ Len(desc') = Len(desc)
    BY <1>2 DEF RelocateKey
  <2>3. \A f \in {"fn", "k", "then", "start", "helped", "curr"} : l[f] = l[f]
    OBVIOUS
  <2> QED BY <1>1, <2>1, <2>2, <2>3, RelocTurn
<1>3. CASE pc[t] = "RelocateUnflag" /\ RelocateUnflag(t, l, desc[l.helped])
  <2>1. Idles
    BY <1>3, IdleUnflag
  <2>2. Outcome(t, l, "SUCCEED") /\ Len(desc') = Len(desc)
    BY <1>3 DEF RelocateUnflag, CASOp
  <2> QED BY <1>1, <2>1, <2>2, OutcomeTurn
<1> QED BY <1>2, <1>3

(* 231-235 *)
LEMMA RelocateMarkTurn ==
    ASSUME Inv, CallsInv, Trees, NEW t \in All, NEW l, l = loc[t],
           pc[t] = "RelocateMark", RelocateMark(t, l, desc[l.helped])
    PROVE  Turned
<1>1. /\ pc[t] \in Relocating /\ pc[t] \in Helpers /\ "MarkedSide" \in Marking \cup Linking
      /\ pc[t] \notin Marking \cup Linking
  BY DEF Relocating, Helpers, Marking, Linking
<1>2. PICK i, d : i = l.helped /\ d = desc[i]
  OBVIOUS
<1>3. Heap /\ Place(pc[t], l) /\ DOMAIN l = DOMAIN NoLocals /\ d.state \in {"ONGOING", "SUCCEED", "FAILED"}
  BY <1>1, <1>2, Helping DEF Place
<1>4. l.state = d.state /\ d.state # "ONGOING" /\ DestPassed(l)
  BY <1>2, <1>3 DEF Place
<1>5. Idles
  BY IdleMark
<1>6. desc' = desc /\ Len(desc) \in Nat
  BY <1>3, HeapTypes DEF RelocateMark, CASOp
<1>7. CASE l.state = "SUCCEED"
  <2>1. PICK m, w : /\ Step(t, "MarkedSide", m) /\ m = [l EXCEPT !.parent_op = w]
    BY <1>7 DEF RelocateMark
  <2>2. \A f \in {"fn", "k", "then", "start"} : m[f] = l[f]
    BY <1>3, <2>1 DEF NoLocals
  <2>3. Committed(l.helped) /\ desc'[l.helped].state # "ONGOING"
    BY <1>2, <1>4, <1>6, <1>7 DEF Committed
  <2>4. \A j \in 1 .. Len(desc') : j > Len(desc) => ~IsRelocate(j)'
    BY <1>6
  <2> QED BY <1>1, <1>5, <2>1, <2>2, <2>3, <2>4, OnwardTurn
<1>8. CASE l.state # "SUCCEED"
  <2>1. HelperReturns(t, l, FALSE)
    BY <1>8 DEF RelocateMark
  <2>2. ~Committed(l.helped) /\ desc'[l.helped].state # "ONGOING"
    BY <1>2, <1>3, <1>4, <1>6, <1>8 DEF Committed, DestPassed
  <2>3. ~Decided(pc[t], l)
    BY <1>1, <2>2 DEF Decided
  <2>4. Len(desc') = Len(desc) /\ FALSE \in BOOLEAN
    BY <1>6
  <2> QED BY <1>1, <1>5, <2>1, <2>2, <2>3, <2>4, HelperReturnsTurn
<1> QED BY <1>7, <1>8

-----------------------------------------------------------------------------
(* The updates. *)

(* A thread makes its update and goes on to a helper that cannot fail.     *)
LEMMA UpdateTurn ==
    ASSUME Inv, CallsInv, Trees, MovesSame, OutcomesStay, NEW t \in All, NEW l, l = loc[t],
           pc[t] \notin Helpers \cup {"idle", "Return"}, Updates(l),
           NEW to \in Marking \cup Linking, NEW m, Step(t, to, m),
           m.fn = l.fn, m.k = l.k, m.start = l.start, m.then = "answer",
           \A i \in 1 .. Len(desc') : i > Len(desc) => ~IsRelocate(i)'
    PROVE  Turned
<1>1. CallOK(pc[t], l)
  BY DEF CallsInv
<1>2. l.then # "answer" /\ pc[t] \notin Relocating
  BY <1>1 DEF CallOK, Helpers
<1>3. to \in Helpers /\ to \notin Inserting \cup Deleting \cup Relocating /\ to \notin {"idle", "Return"}
  BY DEF Helpers, Marking, Linking, Relocating, Inserting, Deleting
<1>4. CallOK(to, m)
  BY <1>1, <1>3 DEF CallOK
<1>5. CallOK(to, m)'
  BY <1>3, <1>4, CallOKStays
<1>6. OwnsStay(pc[t], loc[t], to, m)
  BY <1>2, <1>3 DEF OwnsStay, Own
<1>7. Proceeds(t, to, m)
  BY <1>3 DEF Proceeds, Step
<1>8. CallsInv'
  BY <1>5, <1>6, <1>7, CallsStay DEF Proceeds, Trees
<1>9. \A u \in All \ {t} : SameDecision(u)
  BY <1>7, OthersStay DEF Proceeds, OutcomesStay
<1>10. ~Decided(pc[t], loc[t])
  BY <1>2 DEF Decided
<1>11. Decided(pc[t], loc[t])'
  <2>0. pc' = [pc EXCEPT ![t] = to] /\ loc' = [loc EXCEPT ![t] = m]
    BY <1>7 DEF Proceeds
  <2>1. pc'[t] = to /\ loc'[t] = m
    <3>1. t \in DOMAIN pc /\ t \in DOMAIN loc
      BY DEF Inv, LocalInv
    <3> QED BY <2>0, <3>1
  <2>2. Decided(pc[t], loc[t])' <=> Decided(to, m)'
    BY <2>1 DEF Decided, Committed
  <2>3. Decided(to, m)'
    BY DEF Decided
  <2> QED BY <2>2, <2>3
<1>12. Updated(t, to)
  BY <1>3, <1>9, <1>10, <1>11 DEF Updated
<1>13. Turn(t, to, m)
  BY <1>7, <1>12 DEF Turn
<1> QED BY <1>8, <1>13 DEF Turned

(* 141-145 *)
LEMMA InsertTurn ==
    ASSUME Inv, CallsInv, Trees, NEW g \in Labels, OrderInv(g), NEW t \in All, NEW l, l = loc[t],
           pc[t] = "InsertCAS", InsertCAS(t, l)
    PROVE  Turned
<1>1. Heap /\ DOMAIN l = DOMAIN NoLocals /\ CallOK(pc[t], l) /\ Len(desc) \in Nat
  BY Here, HeapTypes DEF Place, CallsInv
<1>2. pc[t] \notin Helpers \cup {"idle", "Return"} /\ pc[t] \in Inserting /\ "ChildCAS" \in Marking \cup Linking
  BY DEF Helpers, Marking, Linking, Relocating, Inserting
<1>3. CASE op[l.curr] = l.curr_op
  <2>1. PICK i, m, d : /\ i = Len(desc) + 1 /\ d = ChildCASOp(FoundSide(l), l.old, Ptr(Len(key) + 1))
                       /\ m = [l EXCEPT !.helped = i, !.target = l.curr, !.then = "answer"]
    OBVIOUS
  <2>2. Step(t, "ChildCAS", m) /\ desc' = Append(desc, d)
    BY <1>3, <2>1 DEF InsertCAS
  <2>3. m.fn = l.fn /\ m.k = l.k /\ m.start = l.start /\ m.then = "answer"
    BY <1>1, <2>1 DEF NoLocals
  <2>4. MovesSame /\ OutcomesStay /\ l.k \notin KeySet /\ KeySet' = KeySet \cup {l.k}
    BY <1>3, Inserts
  <2>5. Updates(l)
    BY <1>1, <1>2, <2>4 DEF Updates, CallOK
  <2>6. \A j \in 1 .. Len(desc') : j > Len(desc) => ~IsRelocate(j)'
    <3>1. Len(desc') = i /\ desc'[i] = d
      BY <1>1, <2>1, <2>2 DEF Heap, HeapInv
    <3>2. \A j \in 1 .. Len(desc') : j > Len(desc) => j = i
      BY <1>1, <2>1, <3>1
    <3>3. DOMAIN d = {"side", "expected", "update"}
      BY <2>1 DEF ChildCASOp
    <3> QED BY <3>1, <3>2, <3>3 DEF IsRelocate
  <2> QED BY <1>2, <2>2, <2>3, <2>4, <2>5, <2>6, UpdateTurn
<1>4. CASE op[l.curr] # l.curr_op
  BY <1>2, <1>4, AgainTurn DEF InsertCAS
<1> QED BY <1>3, <1>4

(* 157-160 *)
LEMMA MarkTurn ==
    ASSUME Inv, CallsInv, Trees, NEW g \in Labels, OrderInv(g), NEW t \in All, NEW l, l = loc[t],
           pc[t] = "DeleteMark", DeleteMark(t, l)
    PROVE  Turned
<1>1. Heap /\ DOMAIN l = DOMAIN NoLocals /\ CallOK(pc[t], l) /\ Len(desc) \in Nat
  BY Here, HeapTypes DEF Place, CallsInv
<1>2. pc[t] \notin Helpers \cup {"idle", "Return"} /\ pc[t] \in Deleting /\ "MarkedSide" \in Marking \cup Linking
  BY DEF Helpers, Marking, Linking, Relocating, Deleting
<1>3. CASE op[l.curr] = l.curr_op
  <2>1. PICK m : m = [l EXCEPT !.then = "answer"]
    OBVIOUS
  <2>2. Step(t, "MarkedSide", m) /\ desc' = desc
    BY <1>3, <2>1 DEF DeleteMark, CASOp
  <2>3. m.fn = l.fn /\ m.k = l.k /\ m.start = l.start /\ m.then = "answer"
    BY <1>1, <2>1 DEF NoLocals
  <2>4. MovesSame /\ OutcomesStay /\ l.k \in KeySet /\ KeySet' = KeySet \ {l.k}
    BY <1>3, Marks
  <2>5. Updates(l)
    BY <1>1, <1>2, <2>4 DEF Updates, CallOK
  <2>6. \A j \in 1 .. Len(desc') : j > Len(desc) => ~IsRelocate(j)'
    BY <1>1, <2>2
  <2> QED BY <1>2, <2>2, <2>3, <2>4, <2>5, <2>6, UpdateTurn
<1>4. CASE op[l.curr] # l.curr_op
  <2>1. Retry(t, l) /\ UNCHANGED heap
    BY <1>4 DEF DeleteMark, CASOp, heap
  <2> QED BY <1>2, <2>1, AgainTurn
<1> QED BY <1>3, <1>4

(* 165-169: to publish a relocation decides nothing yet. *)
LEMMA AnnounceTurn ==
    ASSUME Inv, CallsInv, Trees, NEW g \in Labels, OrderInv(g), NEW t \in All, NEW l, l = loc[t],
           pc[t] = "DeleteRelocate", DeleteRelocate(t, l)
    PROVE  Turned
<1>1. DOMAIN l = DOMAIN NoLocals /\ CallOK(pc[t], l) /\ l.start # Root
  BY Here DEF Place, CallsInv, Moving
<1>2. /\ pc[t] \notin Helpers \cup {"idle", "Return"} /\ pc[t] \notin Relocating
      /\ "RelocateState" \in Relocating /\ "RelocateState" \in Helpers
      /\ "RelocateState" \notin Inserting \cup Deleting \cup Marking \cup Linking
  BY DEF Helpers, Marking, Linking, Relocating, Inserting, Deleting
<1>3. CASE op[l.curr] = l.curr_op
  <2>1. PICK i, m : i = Len(desc) + 1 /\ m = [l EXCEPT !.helped = i, !.then = "answer"]
    OBVIOUS
  <2>2. Step(t, "RelocateState", m)
    BY <1>3, <2>1 DEF DeleteRelocate
  <2>3. /\ m.fn = l.fn /\ m.k = l.k /\ m.start = l.start /\ m.then = "answer"
        /\ m.helped = i /\ m.curr = l.curr
    BY <1>1, <2>1 DEF NoLocals
  <2>4. /\ Idles /\ IsRelocate(i)' /\ ~Committed(i)' /\ l.curr # desc'[i].dest
        /\ desc'[i].key_to_remove = l.k /\ Len(desc') = i /\ Len(desc) \in Nat
    BY <1>3, <2>1, Announces
  <2>5. l.fn = "delete" /\ l.then # "answer"
    BY <1>1, <1>2 DEF CallOK
  <2>6. CallOK("RelocateState", m)'
    BY <1>2, <2>3, <2>4, <2>5 DEF CallOK
  <2>7. OwnsStay(pc[t], loc[t], "RelocateState", m)
    <3>1. \A j \in Nat : Own("RelocateState", m, j) => j > Len(desc)
      BY <2>1, <2>3, <2>4 DEF Own
    <3>2. \A j : ~Own(pc[t], loc[t], j)
      BY <1>2 DEF Own
    <3>3. \A j \in 1 .. Len(desc') : j > Len(desc) => Own("RelocateState", m, j)
      BY <1>2, <2>1, <2>3, <2>4 DEF Own
    <3> QED BY <3>1, <3>2, <3>3 DEF OwnsStay
  <2>8. Decided("RelocateState", m)' <=> Decided(pc[t], loc[t])
    <3>1. ~Committed(m.helped)'
      BY <2>3, <2>4 DEF Committed
    <3>2. ~Decided("RelocateState", m)'
      BY <1>2, <3>1 DEF Decided
    <3>3. ~Decided(pc[t], loc[t])
      BY <1>2, <2>5 DEF Decided
    <3> QED BY <3>2, <3>3
  <2>9. Proceeds(t, "RelocateState", m)
    BY <1>2, <2>2, <2>3 DEF Proceeds, Step
  <2> QED BY <2>4, <2>6, <2>7, <2>8, <2>9, SilentTurn DEF Trees
<1>4. CASE op[l.curr] # l.curr_op
  BY <1>2, <1>4, AgainTurn DEF DeleteRelocate
<1> QED BY <1>3, <1>4

(* 212: a relocation reaches its destination, which is the update of the   *)
(* thread that published it, whoever did the CAS.                          *)
LEMMA DestTurn ==
    ASSUME Inv, CallsInv, Trees, NEW g \in Labels, OrderInv(g), NEW t \in All, NEW l, l = loc[t],
           pc[t] = "RelocateDest", RelocateDest(t, l, desc[l.helped])
    PROVE  Turned
<1>1. PICK i, d : i = l.helped /\ d = desc[i]
  OBVIOUS
<1>2. CASE op[d.dest] # d.dest_op
  BY <1>1, <1>2, LateDestTurn
<1>3. CASE op[d.dest] = d.dest_op
  <2>1. /\ MovesSame /\ IsRelocate(i) /\ d.state = "ONGOING" /\ ~Committed(i) /\ Committed(i)'
        /\ \A j \in 1 .. Len(desc) : IsRelocate(j) /\ j # i => OutcomeStays(j)
        /\ d.key_to_remove \in KeySet /\ KeySet' = KeySet \ {d.key_to_remove}
    BY <1>1, <1>3, Reaches
  <2>2. /\ pc[t] \in Relocating /\ "RelocateSeen" \in Relocating /\ pc[t] \notin {"idle", "Return"}
        /\ "RelocateSeen" \in Helpers /\ "RelocateSeen" \notin Inserting \cup Deleting \cup Marking \cup Linking
        /\ pc[t] \notin Marking \cup Linking /\ pc[t] \in Helpers
    BY DEF Helpers, Marking, Linking, Relocating, Inserting, Deleting
  <2>3. CallOK(pc[t], l) /\ i \in 1 .. Len(desc) /\ i \in Nat
    BY <1>1, <2>2, Helping DEF CallsInv
  <2>4. Step(t, "RelocateSeen", l) /\ Len(desc') = Len(desc)
    BY DEF RelocateDest, CASOp
  <2>5. CallOK("RelocateSeen", l)
    BY <2>2, <2>3 DEF CallOK
  <2>6. CallOK("RelocateSeen", l)'
    BY <1>1, <2>1, <2>5, CallOKStays
  <2>7. OwnsStay(pc[t], loc[t], "RelocateSeen", l)
    <3>1. Len(desc) \in Nat
      BY HeapTypes DEF Trees
    <3> QED BY <2>2, <2>4, <3>1 DEF OwnsStay, Own
  <2>8. Proceeds(t, "RelocateSeen", l)
    BY <2>2, <2>4 DEF Proceeds, Step
  <2>9. CallsInv'
    BY <2>1, <2>6, <2>7, <2>8, CallsStay DEF Proceeds, Trees
  <2>10. PICK u \in All : Own(pc[u], loc[u], i)
    BY <1>1, <2>1, <2>3 DEF CallsInv
  <2>11. PICK p, c : p = pc[u] /\ c = loc[u]
    OBVIOUS
  <2>12. /\ p \in Relocating /\ c.then = "answer" /\ c.helped = i /\ p # "idle"
         /\ p \notin {"Return"} \cup Marking \cup Linking
    BY <2>10, <2>11 DEF Own, Relocating, Marking, Linking
  <2>13. Updates(c)
    <3>1. CallOK(p, c)
      BY <2>11 DEF CallsInv
    <3>2. c.fn = "delete" /\ c.k = d.key_to_remove
      BY <1>1, <2>12, <3>1 DEF CallOK
    <3> QED BY <2>1, <3>2 DEF Updates
  <2>14. ~Decided(p, c)
    BY <2>1, <2>12 DEF Decided
  <2>15. /\ pc'[t] = "RelocateSeen" /\ loc'[t] = l
         /\ \A v \in All : v # t => pc'[v] = pc[v] /\ loc'[v] = loc[v]
    <3>1. pc' = [pc EXCEPT ![t] = "RelocateSeen"] /\ loc' = [loc EXCEPT ![t] = l]
      BY <2>8 DEF Proceeds
    <3> QED BY <3>1, MovedOn
  <2>16. Decided(pc[u], loc[u])'
    <3>1. loc'[u] = c
      BY <2>11, <2>15
    <3>2. Committed(c.helped)'
      BY <2>1, <2>12 DEF Committed
    <3>3. Committed(loc[u].helped)'
      BY <3>1, <3>2 DEF Committed
    <3> QED BY <2>12, <3>1, <3>3 DEF Decided
  <2>17. ASSUME NEW v \in All, v # u PROVE SameDecision(v)
    <3>1. CASE v # t
      <4>1. \A j \in 1 .. Len(desc) : IsRelocate(j) /\ Own(pc[v], loc[v], j) => OutcomeStays(j)
        <5>1. \A j \in Nat : Own(pc[v], loc[v], j) => j # i
          BY <2>3, <2>10, <2>17 DEF CallsInv
        <5> QED BY <2>1, <5>1
      <4> QED BY <2>8, <3>1, <4>1, OthersStay DEF Proceeds
    <3>2. CASE v = t
      <4>1. l.then # "answer"
        <5>1. l.then = "answer" => Own(pc[t], loc[t], i)
          BY <1>1, <2>2 DEF Own
        <5> QED BY <2>3, <2>10, <2>17, <3>2, <5>1 DEF CallsInv
      <4>2. ~Decided(pc[t], loc[t])
        BY <2>2, <4>1 DEF Decided
      <4>3. ~Decided(pc[t], loc[t])'
        BY <2>15, <4>1 DEF Decided
      <4> QED BY <3>2, <4>2, <4>3 DEF SameDecision
    <3> QED BY <3>1, <3>2
  <2>18. Updated(u, "RelocateSeen")
    BY <2>11, <2>12, <2>13, <2>14, <2>16, <2>17 DEF Updated
  <2>19. Turn(t, "RelocateSeen", l)
    BY <2>8, <2>18 DEF Turn
  <2> QED BY <2>9, <2>19 DEF Turned
<1> QED BY <1>2, <1>3

(* What a thread in a call does. *)
LEMMA WorkTurn ==
    ASSUME Inv, CallsInv, Trees, NEW g \in Labels, OrderInv(g), NEW t \in All, Work(t), pc[t] # "Return"
    PROVE  Turned
<1>1. PICK l : l = loc[t]
  OBVIOUS
<1>2. CASE Load(t, l)
  <2>1. UNCHANGED heap
    BY <1>2 DEF Load
  <2>2. CASE pc[t] = "FindOp" /\ FindOp(t, l)
    BY <1>1, <2>1, <2>2, FindOpTurn
  <2>3. CASE (pc[t] = "FindRight" /\ FindRight(t, l)) \/ (pc[t] = "FindLeft" /\ FindLeft(t, l))
    BY <1>1, <2>1, <2>3, FollowTurn
  <2>4. CASE pc[t] = "FindNext" /\ FindNext(t, l)
    BY <1>1, <2>1, <2>4, FindNextTurn
  <2>5. CASE pc[t] = "FindKey" /\ FindKey(t, l)
    BY <1>1, <2>1, <2>5, FindKeyTurn
  <2>6. CASE pc[t] = "FindCheck" /\ FindCheck(t, l)
    BY <1>1, <2>1, <2>6, FindCheckTurn
  <2>7. CASE pc[t] = "FindCheckCurr" /\ FindCheckCurr(t, l)
    BY <1>1, <2>1, <2>7, FindCheckCurrTurn
  <2>8. CASE \/ pc[t] = "InsertOld" /\ InsertOld(t, l)
             \/ pc[t] = "DeleteLeft" /\ DeleteLeft(t, l)
             \/ pc[t] = "DeleteRight" /\ DeleteRight(t, l)
             \/ pc[t] = "DeleteRecheck" /\ DeleteRecheck(t, l)
             \/ pc[t] = "DeleteKey" /\ DeleteKey(t, l)
    BY <1>1, <2>1, <2>8, UpdateLoadTurn
  <2>9. CASE \/ pc[t] = "MarkedSide" /\ MarkedSide(t, l)
             \/ pc[t] = "RelocateState" /\ RelocateState(t, l, desc[l.helped])
             \/ pc[t] = "RelocateSeen" /\ RelocateSeen(t, l, desc[l.helped])
             \/ pc[t] = "RelocateReread" /\ RelocateReread(t, l, desc[l.helped])
    BY <1>1, <2>1, <2>9, HelperLoadTurn
  <2> QED BY <1>2, <2>2, <2>3, <2>4, <2>5, <2>6, <2>7, <2>8, <2>9 DEF Load, At
<1>3. CASE CAS(t, l)
  <2>1. CASE pc[t] = "InsertCAS" /\ InsertCAS(t, l)
    BY <1>1, <2>1, InsertTurn
  <2>2. CASE pc[t] = "DeleteMark" /\ DeleteMark(t, l)
    BY <1>1, <2>2, MarkTurn
  <2>3. CASE pc[t] = "DeleteRelocate" /\ DeleteRelocate(t, l)
    BY <1>1, <2>3, AnnounceTurn
  <2>4. CASE pc[t] = "MarkedCAS" /\ MarkedCAS(t, l)
    BY <1>1, <2>4, MarkedCASTurn
  <2>5. CASE \/ pc[t] = "ChildCAS" /\ ChildCAS(t, l, desc[l.helped])
             \/ pc[t] = "ChildCASDone" /\ ChildCASDone(t, l)
    BY <1>1, <2>5, LinkTurn
  <2>6. CASE pc[t] = "RelocateDest" /\ RelocateDest(t, l, desc[l.helped])
    BY <1>1, <2>6, DestTurn
  <2>7. CASE \/ pc[t] = "RelocateSucceed" /\ RelocateSucceed(t, l)
             \/ pc[t] = "RelocateFail" /\ RelocateFail(t, l)
    BY <1>1, <2>7, StateTurn
  <2>8. CASE \/ pc[t] = "RelocateKey" /\ RelocateKey(t, l, desc[l.helped])
             \/ pc[t] = "RelocateUnflag" /\ RelocateUnflag(t, l, desc[l.helped])
    BY <1>1, <2>8, CarriedOutTurn
  <2>9. CASE pc[t] = "RelocateMark" /\ RelocateMark(t, l, desc[l.helped])
    BY <1>1, <2>9, RelocateMarkTurn
  <2> QED BY <1>3, <2>1, <2>2, <2>3, <2>4, <2>5, <2>6, <2>7, <2>8, <2>9 DEF CAS, At
<1> QED BY <1>1, <1>2, <1>3 DEF Work

-----------------------------------------------------------------------------
(* The abstract calls. *)

Answered(fn, k, r) == [state |-> "answered", fn |-> fn, k |-> k, result |-> r]
Pending(fn, k, s) == [state |-> "pending", fn |-> fn, k |-> k, seen |-> s]
Idle == [state |-> "idle"]

(* A call is answered as soon as it is decided. *)
Shown ==
    \A u \in All :
      /\ pc[u] = "idle" => AbstractCall(u) = Idle
      /\ pc[u] # "idle" /\ Decided(pc[u], loc[u]) =>
           AbstractCall(u) = Answered(loc[u].fn, loc[u].k, pc[u] = "Return" => loc[u].result)
      /\ pc[u] # "idle" /\ ~Decided(pc[u], loc[u]) =>
           AbstractCall(u) = Pending(loc[u].fn, loc[u].k, seen[u])

LEMMA Views == Shown
<1>1. \A u \in All : pc[u] = "Return" \/ Effective(u) <=> Decided(pc[u], loc[u])
  BY DEF Effective, Decided, Marking, Linking
<1> QED BY <1>1 DEF Shown, AbstractCall, InCall, Answered, Pending, Idle

LEMMA ViewsNext == Shown'
BY Views, PTL

(* The history variables are kept up by themselves. *)
LEMMA SeenNext == Observed => SeenInv'
BY DEF Observed, SeenInv

(* What t's step leaves of the calls. *)
LEMMA Proceeded ==
    ASSUME Inv, NEW t \in All, NEW to, NEW m, Proceeds(t, to, m)
    PROVE  /\ pc'[t] = to /\ loc'[t] = m
           /\ \A u \in All : u # t => pc'[u] = pc[u] /\ loc'[u] = loc[u]
           /\ \A u \in All : /\ pc'[u] = "idle" <=> pc[u] = "idle"
                             /\ loc'[u].fn = loc[u].fn /\ loc'[u].k = loc[u].k
<1>1. pc' = [pc EXCEPT ![t] = to] /\ loc' = [loc EXCEPT ![t] = m]
  BY DEF Proceeds
<1>2. /\ pc'[t] = to /\ loc'[t] = m
      /\ \A u \in All : u # t => pc'[u] = pc[u] /\ loc'[u] = loc[u]
  BY <1>1, MovedOn
<1>3. ASSUME NEW u \in All
      PROVE  /\ pc'[u] = "idle" <=> pc[u] = "idle"
             /\ loc'[u].fn = loc[u].fn /\ loc'[u].k = loc[u].k
  <2>1. CASE u = t
    BY <1>2, <2>1 DEF Proceeds
  <2>2. CASE u # t
    BY <1>2, <2>2
  <2> QED BY <2>1, <2>2
<1> QED BY <1>2, <1>3

(* A moment at which the set does not change is one that a call has seen.  *)
LEMMA SeenOnce ==
    ASSUME SeenInv, Observed, KeySet' = KeySet
    PROVE  /\ contents' = contents
           /\ \A u \in All : pc[u] # "idle" /\ pc'[u] # "idle" /\ loc'[u].k = loc[u].k => seen'[u] = seen[u]
<1>1. contents' = contents
  BY DEF SeenInv, Observed
<1>2. ASSUME NEW u \in All, pc[u] # "idle", pc'[u] # "idle", loc'[u].k = loc[u].k
      PROVE  seen'[u] = seen[u]
  <2>1. (loc[u].k \in contents) \in seen[u]
    BY <1>2 DEF SeenInv, InCall
  <2>2. seen'[u] = seen[u] \cup {loc'[u].k \in contents'}
    BY <1>2 DEF Observed, InCall
  <2> QED BY <1>1, <1>2, <2>1, <2>2
<1> QED BY <1>1, <1>2

(* A call whose thread does nothing to it looks the same, as long as the   *)
(* set does not change.                                                    *)
LEMMA CallSame ==
    ASSUME SeenInv, Observed, KeySet' = KeySet, NEW u \in All, SameDecision(u),
           pc'[u] = "idle" <=> pc[u] = "idle", loc'[u].fn = loc[u].fn, loc'[u].k = loc[u].k,
           \/ pc'[u] = pc[u] /\ loc'[u] = loc[u]
           \/ pc[u] # "Return" /\ (pc'[u] = "Return" => loc'[u].result = TRUE)
    PROVE  AbstractCall(u)' = AbstractCall(u)
<1>1. CASE pc[u] = "idle"
  BY <1>1, Views, ViewsNext DEF Shown
<1>2. CASE pc[u] # "idle" /\ ~Decided(pc[u], loc[u])
  <2>1. AbstractCall(u) = Pending(loc[u].fn, loc[u].k, seen[u])
    BY <1>2, Views DEF Shown
  <2>2. AbstractCall(u)' = Pending(loc'[u].fn, loc'[u].k, seen'[u])
    BY <1>2, ViewsNext DEF SameDecision, Shown
  <2>3. seen'[u] = seen[u]
    BY <1>2, SeenOnce
  <2> QED BY <2>1, <2>2, <2>3
<1>3. CASE pc[u] # "idle" /\ Decided(pc[u], loc[u])
  <2>1. AbstractCall(u) = Answered(loc[u].fn, loc[u].k, pc[u] = "Return" => loc[u].result)
    BY <1>3, Views DEF Shown
  <2>2. AbstractCall(u)' = Answered(loc'[u].fn, loc'[u].k, pc'[u] = "Return" => loc'[u].result)
    BY <1>3, ViewsNext DEF SameDecision, Shown
  <2>3. (pc'[u] = "Return" => loc'[u].result) = (pc[u] = "Return" => loc[u].result)
    OBVIOUS
  <2> QED BY <2>1, <2>2, <2>3
<1> QED BY <1>1, <1>2, <1>3

(* A step that does nothing to the set does nothing to the abstract one.   *)
LEMMA SilentRefines ==
    ASSUME Inv, SeenInv, Observed, NEW t \in All, NEW to, NEW m, Proceeds(t, to, m), Silent(to, m)
    PROVE  contents' = contents /\ \A u \in All : AbstractCall(u)' = AbstractCall(u)
<1>1. /\ pc'[t] = to /\ loc'[t] = m
      /\ \A u \in All : u # t => pc'[u] = pc[u] /\ loc'[u] = loc[u]
      /\ \A u \in All : /\ pc'[u] = "idle" <=> pc[u] = "idle"
                        /\ loc'[u].fn = loc[u].fn /\ loc'[u].k = loc[u].k
  BY Proceeded
<1>2. pc[t] # "Return" /\ (to = "Return" => m.result = TRUE) /\ KeySet' = KeySet
  BY DEF Proceeds, Silent
<1>3. ASSUME NEW u \in All PROVE AbstractCall(u)' = AbstractCall(u)
  <2>1. SameDecision(u)
    BY DEF Silent
  <2>2. \/ pc'[u] = pc[u] /\ loc'[u] = loc[u]
        \/ pc[u] # "Return" /\ (pc'[u] = "Return" => loc'[u].result = TRUE)
    BY <1>1, <1>2
  <2>3. /\ pc'[u] = "idle" <=> pc[u] = "idle"
        /\ loc'[u].fn = loc[u].fn /\ loc'[u].k = loc[u].k
    BY <1>1
  <2> QED BY <1>2, <2>1, <2>2, <2>3, CallSame
<1> QED BY <1>2, <1>3, SeenOnce

(* The two functions of abstract calls differ in one place. *)
LEMMA OneCall ==
    ASSUME NEW t \in All, NEW c, AbstractCall(t)' = c,
           \A u \in All \ {t} : AbstractCall(u)' = AbstractCall(u)
    PROVE  [u \in All |-> AbstractCall(u)]' = [[u \in All |-> AbstractCall(u)] EXCEPT ![t] = c]
OBVIOUS

(* An answer that changes nothing is one that the call has seen to be      *)
(* right.                                                                  *)
LEMMA ReplyRefines ==
    ASSUME Inv, SeenInv, Observed, NEW t \in All, NEW to, NEW m, Proceeds(t, to, m), Replies(t, to, m)
    PROVE  Abstract!Observe(t)
<1>1. /\ pc'[t] = to /\ loc'[t] = m
      /\ \A u \in All : u # t => pc'[u] = pc[u] /\ loc'[u] = loc[u]
      /\ \A u \in All : /\ pc'[u] = "idle" <=> pc[u] = "idle"
                        /\ loc'[u].fn = loc[u].fn /\ loc'[u].k = loc[u].k
  BY Proceeded
<1>2. /\ pc[t] # "idle" /\ KeySet' = KeySet /\ ~Decided(pc[t], loc[t]) /\ to = "Return" /\ RightAnswer(m)
      /\ m.fn = loc[t].fn /\ m.k = loc[t].k
  BY DEF Proceeds, Replies
<1>3. PICK fn, k, s, r : fn = loc[t].fn /\ k = loc[t].k /\ s = seen[t] /\ r = m.result
  OBVIOUS
<1>4. AbstractCall(t) = Pending(fn, k, s)
  BY <1>2, <1>3, Views DEF Shown
<1>5. AbstractCall(t)' = Answered(fn, k, r)
  <2>1. Decided(pc[t], loc[t])' /\ pc'[t] = "Return" /\ loc'[t] = m
    BY <1>1, <1>2 DEF Decided
  <2>2. AbstractCall(t)' = Answered(m.fn, m.k, TRUE => m.result)
    BY <2>1, ViewsNext DEF Shown
  <2>3. (TRUE => m.result) = r
    <3>1. r = TRUE \/ r = FALSE
      BY <1>2, <1>3 DEF RightAnswer
    <3>2. CASE r = TRUE
      BY <1>3, <3>2
    <3>3. CASE r = FALSE
      BY <1>3, <3>3
    <3> QED BY <3>1, <3>2, <3>3
  <2> QED BY <1>2, <1>3, <2>2, <2>3
<1>6. \A u \in All \ {t} : AbstractCall(u)' = AbstractCall(u)
  BY <1>1, <1>2, CallSame DEF Replies
<1>7. contents' = contents
  BY <1>2, SeenOnce
<1>8. /\ (k \in contents) \in s /\ contents = KeySet
  BY <1>2, <1>3 DEF SeenInv, InCall
<1>9. \/ fn = "search" /\ r \in s
      \/ fn = "insert" /\ TRUE \in s /\ r = FALSE
      \/ fn = "delete" /\ FALSE \in s /\ r = FALSE
  <2>1. RightAnswer(m) /\ m.fn = fn /\ m.k = k /\ m.result = r
    BY <1>2, <1>3
  <2>2. CASE k \in contents
    <3>1. (k \in contents) = TRUE
      BY <2>2
    <3>2. TRUE \in s
      BY <1>8, <3>1
    <3>3. CASE m.fn = "search" /\ m.result = (m.k \in KeySet)
      <4>1. m.k \in KeySet
        BY <1>8, <2>1, <2>2
      <4>2. m.result = TRUE
        BY <3>3, <4>1
      <4> QED BY <2>1, <3>2, <3>3, <4>2
    <3>4. CASE m.fn = "insert" /\ m.result = FALSE
      BY <2>1, <3>2, <3>4
    <3>5. CASE m.k \notin KeySet
      BY <1>8, <2>1, <2>2, <3>5
    <3> QED BY <2>1, <3>3, <3>4, <3>5 DEF RightAnswer
  <2>3. CASE k \notin contents
    <3>1. (k \in contents) = FALSE
      BY <2>3
    <3>2. FALSE \in s
      BY <1>8, <3>1
    <3>3. CASE m.fn = "search" /\ m.result = (m.k \in KeySet)
      <4>1. (m.k \in KeySet) = FALSE
        BY <1>8, <2>1, <2>3
      <4>2. m.result = FALSE
        BY <3>3, <4>1
      <4> QED BY <2>1, <3>2, <3>3, <4>2
    <3>4. CASE m.fn = "delete" /\ m.result = FALSE
      BY <2>1, <3>2, <3>4
    <3>5. CASE m.k \in KeySet
      BY <1>8, <2>1, <2>3, <3>5
    <3> QED BY <2>1, <3>3, <3>4, <3>5 DEF RightAnswer
  <2> QED BY <2>2, <2>3
<1>10. PICK a : a = [u \in All |-> AbstractCall(u)]
  OBVIOUS
<1>11. [u \in All |-> AbstractCall(u)]' = [a EXCEPT ![t] = Answered(fn, k, r)]
  BY <1>5, <1>6, <1>10, OneCall
<1>12. a[t] = Pending(fn, k, s)
  BY <1>4, <1>10
<1>13. a[t].state = "pending" /\ a[t].fn = fn /\ a[t].k = k /\ a[t].seen = s
  BY <1>12 DEF Pending
<1> QED BY <1>7, <1>9, <1>10, <1>11, <1>13 DEF Abstract!Observe, Abstract!Answered, Answered

(* An update changes the abstract set, and every call that is open sees    *)
(* the new one.                                                            *)
LEMMA UpdateRefines ==
    ASSUME Inv, SeenInv, Observed, NEW t \in All, NEW to, NEW m, Proceeds(t, to, m),
           NEW u \in All, Updated(u, to)
    PROVE  Abstract!Effect(u)
<1>1. /\ pc'[t] = to /\ loc'[t] = m
      /\ \A v \in All : v # t => pc'[v] = pc[v] /\ loc'[v] = loc[v]
      /\ \A v \in All : /\ pc'[v] = "idle" <=> pc[v] = "idle"
                        /\ loc'[v].fn = loc[v].fn /\ loc'[v].k = loc[v].k
  BY Proceeded
<1>2. /\ ~Decided(pc[u], loc[u]) /\ Decided(pc[u], loc[u])' /\ pc[u] # "idle" /\ Updates(loc[u])
      /\ to # "Return" /\ pc[t] # "Return" /\ pc[u] # "Return"
      /\ \A v \in All \ {u} : SameDecision(v)
  BY DEF Updated, Proceeds, Decided
<1>3. PICK fn, k : fn = loc[u].fn /\ k = loc[u].k
  OBVIOUS
<1>4. AbstractCall(u) = Pending(fn, k, seen[u])
  BY <1>2, <1>3, Views DEF Shown
<1>5. AbstractCall(u)' = Answered(fn, k, TRUE)
  <2>1. pc'[u] # "Return" /\ pc'[u] # "idle"
    BY <1>1, <1>2
  <2>2. AbstractCall(u)' = Answered(fn, k, pc'[u] = "Return" => loc'[u].result)
    BY <1>1, <1>2, <1>3, <2>1, ViewsNext DEF Shown
  <2>3. (pc'[u] = "Return" => loc'[u].result) = TRUE
    BY <2>1
  <2> QED BY <2>2, <2>3
<1>6. /\ contents = KeySet /\ contents' = KeySet'
      /\ \A v \in All : pc'[v] # "idle" => seen'[v] = seen[v] \cup {loc'[v].k \in contents'}
  BY DEF SeenInv, Observed, InCall
<1>7. ASSUME NEW v \in All, v # u
      PROVE  \/ /\ AbstractCall(v) = Pending(loc[v].fn, loc[v].k, seen[v])
                /\ AbstractCall(v)' = Pending(loc[v].fn, loc[v].k, seen[v] \cup {(loc[v].k \in contents')})
             \/ /\ AbstractCall(v).state # "pending"
                /\ AbstractCall(v)' = AbstractCall(v)
  <2>1. CASE pc[v] = "idle"
    <3>1. AbstractCall(v) = Idle /\ AbstractCall(v)' = Idle
      BY <1>1, <2>1, Views, ViewsNext DEF Shown
    <3>2. Idle.state # "pending"
      BY DEF Idle
    <3> QED BY <3>1, <3>2
  <2>2. CASE pc[v] # "idle" /\ ~Decided(pc[v], loc[v])
    <3>1. AbstractCall(v) = Pending(loc[v].fn, loc[v].k, seen[v])
      BY <2>2, Views DEF Shown
    <3>2. ~Decided(pc[v], loc[v])'
      BY <1>2, <1>7, <2>2 DEF SameDecision
    <3>3. AbstractCall(v)' = Pending(loc'[v].fn, loc'[v].k, seen'[v])
      BY <1>1, <2>2, <3>2, ViewsNext DEF Shown
    <3>4. seen'[v] = seen[v] \cup {(loc[v].k \in contents')}
      BY <1>1, <1>6, <2>2
    <3> QED BY <1>1, <3>1, <3>3, <3>4
  <2>3. CASE pc[v] # "idle" /\ Decided(pc[v], loc[v])
    <3>1. AbstractCall(v) = Answered(loc[v].fn, loc[v].k, pc[v] = "Return" => loc[v].result)
      BY <2>3, Views DEF Shown
    <3>2. Decided(pc[v], loc[v])'
      BY <1>2, <1>7, <2>3 DEF SameDecision
    <3>3. AbstractCall(v)' = Answered(loc'[v].fn, loc'[v].k, pc'[v] = "Return" => loc'[v].result)
      BY <1>1, <2>3, <3>2, ViewsNext DEF Shown
    <3>4. (pc'[v] = "Return" => loc'[v].result) = (pc[v] = "Return" => loc[v].result)
      BY <1>1, <1>2
    <3>5. AbstractCall(v)' = AbstractCall(v)
      BY <1>1, <3>1, <3>3, <3>4
    <3>6. AbstractCall(v).state = "answered"
      BY <3>1 DEF Answered
    <3> QED BY <3>5, <3>6
  <2> QED BY <2>1, <2>2, <2>3
<1>8. PICK a : a = [v \in All |-> AbstractCall(v)]
  OBVIOUS
<1>9. a[u].state = "pending" /\ a[u].fn = fn /\ a[u].k = k
  BY <1>4, <1>8 DEF Pending
<1>10. \/ fn = "insert" /\ k \notin contents /\ contents' = contents \cup {k}
       \/ fn = "delete" /\ k \in contents /\ contents' = contents \ {k}
  BY <1>2, <1>3, <1>6 DEF Updates
<1>11. ASSUME NEW v \in All
       PROVE  AbstractCall(v)' =
                IF v = u THEN Answered(a[u].fn, a[u].k, TRUE)
                ELSE IF a[v].state = "pending"
                THEN [a[v] EXCEPT !.seen = @ \cup {(a[v].k \in contents')}]
                ELSE a[v]
  <2>1. CASE v = u
    BY <1>5, <1>9, <2>1
  <2>2. CASE v # u /\ a[v].state = "pending"
    <3>0. AbstractCall(v).state = "pending" /\ v # u
      BY <1>8, <2>2
    <3>1. PICK f, x, s : f = loc[v].fn /\ x = loc[v].k /\ s = seen[v]
      OBVIOUS
    <3>2. a[v] = Pending(f, x, s) /\ AbstractCall(v)' = Pending(f, x, s \cup {(x \in contents')})
      BY <1>7, <1>8, <3>0, <3>1
    <3>3. [a[v] EXCEPT !.seen = @ \cup {(a[v].k \in contents')}] = Pending(f, x, s \cup {(x \in contents')})
      BY <3>2 DEF Pending
    <3> QED BY <2>2, <3>2, <3>3
  <2>3. CASE v # u /\ a[v].state # "pending"
    <3>1. AbstractCall(v).state # "pending"
      BY <1>8, <2>3
    <3>2. AbstractCall(v) # Pending(loc[v].fn, loc[v].k, seen[v])
      BY <3>1 DEF Pending
    <3>3. AbstractCall(v)' = AbstractCall(v)
      BY <1>7, <2>3, <3>2
    <3> QED BY <1>8, <2>3, <3>3
  <2> QED BY <2>1, <2>2, <2>3
<1>12. [v \in All |-> AbstractCall(v)]' =
         [v \in All |-> IF v = u THEN Answered(a[u].fn, a[u].k, TRUE)
                        ELSE IF a[v].state = "pending"
                        THEN [a[v] EXCEPT !.seen = @ \cup {(a[v].k \in contents')}]
                        ELSE a[v]]
  BY <1>11
<1> QED BY <1>8, <1>9, <1>10, <1>12 DEF Abstract!Effect, Abstract!Answered, Answered

(* A call begins. *)
LEMMA EnterRefines ==
    ASSUME Inv, CallsInv, SeenInv, Trees, Observed, NEW t \in All,
           NEW fn \in {"insert", "delete", "search"}, NEW k \in AllKeys, Enter(t, fn, k)
    PROVE  CallsInv' /\ Abstract!Call(t, fn, k)
<1>1. PICK c, m : c = [fn |-> fn, k |-> k] /\ m = Frame(c)
  OBVIOUS
<1>2. m.fn = fn /\ m.k = k /\ m.then = "none" /\ m.start = Root
  <2>1. Frame(c).fn = c.fn /\ Frame(c).k = c.k /\ Frame(c).then = "none" /\ Frame(c).start = Root
    BY FrameIs
  <2> QED BY <1>1, <2>1
<1>3. /\ pc[t] = "idle" /\ pc' = [pc EXCEPT ![t] = "FindOp"] /\ loc' = [loc EXCEPT ![t] = m]
      /\ UNCHANGED heap
  BY <1>1 DEF Enter
<1>4. Idles /\ Len(desc') = Len(desc) /\ Len(desc) \in Nat
  BY <1>3, IdleHeap, HeapTypes DEF heap, Trees
<1>5. /\ "FindOp" \notin Helpers \cup Relocating \cup Inserting \cup Deleting /\ "idle" \notin Relocating
      /\ "FindOp" \notin Marking \cup Linking
  BY DEF Helpers, Marking, Linking, Relocating, Inserting, Deleting
<1>6. CallOK("FindOp", m)'
  BY <1>2, <1>5 DEF CallOK
<1>7. OwnsStay(pc[t], loc[t], "FindOp", m)
  BY <1>3, <1>4, <1>5 DEF OwnsStay, Own
<1>8. CallsInv'
  BY <1>3, <1>4, <1>6, <1>7, CallsStay DEF Idles, Trees
<1>9. /\ pc'[t] = "FindOp" /\ loc'[t] = m
      /\ \A u \in All : u # t => pc'[u] = pc[u] /\ loc'[u] = loc[u]
  BY <1>3, MovedOn
<1>10. \A u \in All \ {t} : SameDecision(u)
  BY <1>3, <1>4, OthersStay DEF Idles, OutcomesStay
<1>11. KeySet' = KeySet
  BY <1>4 DEF Idles
<1>12. \A u \in All \ {t} : AbstractCall(u)' = AbstractCall(u)
  BY <1>9, <1>10, <1>11, CallSame
<1>13. contents' = contents
  BY <1>11, SeenOnce
<1>14. AbstractCall(t) = Idle
  BY <1>3, Views DEF Shown
<1>15. AbstractCall(t)' = Pending(fn, k, {(k \in contents)})
  <2>1. ~Decided(pc[t], loc[t])'
    BY <1>2, <1>9 DEF Decided
  <2>2. AbstractCall(t)' = Pending(fn, k, seen'[t])
    BY <1>2, <1>9, <2>1, ViewsNext DEF Shown
  <2>3. seen[t] = {}
    BY <1>3 DEF SeenInv, InCall
  <2>4. seen'[t] = seen[t] \cup {(loc'[t].k \in contents')}
    BY <1>9 DEF Observed, InCall
  <2>5. seen'[t] = {(k \in contents)}
    BY <1>2, <1>9, <1>13, <2>3, <2>4
  <2> QED BY <2>2, <2>5
<1>16. PICK a : a = [u \in All |-> AbstractCall(u)]
  OBVIOUS
<1>17. [u \in All |-> AbstractCall(u)]' = [a EXCEPT ![t] = Pending(fn, k, {(k \in contents)})]
  BY <1>12, <1>15, <1>16, OneCall
<1>18. a[t] = Idle
  BY <1>14, <1>16
<1>19. Abstract!Call(t, fn, k)
  BY <1>13, <1>16, <1>17, <1>18 DEF Abstract!Call, Abstract!Idle, Idle, Pending
<1> QED BY <1>8, <1>19

(* A call ends. *)
LEMMA ReturnRefines ==
    ASSUME Inv, CallsInv, SeenInv, Trees, Observed, NEW t \in All, pc[t] = "Return", Return(t),
           UNCHANGED heap
    PROVE  CallsInv' /\ Abstract!Return(t)
<1>1. pc' = [pc EXCEPT ![t] = "idle"] /\ loc' = [loc EXCEPT ![t] = NoLocals]
  BY DEF Return, Step
<1>2. Idles /\ Len(desc') = Len(desc) /\ Len(desc) \in Nat
  BY IdleHeap, HeapTypes DEF heap, Trees
<1>3. /\ "idle" \notin Helpers \cup Relocating \cup Inserting \cup Deleting /\ pc[t] \notin Relocating
      /\ NoLocals.then = "none" /\ NoLocals.start = Root
  BY DEF Helpers, Marking, Linking, Relocating, Inserting, Deleting, NoLocals
<1>4. CallOK("idle", NoLocals)'
  BY <1>3 DEF CallOK
<1>5. OwnsStay(pc[t], loc[t], "idle", NoLocals)
  BY <1>2, <1>3 DEF OwnsStay, Own
<1>6. CallsInv'
  BY <1>1, <1>2, <1>4, <1>5, CallsStay DEF Idles, Trees
<1>7. /\ pc'[t] = "idle"
      /\ \A u \in All : u # t => pc'[u] = pc[u] /\ loc'[u] = loc[u]
  BY <1>1, MovedOn
<1>8. \A u \in All \ {t} : SameDecision(u)
  BY <1>1, <1>2, OthersStay DEF Idles, OutcomesStay
<1>9. KeySet' = KeySet
  BY <1>2 DEF Idles
<1>10. \A u \in All \ {t} : AbstractCall(u)' = AbstractCall(u)
  BY <1>7, <1>8, <1>9, CallSame
<1>11. contents' = contents
  BY <1>9, SeenOnce
<1>12. AbstractCall(t).state = "answered"
  <2>1. Decided(pc[t], loc[t])
    BY DEF Decided
  <2>2. AbstractCall(t) = Answered(loc[t].fn, loc[t].k, pc[t] = "Return" => loc[t].result)
    BY <2>1, Views DEF Shown
  <2> QED BY <2>2 DEF Answered
<1>13. AbstractCall(t)' = Idle
  BY <1>7, ViewsNext DEF Shown
<1>14. PICK a : a = [u \in All |-> AbstractCall(u)]
  OBVIOUS
<1>15. [u \in All |-> AbstractCall(u)]' = [a EXCEPT ![t] = Idle]
  BY <1>10, <1>13, <1>14, OneCall
<1>16. a[t].state = "answered"
  BY <1>12, <1>14
<1>17. Abstract!Return(t)
  BY <1>11, <1>14, <1>15, <1>16 DEF Abstract!Return, Abstract!Idle, Idle
<1> QED BY <1>6, <1>17

-----------------------------------------------------------------------------
(* The refinement. *)

LInv == Inv /\ Ordered /\ Joined /\ CallsInv /\ SeenInv

LEMMA LInitInv == LInit => LInv /\ Abstract!CInit
<1> SUFFICES ASSUME LInit PROVE LInv /\ Abstract!CInit
  OBVIOUS
<1>1. Init /\ contents = KeySet /\ seen = [t \in All |-> {}]
  BY DEF LInit
<1>2. Inv /\ Ordered /\ Joined
  BY <1>1, InitInv, InitOrder, InitJoined
<1>3. pc = [t \in All |-> "idle"] /\ loc = [t \in All |-> NoLocals] /\ Len(desc) = 0 /\ Nodes = {Root}
  BY <1>1 DEF Init, Nodes, Root
<1>4. CallsInv
  <2>1. /\ "idle" \notin Helpers \cup Relocating \cup Inserting \cup Deleting
        /\ NoLocals.then = "none" /\ NoLocals.start = Root
    BY DEF Helpers, Marking, Linking, Relocating, Inserting, Deleting, NoLocals
  <2>2. CallOK("idle", NoLocals)
    BY <2>1 DEF CallOK
  <2> QED BY <1>3, <2>1, <2>2 DEF CallsInv, Own
<1>5. KeySet = {}
  BY <1>2, <1>3, KeySetIs DEF Inv, Live
<1>6. SeenInv
  BY <1>1, <1>3 DEF SeenInv, InCall
<1>7. \A u \in All : AbstractCall(u) = Idle
  BY <1>3, Views DEF Shown
<1>8. Abstract!CInit
  BY <1>1, <1>5, <1>7 DEF Abstract!CInit, Abstract!Idle, Idle
<1> QED BY <1>2, <1>4, <1>6, <1>8 DEF LInv

LEMMA LStutter ==
    ASSUME LInv, UNCHANGED svars, Trees
    PROVE  CallsInv' /\ SeenInv' /\ UNCHANGED Abstract!cvars
<1>1. UNCHANGED <<pc, loc, desc, op, contents, seen>> /\ UNCHANGED heap
  BY DEF svars, heap
<1>2. KeySet' = KeySet
  BY <1>1, IdleHeap DEF Idles
<1>3. CallsInv'
  BY <1>1 DEF LInv, CallsInv, CallOK, Own, IsRelocate
<1>4. SeenInv'
  BY <1>1, <1>2 DEF LInv, SeenInv, InCall
<1>5. \A u \in All : AbstractCall(u)' = AbstractCall(u)
  BY <1>1 DEF AbstractCall, InCall, Effective, Committed
<1> QED BY <1>1, <1>3, <1>4, <1>5 DEF Abstract!cvars

(* Every step keeps the invariant and is one of the abstract set or        *)
(* invisible to it.                                                        *)
LEMMA LNextInv == LInv /\ [LNext]_svars => LInv' /\ [Abstract!CNext]_(Abstract!cvars)
<1> SUFFICES ASSUME LInv, [LNext]_svars PROVE LInv' /\ [Abstract!CNext]_(Abstract!cvars)
  OBVIOUS
<1>1. Inv /\ Ordered /\ Joined /\ CallsInv /\ SeenInv
  BY DEF LInv
<1>2. [Next]_vars
  BY DEF LNext, svars, vars
<1>3. PICK g \in Labels : OrderInv(g)
  BY <1>1 DEF Ordered
<1>4. Inv' /\ Advance /\ Ordered' /\ Joined'
  BY <1>1, <1>2, <1>3, NextInv, NextOrder, ReachTurn
<1>5. Trees
  BY <1>1, <1>4 DEF Trees, Inv
<1>6. CASE UNCHANGED svars
  BY <1>4, <1>5, <1>6, LStutter DEF LInv
<1>7. CASE LNext
  <2>1. Next /\ Observed /\ SeenInv'
    BY <1>7, SeenNext DEF LNext
  <2>2. ASSUME NEW t \in All, NEW fn \in {"insert", "delete", "search"}, NEW k \in AllKeys, Enter(t, fn, k)
        PROVE  CallsInv' /\ [Abstract!CNext]_(Abstract!cvars)
    BY <1>1, <1>5, <2>1, <2>2, EnterRefines DEF Abstract!CNext
  <2>3. CASE Fill
    <3>1. Head(fill) \in AllKeys
      BY <1>1, <2>3, HeadTailProperties DEF Fill, Inv, FillInv
    <3>2. Enter(Main, "insert", Head(fill)) /\ Main \in All
      BY <2>3 DEF Fill, All
    <3> QED BY <1>4, <2>1, <2>2, <3>1, <3>2 DEF LInv
  <2>4. CASE \E t \in Threads, fn \in {"insert", "delete", "search"} : \E k \in Keys[t] : Call(t, fn, k)
    <3>1. PICK t \in Threads, fn \in {"insert", "delete", "search"} : \E k \in Keys[t] : Call(t, fn, k)
      BY <2>4
    <3>2. PICK k \in Keys[t] : Call(t, fn, k)
      BY <3>1
    <3>3. k \in AllKeys /\ t \in All /\ Enter(t, fn, k)
      BY <3>2, LFAssumption DEF AllKeys, Range, Call, All
    <3> QED BY <1>4, <2>1, <2>2, <3>3 DEF LInv
  <2>5. ASSUME NEW t \in All, Work(t)
        PROVE  CallsInv' /\ [Abstract!CNext]_(Abstract!cvars)
    <3>1. CASE pc[t] = "Return"
      <4>1. Return(t) /\ UNCHANGED heap
        BY <2>5, <3>1 DEF Work, Load, CAS, At
      <4> QED BY <1>1, <1>5, <2>1, <3>1, <4>1, ReturnRefines DEF Abstract!CNext
    <3>2. CASE pc[t] # "Return"
      <4>1. Turned
        BY <1>1, <1>3, <1>5, <2>5, <3>2, WorkTurn
      <4>2. CallsInv'
        BY <4>1 DEF Turned
      <4>3. PICK x \in All : \E to, m : Turn(x, to, m)
        BY <4>1 DEF Turned
      <4>4. PICK to, m : Turn(x, to, m)
        BY <4>3
      <4>5. Proceeds(x, to, m)
        BY <4>4 DEF Turn
      <4>6. CASE Silent(to, m)
        <5>1. contents' = contents /\ \A u \in All : AbstractCall(u)' = AbstractCall(u)
          BY <1>1, <2>1, <4>5, <4>6, SilentRefines
        <5>2. UNCHANGED Abstract!cvars
          BY <5>1 DEF Abstract!cvars
        <5> QED BY <4>2, <5>2
      <4>7. CASE Replies(x, to, m)
        BY <1>1, <2>1, <4>2, <4>5, <4>7, ReplyRefines DEF Abstract!CNext
      <4>8. ASSUME NEW u \in All, Updated(u, to) PROVE [Abstract!CNext]_(Abstract!cvars)
        BY <1>1, <2>1, <4>5, <4>8, UpdateRefines DEF Abstract!CNext
      <4> QED BY <4>2, <4>4, <4>6, <4>7, <4>8 DEF Turn
    <3> QED BY <3>1, <3>2
  <2>6. CASE \E t \in All : Work(t)
    BY <1>4, <2>1, <2>5, <2>6 DEF LInv
  <2> QED BY <2>1, <2>3, <2>4, <2>6 DEF Next
<1> QED BY <1>6, <1>7

(* The invariant of the refinement. *)
LEMMA LInvariance == LSpec => []LInv
<1>1. LInit => LInv
  BY LInitInv
<1>2. LInv /\ [LNext]_svars => LInv'
  BY LNextInv
<1> QED BY <1>1, <1>2, PTL DEF LSpec

(* The non-blocking tree is a linearizable set: insert, deleteNode and     *)
(* search answer as a set would at some moment between call and return,    *)
(* and an update changes the set once, however many threads help it        *)
(* (lockfree.cpp:122-172).                                                 *)
THEOREM IsASet == LSpec => ImplementsConcurrentSet
<1>1. LInit => Abstract!CInit
  BY LInitInv
<1>2. LInv /\ [LNext]_svars => [Abstract!CNext]_(Abstract!cvars)
  BY LNextInv
<1> QED BY <1>1, <1>2, LInvariance, PTL DEF LSpec, ImplementsConcurrentSet, Abstract!CSpec
=============================================================================
