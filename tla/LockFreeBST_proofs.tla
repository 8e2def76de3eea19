-------------------------- MODULE LockFreeBST_proofs --------------------------
(***************************************************************************)
(* Proofs about the non-blocking tree, for any number of threads, keys and *)
(* calls: what a published operation expects stays true until it is done,  *)
(* a marked node does not change, and no flag is left without a thread     *)
(* that clears it.  Two facts carry them.  The operation words of a node   *)
(* only move forward, so that a CAS that succeeds has missed nothing.  And *)
(* a node that was taken out is never linked again, so that a late CAS on  *)
(* a child pointer finds something else.                                   *)
(***************************************************************************)
EXTENDS LockFreeBST, SequenceTheorems, TLAPS

(* The order in which the words of a node follow each other: an operation  *)
(* is newer than the one before it; it is at work, then over, then, if it  *)
(* was the last, marked.                                                   *)
Rank == [CHILDCAS |-> 0, RELOCATE |-> 0, NONE |-> 1, MARK |-> 2]

Words == [flag : Flags, op : Nat]

Before(v, w) == v.op < w.op \/ (v.op = w.op /\ Rank[v.flag] < Rank[w.flag])
UpTo(v, w) == v = w \/ Before(v, w)

(* No operation is at work. *)
Quiet(w) == w \in Words /\ w.flag = "NONE"

(* The two kinds of operation. *)
IsChildCAS(i) ==
    /\ i \in 1 .. Len(desc)
    /\ DOMAIN desc[i] = {"side", "expected", "update"}
IsRelocate(i) ==
    /\ i \in 1 .. Len(desc)
    /\ DOMAIN desc[i] = {"state", "dest", "dest_op", "key_to_remove", "key_to_put"}

(* No pointer leads to the root. *)
Pointers == {p \in [null : BOOLEAN, node : 0 .. Len(key)] : p.null \/ p.node > Root}

(* The heap is well formed: a flag is that of the operation it comes with. *)
HeapInv ==
    /\ key \in Seq(AllKeys \cup {-1})
    /\ op \in Seq(Words)
    /\ child \in Seq([Sides -> [null : BOOLEAN, node : Nat]])
    /\ desc \in Seq(Range(desc))
    /\ Len(key) > 0 /\ Len(op) = Len(key) /\ Len(child) = Len(key)
    /\ op[Root].flag \in {"NONE", "CHILDCAS"}
    /\ \A n \in Nodes :
         /\ op[n] \in Words /\ op[n].op <= Len(desc)
         /\ op[n].flag = "CHILDCAS" => IsChildCAS(op[n].op)
         /\ op[n].flag = "RELOCATE" => IsRelocate(op[n].op)
         /\ child[n] \in [Sides -> Pointers]

(* A change of a child pointer has been carried out, wherever it was       *)
(* published; and a node is gone once the one that removes it has.         *)
Done(i) == \A n \in Nodes : op[n] = Word("CHILDCAS", i) => child[n][desc[i].side] = desc[i].update
Gone(m) == \E i \in 1 .. Len(desc) : IsChildCAS(i) /\ desc[i].expected = Ptr(m) /\ Done(i)

(* A new node, published with the operation that will link it. *)
Waiting(n) ==
    /\ op[n].flag = "CHILDCAS"
    /\ child[n][desc[op[n].op].side] = desc[op[n].op].expected
Hidden(f) ==
    \E n \in Nodes :
        Waiting(n) /\ desc[op[n].op].expected.null /\ desc[op[n].op].update = Ptr(f)
Known(n) == n \in Nodes /\ ~Hidden(n)

(* A pointer that is never written again. *)
Spent(p) == (p.null /\ p.node = NoNode) \/ Gone(p.node)

(* The word of n was w. *)
Seen(n, w) == Known(n) /\ Quiet(w) /\ UpTo(w, op[n])

(* What an operation says about the nodes it is to change. *)
ChildCASOK(i) ==
    LET d == desc[i]
    IN  /\ d.side \in Sides /\ d.expected \in Pointers /\ d.update \in Pointers
        /\ d.expected # d.update
        /\ d.expected.null => Spent(d.expected)

RelocateOK(i) ==
    LET d == desc[i]
    IN  /\ d.state \in {"ONGOING", "SUCCEED", "FAILED"}
        /\ d.dest # Root /\ Seen(d.dest, d.dest_op) /\ d.dest_op.op < i
        /\ d.key_to_put \in AllKeys \cup {-1}
        /\ d.state = "SUCCEED" => UpTo(Word("RELOCATE", i), op[d.dest])
        /\ d.state = "FAILED" => op[d.dest] \notin {d.dest_op, Word("RELOCATE", i)}

DescInv ==
    \A i \in 1 .. Len(desc) : (IsChildCAS(i) /\ ChildCASOK(i)) \/ (IsRelocate(i) /\ RelocateOK(i))

(* What an operation that waits to change a pointer can count on: the node *)
(* it adds is as it was made and has been seen by nobody; the node it      *)
(* takes out is marked and has the child it had.                           *)
Adds(n, d) ==
    /\ ~d.update.null
    /\ op[d.update.node] = NullWord
    /\ child[d.update.node] = NoChildren
    /\ \A m \in Nodes, s \in Sides : child[m][s] # d.update
    /\ \A m \in Nodes : Waiting(m) /\ desc[op[m].op].update = d.update => m = n
TakesOut(d) ==
    /\ op[d.expected.node].flag = "MARK"
    /\ d.update = Replacement(d.expected.node)

PendingInv ==
    \A n \in Nodes :
        LET d == desc[op[n].op]
        IN  /\ op[n].flag = "CHILDCAS" =>
                 /\ child[n][d.side] \in {d.expected, d.update}
                 /\ \A m \in Nodes : op[m] = op[n] => m = n
            /\ Waiting(n) => IF d.expected.null THEN Adds(n, d) ELSE TakesOut(d)
            /\ op[n].flag = "RELOCATE" /\ d.dest # n =>
                 \A m \in Nodes : op[m] = op[n] => m \in {n, d.dest}

(* What is not gone hangs together: a node that is gone was marked; one    *)
(* that is not has children that are not, and no other parent.             *)
TreeInv ==
    /\ \A n \in Nodes : Gone(n) => op[n].flag = "MARK"
    /\ \A n \in Nodes, s \in Sides :
         /\ child[n][s].null => Spent(child[n][s])
         /\ ~child[n][s].null /\ ~Gone(n) => ~Gone(child[n][s].node)
    /\ \A n, m \in Nodes, r, s \in Sides :
         ~Gone(n) /\ ~Gone(m) /\ ~child[n][r].null /\ child[m][s] = child[n][r] => n = m /\ r = s

Heap == HeapInv /\ DescInv /\ PendingInv /\ TreeInv

(* Places of the code. *)
Searching == {"FindRight", "FindLeft", "FindNext", "FindKey", "FindCheck", "FindCheckCurr"}
Inserting == {"InsertOld", "InsertCAS"}
Deleting == {"DeleteLeft", "DeleteRight", "DeleteMark"}
Moving == {"DeleteRecheck", "DeleteKey", "DeleteRelocate"}
Marking == {"MarkedSide", "MarkedCAS"}
Linking == {"ChildCAS", "ChildCASDone"}
Relocating == {"RelocateState", "RelocateDest", "RelocateSeen", "RelocateSucceed", "RelocateFail",
               "RelocateReread", "RelocateKey", "RelocateUnflag", "RelocateMark"}

(* c was a child of p, and p had the word w just before that was read. *)
Link(p, w, c) ==
    /\ Seen(p, w) /\ Known(c) /\ c # Root
    /\ ~Gone(p) /\ ~Gone(c) => \E s \in Sides : child[p][s] = Ptr(c)
    /\ op[p] = w => ~Gone(c)

UnderParent(l) == Link(l.parent, l.parent_op, l.curr)

(* The second find of deleteNode runs, from dest. *)
SecondFind(l) ==
    l.start # Root =>
        /\ l.start = l.dest /\ Seen(l.dest, l.dest_op)
        /\ op[l.dest] = l.dest_op => ~child[l.dest].right.null

(* find met a null pointer at curr. *)
EndsHere(l) == op[l.curr] = l.curr_op => child[l.curr][FoundSide(l)].null

(* The second find has gone further than dest, or dest has changed. *)
LeftDest(l) == l.start # Root => UnderParent(l) \/ op[l.dest] # l.dest_op

(* t helps a change of a child pointer. *)
Links(l) ==
    /\ IsChildCAS(l.helped) /\ Known(l.target)
    /\ UpTo(Word("CHILDCAS", l.helped), op[l.target])
    /\ \A n \in Nodes : op[n] = Word("CHILDCAS", l.helped) => n = l.target

(* The change is over, so that the pointer cannot be what it was. *)
TooLate(l) ==
    op[l.target] # Word("CHILDCAS", l.helped) =>
        /\ Spent(desc[l.helped].expected)
        /\ child[l.target][desc[l.helped].side] # desc[l.helped].expected

(* The change has been carried out. *)
Linked(l) ==
    op[l.target] = Word("CHILDCAS", l.helped) =>
        child[l.target][desc[l.helped].side] = desc[l.helped].update

(* t helps a relocation that it met at curr: there it was published, or    *)
(* curr is where it goes.  The node it was published at keeps its flag     *)
(* until the outcome is known.                                             *)
Relocates(l) ==
    LET d == desc[l.helped]
    IN  /\ IsRelocate(l.helped)
        /\ UpTo(Word("RELOCATE", l.helped), op[l.curr])
        /\ l.curr # d.dest =>
             /\ \A n \in Nodes : op[n] = Word("RELOCATE", l.helped) => n \in {l.curr, d.dest}
             /\ d.state # "FAILED" =>
                  op[l.curr] \in {Word("RELOCATE", l.helped), Word("MARK", l.helped)}
        /\ l.parent = d.dest
           /\ op[d.dest] \in {d.dest_op, Word("RELOCATE", l.helped), Word("NONE", l.helped)} =>
             ~Gone(l.curr)

(* The word of dest is neither the one the relocation expects nor its own. *)
DestPassed(l) ==
    LET d == desc[l.helped]
    IN  op[d.dest] \notin {d.dest_op, Word("RELOCATE", l.helped)}

(* What is known of the locals l of a thread at p. *)
Place(p, l) ==
    LET d == desc[l.helped]
    IN
    /\ DOMAIN l = DOMAIN NoLocals
    /\ l.helped \in 0 .. Len(desc)
    /\ l.found \in {"FOUND", "NOTFOUND_L", "NOTFOUND_R"}
    /\ p # "idle" => l.k \in AllKeys
    /\ SecondFind(l)
    /\ p \in Searching \cup Inserting \cup Deleting \cup Moving => Seen(l.curr, l.curr_op)
    /\ p \in {"FindRight", "FindNext", "FindCheck", "FindCheckCurr"} => l.curr = l.start \/ UnderParent(l)
    /\ p = "FindCheckCurr" /\ l.found = "FOUND" => UnderParent(l)
    /\ p \in {"FindKey", "FindLeft", "DeleteKey", "DeleteRelocate"} \cup Deleting \cup Marking \cup Relocating =>
         UnderParent(l)
    /\ p \in {"FindCheck", "FindCheckCurr", "DeleteRecheck"} => LeftDest(l)
    /\ p \in Moving => l.start # Root
    /\ p \in Inserting => l.found # "FOUND"
    /\ p = "DeleteRelocate" => l.new_key \in AllKeys \cup {-1}
    /\ p = "FindNext" => Link(l.curr, l.curr_op, l.next)
    /\ p = "FindCheck" => l.found # "FOUND"
    /\ p \in {"FindCheck", "FindCheckCurr"} \cup Inserting /\ l.found # "FOUND" => EndsHere(l)
    /\ p = "InsertCAS" =>
         /\ l.old \in Pointers
         /\ op[l.curr] = l.curr_op => child[l.curr][FoundSide(l)] = l.old
    /\ p \in Marking => op[l.curr].flag = "MARK"
    /\ p = "MarkedCAS" =>
         /\ l.side \in Sides
         /\ ~Gone(l.parent) /\ ~Gone(l.curr) => child[l.parent][l.side] = Ptr(l.curr)
    /\ p \in Linking => Links(l)
    /\ p = "ChildCAS" => TooLate(l)
    /\ p = "ChildCASDone" => Linked(l)
    /\ p \in Relocating => Relocates(l)
    /\ p = "RelocateSeen" => op[d.dest] # d.dest_op
    /\ p = "RelocateSucceed" => op[d.dest] = Word("RELOCATE", l.helped) \/ d.state = "SUCCEED"
    /\ p \in {"RelocateKey", "RelocateUnflag"} => d.state = "SUCCEED"
    /\ p \in {"RelocateFail", "RelocateMark"} => DestPassed(l)
    /\ p = "RelocateReread" => d.state # "ONGOING"
    /\ p = "RelocateMark" =>
         /\ l.curr # d.dest /\ l.state = d.state /\ d.state # "ONGOING"
         /\ l.state = "SUCCEED" => UpTo(Word("NONE", l.helped), op[d.dest])

LocalInv ==
    /\ DOMAIN pc = All /\ DOMAIN loc = All
    /\ \A t \in All : Place(pc[t], loc[t])

(* The operation i that node n shows has a thread at work on it; a         *)
(* relocation has one that met it where it was published.                  *)
AtWork(p, l, n) ==
    /\ op[n].flag = "CHILDCAS" => p \in Linking /\ l.helped = op[n].op
    /\ op[n].flag = "RELOCATE" =>
         /\ p \in Relocating /\ l.helped = op[n].op
         /\ n # desc[op[n].op].dest => l.curr = n

AttendInv ==
    \A n \in Nodes : op[n].flag \in {"CHILDCAS", "RELOCATE"} => \E t \in All : AtWork(pc[t], loc[t], n)

(* Main has keys of the tree left. *)
FillInv == fill \in Seq(AllKeys)

Inv == Heap /\ LocalInv /\ AttendInv /\ FillInv

-----------------------------------------------------------------------------
(* How the words move. *)

LEMMA UpToTrans ==
    ASSUME NEW u \in Words, NEW v \in Words, NEW w \in Words, UpTo(u, v), UpTo(v, w)
    PROVE  UpTo(u, w) /\ (u # v => u # w)
BY DEF UpTo, Before, Words, Rank, Flags

(* What a step does to the words and to the operations at most. *)
Forward ==
    /\ Len(key) <= Len(key') /\ Len(key') \in Nat
    /\ \A n \in Nodes : op'[n] \in Words /\ UpTo(op[n], op'[n])
    /\ \A n \in Nodes : op[n].flag = "MARK" => op'[n] = op[n]
    /\ \A n \in Nodes' \ Nodes : op'[n] = NullWord
    /\ Len(desc) <= Len(desc') /\ Len(desc') \in Nat
    /\ \A i \in 1 .. Len(desc) :
         /\ DOMAIN desc'[i] = DOMAIN desc[i]
         /\ IsChildCAS(i) => desc'[i] = desc[i]
         /\ IsRelocate(i) =>
              /\ desc'[i].dest = desc[i].dest /\ desc'[i].dest_op = desc[i].dest_op
              /\ desc'[i].key_to_put = desc[i].key_to_put
              /\ desc[i].state # "ONGOING" => desc'[i].state = desc[i].state

(* A flag comes with a new operation, or a relocation reaches its          *)
(* destination.  A change that leaves a node has been carried out, and the *)
(* outcome of a relocation that does is known: it marks the node it was    *)
(* published at, unless it failed.                                         *)
NewWords ==
    \A n \in Nodes : op'[n] # op[n] =>
        /\ op'[n].flag = "CHILDCAS" => op'[n].op > Len(desc)
        /\ op'[n].flag = "RELOCATE" /\ op'[n].op <= Len(desc) =>
             desc[op'[n].op].dest = n /\ desc[op'[n].op].dest_op = op[n]
        /\ op'[n].flag \in {"NONE", "MARK"} => op'[n].op = op[n].op
        /\ op[n].flag = "CHILDCAS" =>
             /\ child[n][desc[op[n].op].side] = desc[op[n].op].update
             /\ child'[n] = child[n]
        /\ op[n].flag = "RELOCATE" =>
             IF desc[op[n].op].dest = n THEN desc[op[n].op].state = "SUCCEED"
             ELSE op'[n].flag = "MARK" \/ desc[op[n].op].state = "FAILED"

(* A pointer changes under the word of the operation that does it, to one  *)
(* that is not spent; the node it leaves is gone.                          *)
NewPointers ==
    /\ \A n \in Nodes, s \in Sides : child'[n][s] # child[n][s] =>
         /\ op[n].flag = "CHILDCAS" /\ op'[n] = op[n]
         /\ s = desc[op[n].op].side /\ child[n][s] = desc[op[n].op].expected
         /\ child'[n][s] \in Pointers' /\ ~Spent(child'[n][s])
         /\ \A c : child[n][s] = Ptr(c) => Gone(c)'
    /\ \A n : Known(n) => Known(n)'
    /\ \A n : Gone(n) => Gone(n)'
    /\ \A m : Gone(m)' =>
         \/ Gone(m)
         \/ \E n \in Nodes, s \in Sides :
              child[n][s] = Ptr(m) /\ op[n].flag = "CHILDCAS" /\ op'[n] = op[n]

Advance == Forward /\ NewWords /\ NewPointers

(* A pointer is one of the two forms. *)
LEMMA PtrOf ==
    ASSUME NEW S, NEW p \in [null : BOOLEAN, node : S]
    PROVE  /\ ~p.null => p = Ptr(p.node)
           /\ p.null => p = SetNull(p.node)
           /\ \A c : Ptr(c).node = c /\ ~Ptr(c).null /\ SetNull(c).node = c /\ SetNull(c).null
BY DEF Ptr, SetNull

(* The types of what is read from the heap. *)
LEMMA HeapTypes ==
    ASSUME Heap
    PROVE  /\ Len(key) \in Nat /\ Len(desc) \in Nat /\ Root \in Nodes
           /\ \A n \in Nodes : op[n] \in Words /\ op[n].op \in 0 .. Len(desc)
           /\ \A n \in Nodes : child[n] \in [Sides -> Pointers]
           /\ \A n \in Nodes, s \in Sides : child[n][s] \in Pointers
           /\ \A n \in Nodes : key[n] \in AllKeys \cup {-1}
BY DEF Heap, HeapInv, Nodes, Root, Words

(* A node that shows an operation is not gone, and a node that shows any   *)
(* operation at work is known.                                             *)
LEMMA Busy ==
    ASSUME Heap, NEW n \in Nodes
    PROVE  /\ op[n].flag # "MARK" => ~Gone(n)
           /\ op[n] # NullWord => Known(n)
           /\ \A s \in Sides : ~child[n][s].null => Known(child[n][s].node) /\ child[n][s].node # Root
           /\ Known(Root)
<1>1. op[n].flag # "MARK" => ~Gone(n)
  BY DEF Heap, TreeInv
<1>2. ASSUME NEW f, Hidden(f)
      PROVE  /\ f # Root /\ op[f] = NullWord
             /\ \A m \in Nodes, s \in Sides : child[m][s] # Ptr(f)
  <2>1. PICK m \in Nodes : /\ Waiting(m)
                           /\ desc[op[m].op].expected.null /\ desc[op[m].op].update = Ptr(f)
    BY <1>2 DEF Hidden
  <2>2. Adds(m, desc[op[m].op])
    BY <2>1 DEF Heap, PendingInv
  <2>3. IsChildCAS(op[m].op)
    BY <2>1 DEF Heap, HeapInv, Waiting
  <2>4. desc[op[m].op].update \in Pointers
    BY <2>3 DEF Heap, DescInv, ChildCASOK, IsChildCAS, IsRelocate
  <2>5. f = desc[op[m].op].update.node /\ f # Root
    BY <2>1, <2>4 DEF Ptr, Pointers
  <2> QED BY <2>1, <2>2, <2>5 DEF Adds
<1>3. op[n] # NullWord => Known(n)
  BY <1>2 DEF Known
<1>4. Known(Root)
  BY <1>2, HeapTypes DEF Known
<1>5. ASSUME NEW s \in Sides, ~child[n][s].null
      PROVE  Known(child[n][s].node) /\ child[n][s].node # Root
  <2>1. child[n][s] \in Pointers
    BY HeapTypes
  <2>2. child[n][s] = Ptr(child[n][s].node)
    BY <1>5, <2>1, PtrOf DEF Pointers
  <2>3. child[n][s].node \in Nodes /\ child[n][s].node # Root
    BY <1>5, <2>1, HeapTypes DEF Pointers, Nodes, Root
  <2> QED BY <1>2, <2>2, <2>3 DEF Known
<1> QED BY <1>1, <1>3, <1>4, <1>5

(* What was seen of a node's word stays seen, and a word that is over does *)
(* not come back.                                                          *)
LEMMA SeenStays ==
    ASSUME Heap, Advance, NEW n, NEW w, Seen(n, w)
    PROVE  /\ n \in Nodes /\ w \in Words /\ Known(n)' /\ Seen(n, w)'
           /\ op[n] # w => op'[n] # w
           /\ op'[n] = w => \A s \in Sides : child'[n][s] = child[n][s]
<1>1. n \in Nodes /\ w \in Words /\ UpTo(w, op[n]) /\ w.flag = "NONE"
  BY DEF Seen, Known, Quiet
<1>2. op[n] \in Words /\ op'[n] \in Words /\ UpTo(op[n], op'[n])
  BY <1>1, HeapTypes DEF Advance, Forward
<1>3. UpTo(w, op'[n]) /\ (op[n] # w => op'[n] # w)
  BY <1>1, <1>2, UpToTrans
<1>4. Known(n)'
  BY DEF Seen, Advance, NewPointers
<1>5. op'[n] = w => \A s \in Sides : child'[n][s] = child[n][s]
  BY <1>1, <1>3 DEF Advance, NewPointers
<1> QED BY <1>1, <1>3, <1>4, <1>5 DEF Seen, Quiet

(* A child stays under its parent as long as neither is gone. *)
LEMMA LinkStays ==
    ASSUME Heap, Advance, NEW p, NEW w, NEW c, Link(p, w, c)
    PROVE  Link(p, w, c)'
<1>1. p \in Nodes /\ Seen(p, w)' /\ Known(c)' /\ c # Root /\ w.flag = "NONE"
      /\ (op[p] # w => op'[p] # w)
  BY SeenStays DEF Link, Advance, NewPointers, Seen, Quiet
<1>2. ASSUME ~Gone(p)', ~Gone(c)' PROVE \E s \in Sides : child'[p][s] = Ptr(c)
  <2>1. ~Gone(p) /\ ~Gone(c)
    BY <1>2 DEF Advance, NewPointers
  <2>2. PICK s \in Sides : child[p][s] = Ptr(c)
    BY <2>1 DEF Link
  <2>3. child'[p][s] = child[p][s]
    BY <1>1, <1>2, <2>2 DEF Advance, NewPointers
  <2> QED BY <2>2, <2>3
<1>3. ASSUME op'[p] = w, Gone(c)' PROVE FALSE
  <2>1. op[p] = w /\ ~Gone(c) /\ ~Gone(p)
    BY <1>1, <1>3, Busy DEF Link
  <2>2. PICK s \in Sides : child[p][s] = Ptr(c)
    BY <2>1 DEF Link
  <2>3. PICK n \in Nodes, r \in Sides : child[n][r] = Ptr(c) /\ op[n].flag = "CHILDCAS"
    BY <1>3, <2>1 DEF Advance, NewPointers
  <2>4. ~Gone(n)
    BY <2>3, Busy
  <2>5. n = p
    BY <1>1, <2>1, <2>2, <2>3, <2>4 DEF Heap, TreeInv, Ptr
  <2> QED BY <1>1, <2>1, <2>3, <2>5
<1> QED BY <1>1, <1>2, <1>3 DEF Link

-----------------------------------------------------------------------------
(* What a thread knows stays true while the others go on. *)

LEMMA SecondFindStays ==
    ASSUME Heap, Advance, NEW l, SecondFind(l)
    PROVE  SecondFind(l)'
<1> SUFFICES ASSUME l.start # Root
             PROVE  /\ l.start = l.dest /\ Seen(l.dest, l.dest_op)'
                    /\ op'[l.dest] = l.dest_op => ~child'[l.dest].right.null
  BY DEF SecondFind
<1>1. Seen(l.dest, l.dest_op) /\ (op[l.dest] = l.dest_op => ~child[l.dest].right.null)
  BY DEF SecondFind
<1>2. "right" \in Sides
  BY DEF Sides
<1> QED BY <1>1, <1>2, SeenStays DEF SecondFind

LEMMA LeftDestStays ==
    ASSUME Heap, Advance, NEW l, SecondFind(l), LeftDest(l)
    PROVE  LeftDest(l)'
<1>1. UnderParent(l) => UnderParent(l)'
  BY LinkStays DEF UnderParent
<1>2. l.start # Root => Seen(l.dest, l.dest_op)
  BY DEF SecondFind
<1> QED BY <1>1, <1>2, SeenStays DEF LeftDest

LEMMA EndsHereStays ==
    ASSUME Heap, Advance, NEW l, Seen(l.curr, l.curr_op), EndsHere(l)
    PROVE  EndsHere(l)'
BY SeenStays DEF EndsHere, FoundSide, Sides

(* An operation keeps its kind and, but for its state, what it says. *)
LEMMA KindStays ==
    ASSUME Heap, Advance, NEW i
    PROVE  /\ IsChildCAS(i) => i \in Nat /\ IsChildCAS(i)' /\ ChildCASOK(i) /\ desc'[i] = desc[i]
           /\ IsRelocate(i) => /\ i \in Nat /\ IsRelocate(i)' /\ RelocateOK(i)
                              /\ desc'[i].dest = desc[i].dest /\ desc'[i].dest_op = desc[i].dest_op
           /\ ~(IsChildCAS(i) /\ IsRelocate(i))
<1>1. ~(IsChildCAS(i) /\ IsRelocate(i))
  BY DEF IsChildCAS, IsRelocate
<1>2. i \in 1 .. Len(desc) => i \in Nat /\ i \in 1 .. Len(desc') /\ DOMAIN desc'[i] = DOMAIN desc[i]
  BY HeapTypes DEF Advance, Forward
<1>3. IsChildCAS(i) => IsChildCAS(i)' /\ ChildCASOK(i) /\ desc'[i] = desc[i]
  BY <1>1, <1>2 DEF Heap, DescInv, IsChildCAS, Advance, Forward
<1>4. IsRelocate(i) => IsRelocate(i)' /\ RelocateOK(i)
                       /\ desc'[i].dest = desc[i].dest /\ desc'[i].dest_op = desc[i].dest_op
  BY <1>1, <1>2 DEF Heap, DescInv, IsRelocate, Advance, Forward
<1> QED BY <1>1, <1>2, <1>3, <1>4 DEF IsChildCAS, IsRelocate

(* A flag that a node shows after a step, of an operation that was there   *)
(* before, was there before, or it has just reached its destination.       *)
LEMMA OldFlag ==
    ASSUME Heap, Advance, NEW i \in 1 .. Len(desc), NEW n \in Nodes'
    PROVE  /\ op'[n] = Word("CHILDCAS", i) => n \in Nodes /\ op[n] = Word("CHILDCAS", i)
           /\ op'[n] = Word("RELOCATE", i) =>
                /\ n \in Nodes
                /\ op[n] = Word("RELOCATE", i) \/ (n = desc[i].dest /\ op[n] = desc[i].dest_op)
<1>1. i \in Nat /\ Len(desc) \in Nat /\ i <= Len(desc)
  BY HeapTypes
<1>2. n \notin Nodes => op'[n] = NullWord
  BY DEF Advance, Forward
<1> QED BY <1>1, <1>2 DEF Advance, NewWords, Word, NullWord

LEMMA LinksStays ==
    ASSUME Heap, Advance, NEW l, Links(l)
    PROVE  Links(l)'
<1> DEFINE i == l.helped
           w == Word("CHILDCAS", i)
<1>1. IsChildCAS(i)' /\ i \in 1 .. Len(desc) /\ w \in Words
  BY KindStays DEF Links, IsChildCAS, Words, Word, Flags
<1>2. Known(l.target)' /\ l.target \in Nodes
  BY DEF Links, Known, Advance, NewPointers
<1>3. UpTo(w, op'[l.target])
  <2>1. op[l.target] \in Words /\ op'[l.target] \in Words /\ UpTo(op[l.target], op'[l.target])
    BY <1>2, HeapTypes DEF Advance, Forward
  <2> QED BY <1>1, <2>1, UpToTrans DEF Links
<1>4. ASSUME NEW n \in Nodes', op'[n] = w PROVE n = l.target
  BY <1>1, <1>4, OldFlag DEF Links
<1> QED BY <1>1, <1>2, <1>3, <1>4 DEF Links

LEMMA TooLateStays ==
    ASSUME Heap, Advance, NEW l, Links(l), TooLate(l)
    PROVE  TooLate(l)'
<1> DEFINE i == l.helped
           n == l.target
           d == desc[i]
<1>1. IsChildCAS(i) /\ ChildCASOK(i) /\ desc'[i] = d /\ n \in Nodes /\ d.side \in Sides
      /\ i \in 1 .. Len(desc)
  BY KindStays DEF Links, Known, ChildCASOK, IsChildCAS
<1> SUFFICES ASSUME op'[n] # Word("CHILDCAS", i)
             PROVE  Spent(d.expected)' /\ child'[n][d.side] # d.expected
  BY <1>1 DEF TooLate, Spent
<1>2. Spent(d.expected) => Spent(desc[i].expected)'
  <2>1. desc'[i].expected = d.expected
    BY <1>1
  <2> QED BY <2>1 DEF Spent, Advance, NewPointers
<1>3. CASE op[n] # Word("CHILDCAS", i)
  <2>1. Spent(d.expected) /\ child[n][d.side] # d.expected
    BY <1>3 DEF TooLate
  <2>2. child'[n][d.side] # d.expected
    BY <1>1, <2>1 DEF Advance, NewPointers
  <2> QED BY <1>1, <1>2, <2>1, <2>2
<1>4. CASE op[n] = Word("CHILDCAS", i)
  <2>1. child[n][d.side] = d.update /\ child'[n] = child[n]
    BY <1>1, <1>4 DEF Advance, NewWords, Word
  <2>2. Done(i)
    BY <2>1 DEF Done, Links
  <2>3. Spent(d.expected)
    <3>1. CASE d.expected.null
      BY <1>1, <3>1 DEF ChildCASOK
    <3>2. CASE ~d.expected.null
      <4>1. d.expected = Ptr(d.expected.node)
        BY <1>1, <3>2, PtrOf DEF ChildCASOK, Pointers
      <4> QED BY <1>1, <2>2, <4>1 DEF Gone, Spent
    <3> QED BY <3>1, <3>2
  <2> QED BY <1>1, <1>2, <2>1, <2>3 DEF ChildCASOK
<1> QED BY <1>3, <1>4

LEMMA LinkedStays ==
    ASSUME Heap, Advance, NEW l, Links(l), Linked(l)
    PROVE  Linked(l)'
<1> DEFINE i == l.helped
           n == l.target
           d == desc[i]
<1>1. IsChildCAS(i) /\ ChildCASOK(i) /\ desc'[i] = d /\ n \in Nodes /\ d.side \in Sides
      /\ i \in 1 .. Len(desc) /\ d.expected # d.update
  BY KindStays DEF Links, Known, ChildCASOK, IsChildCAS
<1> SUFFICES ASSUME op'[n] = Word("CHILDCAS", i)
             PROVE  child'[n][d.side] = d.update
  BY <1>1 DEF Linked
<1>2. n \in Nodes'
  BY <1>1, HeapTypes DEF Advance, Forward, Nodes
<1>3. op[n] = Word("CHILDCAS", i)
  BY <1>1, <1>2, OldFlag
<1>4. child[n][d.side] = d.update
  BY <1>3 DEF Linked
<1> QED BY <1>1, <1>3, <1>4 DEF Advance, NewPointers, Word

LEMMA RelocatesStays ==
    ASSUME Heap, Advance, NEW l, UnderParent(l), Relocates(l)
    PROVE  Relocates(l)'
<1> DEFINE i == l.helped
           d == desc[i]
           w == Word("RELOCATE", i)
<1>1. /\ IsRelocate(i) /\ IsRelocate(i)' /\ RelocateOK(i) /\ ~IsChildCAS(i)
      /\ desc'[i].dest = d.dest /\ desc'[i].dest_op = d.dest_op
      /\ i \in 1 .. Len(desc) /\ i \in Nat /\ w \in Words /\ l.curr \in Nodes /\ d.dest \in Nodes
      /\ Seen(d.dest, d.dest_op)
  BY KindStays DEF Relocates, IsRelocate, Words, Word, Flags, UnderParent, Link, Known, Seen, RelocateOK
<1>2. UpTo(w, op'[l.curr])
  <2>1. op[l.curr] \in Words /\ op'[l.curr] \in Words /\ UpTo(op[l.curr], op'[l.curr])
    BY <1>1, HeapTypes DEF Advance, Forward
  <2> QED BY <1>1, <2>1, UpToTrans DEF Relocates
<1>3. ASSUME NEW n \in Nodes', op'[n] = w, l.curr # d.dest PROVE n \in {l.curr, d.dest}
  BY <1>1, <1>3, OldFlag DEF Relocates
<1>5. ASSUME l.curr # d.dest, desc'[i].state # "FAILED" PROVE op'[l.curr] \in {w, Word("MARK", i)}
  <2>1. d.state # "FAILED"
    BY <1>1, <1>5 DEF Advance, Forward
  <2>2. op[l.curr] \in {w, Word("MARK", i)}
    BY <1>5, <2>1 DEF Relocates
  <2>3. CASE op[l.curr].flag = "MARK"
    BY <1>1, <2>2, <2>3 DEF Advance, Forward
  <2>4. CASE op[l.curr] = w /\ op'[l.curr] # w
    <3>1. op'[l.curr].flag = "MARK"
      BY <1>1, <1>5, <2>1, <2>4 DEF Advance, NewWords, Word
    <3>2. op'[l.curr].op = i /\ op'[l.curr] \in Words
      BY <1>1, <2>4, <3>1 DEF Advance, NewWords, Forward, Word
    <3> QED BY <3>1, <3>2 DEF Words, Word
  <2> QED BY <2>2, <2>3, <2>4 DEF Word
<1>4. ASSUME l.parent = d.dest, op'[d.dest] \in {d.dest_op, w, Word("NONE", i)} PROVE ~Gone(l.curr)'
  <2> DEFINE p == d.dest
  <2>1. op[p] \in Words /\ op'[p] \in Words /\ UpTo(op[p], op'[p]) /\ p \in Nodes'
    BY <1>1, HeapTypes DEF Advance, Forward, Nodes
  <2>2. op[p] \in {d.dest_op, w, Word("NONE", i)}
    <3>1. CASE op'[p] = d.dest_op
      BY <1>1, <3>1, SeenStays
    <3>2. CASE op'[p] = w
      BY <1>1, <2>1, <3>2, OldFlag
    <3>3. CASE op'[p] = Word("NONE", i) /\ op[p] # op'[p]
      <4>1. op[p].op = i
        BY <1>1, <3>3 DEF Advance, NewWords, Word
      <4>2. op[p].flag \in {"CHILDCAS", "RELOCATE"}
        BY <2>1, <3>3, <4>1 DEF UpTo, Before, Rank, Words, Word, Flags
      <4>3. op[p].flag = "RELOCATE"
        BY <1>1, <4>1, <4>2 DEF Heap, HeapInv
      <4> QED BY <2>1, <4>1, <4>3 DEF Words, Word
    <3> QED BY <1>4, <3>1, <3>2, <3>3
  <2>3. ~Gone(l.curr) /\ op[p].flag \in {"NONE", "RELOCATE"}
    BY <1>1, <1>4, <2>2 DEF Relocates, Word, Seen, Quiet
  <2>4. ~Gone(p)
    BY <1>1, <2>3, Busy
  <2>5. PICK s \in Sides : child[p][s] = Ptr(l.curr)
    BY <1>4, <2>3, <2>4 DEF UnderParent, Link
  <2> SUFFICES ASSUME Gone(l.curr)' PROVE FALSE
    OBVIOUS
  <2>6. PICK n \in Nodes, r \in Sides : child[n][r] = Ptr(l.curr) /\ op[n].flag = "CHILDCAS"
    BY <2>3 DEF Advance, NewPointers
  <2>7. ~Gone(n)
    BY <2>6, Busy
  <2>8. n = p
    BY <1>1, <2>4, <2>5, <2>6, <2>7 DEF Heap, TreeInv, Ptr
  <2> QED BY <2>3, <2>6, <2>8
<1> QED BY <1>1, <1>2, <1>3, <1>4, <1>5 DEF Relocates

LEMMA DestPassedStays ==
    ASSUME Heap, Advance, NEW l, Relocates(l), DestPassed(l)
    PROVE  DestPassed(l)'
<1> DEFINE i == l.helped
           d == desc[i]
<1>1. /\ desc'[i].dest = d.dest /\ desc'[i].dest_op = d.dest_op
      /\ i \in 1 .. Len(desc) /\ Seen(d.dest, d.dest_op) /\ d.dest \in Nodes
  BY KindStays DEF Relocates, IsRelocate, RelocateOK, Seen, Known
<1>2. op'[d.dest] # d.dest_op
  BY <1>1, SeenStays DEF DestPassed
<1>3. op'[d.dest] # Word("RELOCATE", i)
  <2>1. d.dest \in Nodes'
    BY <1>1, HeapTypes DEF Advance, Forward, Nodes
  <2> QED BY <1>1, <2>1, OldFlag DEF DestPassed
<1> QED BY <1>1, <1>2, <1>3 DEF DestPassed

(* All of it. *)
LEMMA PlaceStays ==
    ASSUME Heap, Advance, NEW p, NEW l, Place(p, l)
    PROVE  Place(p, l)'
<1> DEFINE i == l.helped
           d == desc[i]
<1>1. /\ DOMAIN l = DOMAIN NoLocals
      /\ l.helped \in 0 .. Len(desc')
      /\ l.found \in {"FOUND", "NOTFOUND_L", "NOTFOUND_R"}
      /\ p # "idle" => l.k \in AllKeys
      /\ SecondFind(l)'
  BY HeapTypes, SecondFindStays DEF Place, Advance, Forward
<1>2. p \in Searching \cup Inserting \cup Deleting \cup Moving => Seen(l.curr, l.curr_op)'
  BY SeenStays DEF Place
<1>3. /\ p \in {"FindRight", "FindNext", "FindCheck", "FindCheckCurr"} => l.curr = l.start \/ UnderParent(l)'
      /\ p = "FindCheckCurr" /\ l.found = "FOUND" => UnderParent(l)'
      /\ p \in {"FindKey", "FindLeft", "DeleteKey", "DeleteRelocate"} \cup Deleting \cup Marking \cup Relocating =>
           UnderParent(l)'
      /\ p = "FindNext" => Link(l.curr, l.curr_op, l.next)'
  BY LinkStays DEF Place, UnderParent
<1>4. p \in {"FindCheck", "FindCheckCurr", "DeleteRecheck"} => LeftDest(l)'
  BY LeftDestStays DEF Place
<1>5. p \in {"FindCheck", "FindCheckCurr"} \cup Inserting /\ l.found # "FOUND" => EndsHere(l)'
  BY EndsHereStays DEF Place, Searching
<1>6. p = "InsertCAS" =>
        /\ l.old \in Pointers'
        /\ op'[l.curr] = l.curr_op => child'[l.curr][FoundSide(l)] = l.old
  <2>1. SUFFICES ASSUME p = "InsertCAS"
                 PROVE  /\ l.old \in Pointers'
                        /\ op'[l.curr] = l.curr_op => child'[l.curr][FoundSide(l)] = l.old
    OBVIOUS
  <2>2. l.old \in Pointers'
    BY <2>1, HeapTypes DEF Place, Pointers, Advance, Forward
  <2>3. Seen(l.curr, l.curr_op) /\ FoundSide(l) \in Sides
    BY <2>1 DEF Place, Inserting, FoundSide, Sides
  <2> QED BY <2>1, <2>2, <2>3, SeenStays DEF Place
<1>7. p \in Marking => op'[l.curr].flag = "MARK"
  <2>1. p \in Marking => l.curr \in Nodes
    BY DEF Place, UnderParent, Link, Known
  <2> QED BY <2>1 DEF Place, Advance, Forward
<1>8. p = "MarkedCAS" =>
        /\ l.side \in Sides
        /\ ~Gone(l.parent)' /\ ~Gone(l.curr)' => child'[l.parent][l.side] = Ptr(l.curr)
  <2>1. p = "MarkedCAS" => l.parent \in Nodes
    BY DEF Place, Marking, UnderParent, Link, Seen, Known
  <2> QED BY <2>1 DEF Place, Advance, NewPointers
<1>9. /\ p \in Linking => Links(l)'
      /\ p = "ChildCAS" => TooLate(l)'
      /\ p = "ChildCASDone" => Linked(l)'
  BY LinksStays, TooLateStays, LinkedStays DEF Place, Linking
<1>10. p \in Relocating => Relocates(l)'
  BY RelocatesStays DEF Place
<1>11. ASSUME p \in Relocating
       PROVE  /\ p = "RelocateSeen" => op'[desc'[i].dest] # desc'[i].dest_op
              /\ p = "RelocateSucceed" =>
                   op'[desc'[i].dest] = Word("RELOCATE", i) \/ desc'[i].state = "SUCCEED"
              /\ p \in {"RelocateKey", "RelocateUnflag"} => desc'[i].state = "SUCCEED"
              /\ p \in {"RelocateFail", "RelocateMark"} => DestPassed(l)'
              /\ p = "RelocateReread" => desc'[i].state # "ONGOING"
              /\ p = "RelocateMark" =>
                   /\ l.curr # desc'[i].dest /\ l.state = desc'[i].state /\ desc'[i].state # "ONGOING"
                   /\ l.state = "SUCCEED" => UpTo(Word("NONE", i), op'[desc'[i].dest])
  <2>1. Relocates(l)
    BY <1>11 DEF Place
  <2>2. /\ IsRelocate(i) /\ i \in Nat /\ i \in 1 .. Len(desc)
        /\ desc'[i].dest = d.dest /\ desc'[i].dest_op = d.dest_op
        /\ Seen(d.dest, d.dest_op) /\ d.dest \in Nodes
    BY <2>1, KindStays DEF Relocates, IsRelocate, RelocateOK, Seen, Known
  <2>3. p = "RelocateSeen" => op'[desc'[i].dest] # desc'[i].dest_op
    BY <2>2, SeenStays DEF Place
  <2>4. ASSUME NEW w \in Words, UpTo(w, op[d.dest]) PROVE UpTo(w, op'[d.dest])
    <3>1. op[d.dest] \in Words /\ op'[d.dest] \in Words /\ UpTo(op[d.dest], op'[d.dest])
      BY <2>2, HeapTypes DEF Advance, Forward
    <3> QED BY <3>1, <2>4, UpToTrans
  <2>5. Word("RELOCATE", i) \in Words /\ Word("NONE", i) \in Words
    BY <2>2 DEF Word, Words, Flags
  <2>6. p \in {"RelocateFail", "RelocateMark"} => DestPassed(l)'
    BY <2>1, DestPassedStays DEF Place
  <2>7. p = "RelocateReread" => desc'[i].state # "ONGOING"
    BY <2>2 DEF Place, Advance, Forward
  <2>10. d.state # "ONGOING" => desc'[i].state = d.state
    BY <2>2 DEF Advance, Forward
  <2>11. op[d.dest] = Word("RELOCATE", i) => op'[d.dest] = op[d.dest] \/ d.state = "SUCCEED"
    BY <2>2 DEF Advance, NewWords, Word
  <2>8. /\ p = "RelocateSucceed" =>
             op'[desc'[i].dest] = Word("RELOCATE", i) \/ desc'[i].state = "SUCCEED"
        /\ p \in {"RelocateKey", "RelocateUnflag"} => desc'[i].state = "SUCCEED"
    BY <2>2, <2>10, <2>11 DEF Place
  <2>9. p = "RelocateMark" => /\ l.curr # desc'[i].dest /\ l.state = desc'[i].state /\ desc'[i].state # "ONGOING"
                              /\ l.state = "SUCCEED" => UpTo(Word("NONE", i), op'[desc'[i].dest])
    BY <2>2, <2>4, <2>5, <2>10 DEF Place
  <2> QED BY <2>3, <2>6, <2>7, <2>8, <2>9
<1>12. /\ p \in Moving => l.start # Root
       /\ p \in Inserting => l.found # "FOUND"
       /\ p = "DeleteRelocate" => l.new_key \in AllKeys \cup {-1}
       /\ p = "FindCheck" => l.found # "FOUND"
  BY DEF Place
<1> HIDE DEF i, d
<1>13. {"RelocateSeen", "RelocateSucceed", "RelocateKey", "RelocateUnflag", "RelocateFail", "RelocateMark",
        "RelocateReread"} \subseteq Relocating
  BY DEF Relocating
<1> QED BY <1>1, <1>2, <1>3, <1>4, <1>5, <1>6, <1>7, <1>8, <1>9, <1>10, <1>11, <1>12, <1>13 DEF Place, i

-----------------------------------------------------------------------------
(* Steps. *)

(* What a step of t must show of the place and the locals it leaves. *)
LEMMA StepInv ==
    ASSUME Inv, Advance, Heap', fill' \in Seq(AllKeys), NEW t \in All, NEW to, NEW l,
           pc' = [pc EXCEPT ![t] = to], loc' = [loc EXCEPT ![t] = l], Place(to, l)',
           \A n \in Nodes : /\ op'[n].flag \in {"CHILDCAS", "RELOCATE"}
                            /\ op'[n] = op[n] => AtWork(pc[t], loc[t], n)
                            => AtWork(to, l, n)'
    PROVE  Inv' /\ Advance
<1>1. /\ DOMAIN pc = All /\ DOMAIN loc = All
      /\ pc'[t] = to /\ loc'[t] = l
      /\ \A u \in All \ {t} : pc'[u] = pc[u] /\ loc'[u] = loc[u]
  BY DEF Inv, LocalInv
<1>2. LocalInv'
  <2>1. ASSUME NEW u \in All PROVE Place(pc[u], loc[u])'
    <3>1. ASSUME NEW q, NEW k, q = pc'[u], k = loc'[u] PROVE Place(q, k)'
      <4>1. CASE u = t
        BY <1>1, <3>1, <4>1
      <4>2. CASE u # t
        <5>1. Place(q, k)
          BY <1>1, <3>1, <4>2 DEF Inv, LocalInv
        <5> QED BY <5>1, PlaceStays DEF Inv
      <4> QED BY <4>1, <4>2
    <3> QED BY <3>1
  <2> QED BY <1>1, <2>1 DEF LocalInv
<1>3. AttendInv'
  <2> SUFFICES ASSUME NEW n \in Nodes', op'[n].flag \in {"CHILDCAS", "RELOCATE"}
               PROVE  \E u \in All : AtWork(pc[u], loc[u], n)'
    BY DEF AttendInv
  <2>1. n \in Nodes
    BY DEF Advance, Forward, NullWord, Word
  <2>2. ASSUME AtWork(to, l, n)' PROVE \E u \in All : AtWork(pc[u], loc[u], n)'
    BY <1>1, <2>2 DEF AtWork
  <2>3. CASE op'[n] = op[n]
    <3>1. PICK u \in All : AtWork(pc[u], loc[u], n)
      BY <2>1, <2>3 DEF Inv, AttendInv
    <3>2. CASE u = t
      BY <2>1, <2>2, <2>3, <3>1, <3>2
    <3>3. CASE u # t
      <4>1. op[n].flag = "RELOCATE" => desc'[op[n].op].dest = desc[op[n].op].dest
        BY <2>1, KindStays DEF Inv, Heap, HeapInv
      <4>2. AtWork(pc[u], loc[u], n)'
        BY <1>1, <2>3, <3>1, <3>3, <4>1 DEF AtWork
      <4> QED BY <4>2
    <3> QED BY <3>2, <3>3
  <2>4. CASE op'[n] # op[n]
    BY <2>1, <2>2, <2>4
  <2> QED BY <2>3, <2>4
<1> QED BY <1>2, <1>3 DEF Inv, FillInv

(* A step that leaves words, pointers and operations alone. *)
LEMMA Same ==
    ASSUME Heap, UNCHANGED <<op, child, desc>>, key' \in Seq(AllKeys \cup {-1}), Len(key') = Len(key)
    PROVE  Heap' /\ Advance
<1>0. op' = op /\ child' = child /\ desc' = desc /\ Len(key') = Len(key)
  OBVIOUS
<1>1. /\ Nodes' = Nodes /\ Pointers' = Pointers
      /\ \A i : IsChildCAS(i)' = IsChildCAS(i) /\ IsRelocate(i)' = IsRelocate(i)
  BY <1>0 DEF Nodes, Pointers, IsChildCAS, IsRelocate
<1>2. /\ \A n : Waiting(n)' = Waiting(n)
      /\ \A i : Done(i)' = Done(i)
  BY <1>0, <1>1 DEF Waiting, Done
<1>3. /\ \A n : Gone(n)' = Gone(n)
      /\ \A n : Hidden(n)' = Hidden(n)
  BY <1>0, <1>1, <1>2 DEF Gone, Hidden
<1>4. /\ \A n : Known(n)' = Known(n)
      /\ \A p : Spent(p)' = Spent(p)
  BY <1>1, <1>3 DEF Known, Spent
<1>5. \A n, w : Seen(n, w)' = Seen(n, w)
  BY <1>0, <1>4 DEF Seen
<1>6. HeapInv'
  BY <1>0, <1>1 DEF Heap, HeapInv
<1>7. DescInv'
  BY <1>0, <1>1, <1>4, <1>5 DEF Heap, DescInv, ChildCASOK, RelocateOK
<1>8. PendingInv'
  <2>1. /\ \A n, d : Adds(n, d)' = Adds(n, d)
        /\ \A d : TakesOut(d)' = TakesOut(d)
    BY <1>0, <1>1, <1>2 DEF Adds, TakesOut, Replacement
  <2> QED BY <1>0, <1>1, <1>2, <2>1 DEF Heap, PendingInv
<1>9. TreeInv'
  BY <1>0, <1>1, <1>3, <1>4 DEF Heap, TreeInv
<1>10. Forward
  BY <1>0, <1>1, HeapTypes DEF Forward, UpTo
<1>11. NewWords /\ NewPointers
  BY <1>0, <1>3, <1>4 DEF NewWords, NewPointers
<1> QED BY <1>6, <1>7, <1>8, <1>9, <1>10, <1>11 DEF Heap, Advance

(* A step that only loads. *)
LEMMA LoadInv ==
    ASSUME Inv, UNCHANGED heap, NEW t \in All, NEW to, NEW l, Step(t, to, l), Place(to, l),
           \A n \in Nodes : /\ op[n].flag \in {"CHILDCAS", "RELOCATE"}
                            /\ AtWork(pc[t], loc[t], n)
                            => AtWork(to, l, n)
    PROVE  Inv' /\ Advance
<1>0. Heap /\ UNCHANGED <<key, op, child, desc>> /\ key \in Seq(AllKeys \cup {-1})
  BY DEF Inv, Heap, HeapInv, heap
<1>1. Heap /\ Heap' /\ Advance /\ op' = op /\ desc' = desc
  BY <1>0, Same
<1>2. Place(to, l)'
  BY <1>1, PlaceStays
<1>3. ASSUME NEW n, AtWork(to, l, n) PROVE AtWork(to, l, n)'
  BY <1>1, <1>3 DEF AtWork
<1>4. fill' \in Seq(AllKeys)
  BY DEF Step, Inv, FillInv
<1> QED BY <1>1, <1>2, <1>3, <1>4, StepInv DEF Step

(* The same for a thread that is not at work on an operation. *)
LEMMA SearchInv ==
    ASSUME Inv, UNCHANGED heap, NEW t \in All, NEW to, NEW l, Step(t, to, l), Place(to, l),
           pc[t] \notin Linking \cup Relocating
    PROVE  Inv' /\ Advance
<1>1. \A n : op[n].flag \in {"CHILDCAS", "RELOCATE"} => ~AtWork(pc[t], loc[t], n)
  BY DEF AtWork
<1> QED BY <1>1, LoadInv

LEMMA Here ==
    ASSUME Inv, NEW t \in All
    PROVE  Heap /\ Place(pc[t], loc[t])
BY DEF Inv, LocalInv

(* A call that starts over, or is about to return. *)
LEMMA FramePlace ==
    ASSUME Heap, NEW l, l.k \in AllKeys, NEW r
    PROVE  Place("FindOp", Frame(l)) /\ Place("Return", [Frame(l) EXCEPT !.result = r])
<1> DEFINE m == Frame(l)
           a == [Frame(l) EXCEPT !.result = r]
<1>1. /\ DOMAIN m = DOMAIN NoLocals /\ m.helped = 0 /\ m.found = "NOTFOUND_R" /\ m.k = l.k
      /\ m.start = Root
      /\ DOMAIN a = DOMAIN NoLocals /\ a.helped = 0 /\ a.found = "NOTFOUND_R" /\ a.k = l.k
      /\ a.start = Root
  BY DEF Frame, NoLocals
<1> HIDE DEF m, a
<1>2. Place("FindOp", m) /\ Place("Return", a)
  BY <1>1, HeapTypes DEF Place, SecondFind, Searching, Inserting, Deleting, Moving, Marking, Linking, Relocating
<1> QED BY <1>2 DEF m, a

(* find starts over. *)
LEMMA RewindPlace ==
    ASSUME Heap, NEW p, NEW l, Place(p, l), p # "idle"
    PROVE  Place("FindOp", Rewind(l))
<1>1. CASE l.start = Root
  BY <1>1, FramePlace DEF Place, Rewind
<1>2. CASE l.start # Root
  <2> DEFINE m == [Frame(l) EXCEPT !.start = l.start, !.dest = l.dest, !.dest_op = l.dest_op,
                                   !.parent = l.parent, !.parent_op = l.parent_op]
  <2>1. /\ DOMAIN m = DOMAIN NoLocals /\ m.helped = 0 /\ m.found = "NOTFOUND_R" /\ m.k = l.k
        /\ m.start = l.start /\ m.dest = l.dest /\ m.dest_op = l.dest_op
    BY DEF Frame, NoLocals
  <2>2. Rewind(l) = m
    BY <1>2 DEF Rewind
  <2> HIDE DEF m
  <2>3. Place("FindOp", m)
    BY <2>1, HeapTypes DEF Place, SecondFind, Searching, Inserting, Deleting, Moving, Marking, Linking, Relocating
  <2> QED BY <2>2, <2>3
<1> QED BY <1>1, <1>2

(* The end of a helper. *)
LEMMA HelperReturnsPlace ==
    ASSUME Heap, NEW p, NEW l, Place(p, l), p # "idle", NEW t, NEW ok, HelperReturns(t, l, ok)
    PROVE  \E to, m : Step(t, to, m) /\ Place(to, m) /\ to \notin Linking \cup Relocating
<1>1. l.k \in AllKeys
  BY DEF Place
<1>2. "FindOp" \notin Linking \cup Relocating /\ "Return" \notin Linking \cup Relocating
  BY DEF Linking, Relocating
<1> QED BY <1>1, <1>2, FramePlace, RewindPlace DEF HelperReturns, FindAgain, Answer, Retry

LEMMA RetryInv ==
    ASSUME Inv, UNCHANGED heap, NEW t \in All, pc[t] # "idle", pc[t] \notin Linking \cup Relocating,
           \/ FindAgain(t, loc[t])
           \/ Retry(t, loc[t])
           \/ \E r : Answer(t, loc[t], r)
    PROVE  Inv' /\ Advance
<1>1. Heap /\ Place(pc[t], loc[t]) /\ loc[t].k \in AllKeys
  BY Here DEF Place
<1>2. CASE FindAgain(t, loc[t])
  <2>1. Place("FindOp", Rewind(loc[t]))
    BY <1>1, RewindPlace
  <2> QED BY <1>2, <2>1, SearchInv DEF FindAgain
<1>3. CASE Retry(t, loc[t])
  <2>1. Place("FindOp", Frame(loc[t]))
    BY <1>1, FramePlace
  <2> QED BY <1>3, <2>1, SearchInv DEF Retry
<1>4. ASSUME NEW r, Answer(t, loc[t], r) PROVE Inv' /\ Advance
  <2>1. Place("Return", [Frame(loc[t]) EXCEPT !.result = r])
    BY <1>1, FramePlace
  <2> QED BY <1>4, <2>1, SearchInv DEF Answer
<1> QED BY <1>2, <1>3, <1>4

(* A thread takes up a change of a child pointer that it meets at n. *)
LEMMA MeetsChildCAS ==
    ASSUME Heap, NEW n \in Nodes, op[n].flag = "CHILDCAS", NEW m, m.helped = op[n].op, m.target = n
    PROVE  Links(m) /\ TooLate(m) /\ m.helped \in 0 .. Len(desc)
<1>1. op[n] \in Words
  BY HeapTypes
<1>2. op[n] = Word("CHILDCAS", m.helped) /\ op[n] # NullWord
  BY <1>1 DEF Words, Word, NullWord
<1>3. IsChildCAS(m.helped) /\ m.helped \in 0 .. Len(desc)
  BY HeapTypes DEF Heap, HeapInv
<1>4. Known(n)
  BY <1>2, Busy
<1>5. \A k \in Nodes : op[k] = op[n] => k = n
  BY DEF Heap, PendingInv
<1> QED BY <1>2, <1>3, <1>4, <1>5 DEF Links, TooLate, UpTo

(* 74-81 *)
LEMMA FindOpInv ==
    ASSUME Inv, NEW t \in All, pc[t] = "FindOp", FindOp(t, loc[t]), UNCHANGED heap
    PROVE  Inv'
<1> DEFINE l == loc[t]
           w == op[l.start]
<1>1. Heap /\ Place("FindOp", l) /\ pc[t] \notin Linking \cup Relocating /\ pc[t] # "idle"
  BY Here DEF Linking, Relocating
<1>2. /\ DOMAIN l = DOMAIN NoLocals /\ l.helped \in 0 .. Len(desc)
      /\ l.found \in {"FOUND", "NOTFOUND_L", "NOTFOUND_R"} /\ l.k \in AllKeys /\ SecondFind(l)
      /\ Known(l.start)
  BY <1>1, Busy, HeapTypes DEF Place, SecondFind, Seen
<1>3. l.start \in Nodes /\ w \in Words
  BY <1>1, <1>2, HeapTypes DEF Known
<1>4. CASE w.flag = "NONE" /\ Step(t, "FindRight", [l EXCEPT !.curr = l.start, !.curr_op = w])
  <2> DEFINE m == [l EXCEPT !.curr = l.start, !.curr_op = w]
  <2>1. /\ DOMAIN m = DOMAIN NoLocals /\ m.helped = l.helped /\ m.found = l.found /\ m.k = l.k
        /\ m.start = l.start /\ m.dest = l.dest /\ m.dest_op = l.dest_op
        /\ m.curr = l.start /\ m.curr_op = w
    BY <1>2 DEF NoLocals
  <2>2. Step(t, "FindRight", m)
    BY <1>4
  <2>3. Seen(l.start, w)
    BY <1>2, <1>3, <1>4 DEF Seen, Quiet, UpTo
  <2> HIDE DEF m
  <2>4. Place("FindRight", m)
    BY <1>2, <2>1, <2>3 DEF Place, SecondFind, Searching, Inserting, Deleting, Moving, Marking, Linking, Relocating
  <2> QED BY <1>1, <2>2, <2>4, SearchInv
<1>5. CASE w.flag # "NONE" /\ l.start = Root
           /\ Step(t, "ChildCAS", [l EXCEPT !.helped = w.op, !.target = Root, !.then = "find"])
  <2> DEFINE m == [l EXCEPT !.helped = w.op, !.target = Root, !.then = "find"]
  <2>1. /\ DOMAIN m = DOMAIN NoLocals /\ m.helped = w.op /\ m.found = l.found /\ m.k = l.k
        /\ m.start = l.start /\ m.target = Root
    BY <1>2 DEF NoLocals
  <2>2. Step(t, "ChildCAS", m)
    BY <1>5
  <2>3. op[Root].flag = "CHILDCAS" /\ Root \in Nodes
    BY <1>1, <1>3, <1>5, HeapTypes DEF Heap, HeapInv
  <2> HIDE DEF m
  <2>4. Links(m) /\ TooLate(m) /\ m.helped \in 0 .. Len(desc)
    BY <1>1, <1>5, <2>1, <2>3, MeetsChildCAS
  <2>5. Place("ChildCAS", m)
    BY <1>2, <1>5, <2>1, <2>4 DEF Place, SecondFind, Searching, Inserting, Deleting, Moving, Marking, Linking, Relocating
  <2> QED BY <1>1, <2>2, <2>5, SearchInv
<1>6. CASE w.flag # "NONE" /\ Retry(t, l)
  BY <1>1, <1>6, RetryInv
<1> QED BY <1>4, <1>5, <1>6 DEF FindOp

(* A thread that follows the child pointer on side s of curr. *)
LEMMA FollowInv ==
    ASSUME Inv, UNCHANGED heap, NEW t \in All, pc[t] \in {"FindRight", "FindLeft"},
           NEW s \in Sides, pc[t] = "FindRight" => s = "right",
           NEW m, DOMAIN m = DOMAIN NoLocals, m.found = (IF s = "left" THEN "NOTFOUND_L" ELSE "NOTFOUND_R"),
           \A f \in {"helped", "k", "start", "dest", "dest_op", "curr", "curr_op", "parent", "parent_op"} :
              m[f] = loc[t][f],
           Follow(t, child[loc[t].curr][s], m)
    PROVE  Inv'
<1> DEFINE l == loc[t]
           p == child[l.curr][s]
           to == IF p.null THEN "FindCheck" ELSE "FindNext"
           r == [m EXCEPT !.next = p.node]
<1>1. Heap /\ Place(pc[t], l) /\ pc[t] \notin Linking \cup Relocating /\ pc[t] # "idle"
  BY Here DEF Linking, Relocating
<1>2. /\ l.helped \in 0 .. Len(desc) /\ l.k \in AllKeys /\ SecondFind(l)
      /\ Seen(l.curr, l.curr_op) /\ (l.curr = l.start \/ UnderParent(l))
      /\ pc[t] = "FindLeft" => UnderParent(l)
  BY <1>1 DEF Place, Searching
<1>3. /\ DOMAIN r = DOMAIN NoLocals /\ r.found = m.found /\ r.next = p.node
      /\ r.helped = l.helped /\ r.k = l.k /\ r.start = l.start /\ r.dest = l.dest /\ r.dest_op = l.dest_op
      /\ r.curr = l.curr /\ r.curr_op = l.curr_op /\ r.parent = l.parent /\ r.parent_op = l.parent_op
  BY DEF NoLocals
<1>4. Step(t, to, r)
  BY DEF Follow
<1>5. FoundSide(r) = s /\ r.found \in {"NOTFOUND_L", "NOTFOUND_R"}
  BY <1>3 DEF FoundSide, Sides
<1>6. l.curr \in Nodes /\ p \in Pointers
  BY <1>1, <1>2, HeapTypes DEF Seen, Known
<1>7. SecondFind(r) /\ (UnderParent(l) => UnderParent(r))
  BY <1>2, <1>3 DEF SecondFind, UnderParent
<1>8. CASE p.null
  <2>1. LeftDest(r)
    <3> SUFFICES ASSUME r.start # Root, ~UnderParent(l), op[l.dest] = l.dest_op PROVE FALSE
      BY <1>3, <1>7 DEF LeftDest
    <3>1. s = "right" /\ l.curr = l.dest
      BY <1>2, <1>3 DEF SecondFind
    <3> QED BY <1>2, <1>3, <1>8, <3>1 DEF SecondFind
  <2>2. EndsHere(r)
    BY <1>3, <1>5, <1>8 DEF EndsHere
  <2> HIDE DEF r, l
  <2>3. Place("FindCheck", r)
    BY <1>2, <1>3, <1>5, <1>7, <2>1, <2>2
    DEF Place, SecondFind, Searching, Inserting, Deleting, Moving, Marking,
              Linking, Relocating
  <2> QED BY <1>1, <1>4, <1>8, <2>3, SearchInv DEF l, r
<1>9. CASE ~p.null
  <2>1. p = Ptr(p.node) /\ Known(p.node) /\ p.node # Root
    BY <1>1, <1>6, <1>9, Busy, PtrOf DEF Pointers
  <2>2. op[l.curr] = l.curr_op => ~Gone(p.node)
    <3> SUFFICES ASSUME op[l.curr] = l.curr_op PROVE ~Gone(p.node)
      OBVIOUS
    <3>1. ~Gone(l.curr)
      BY <1>1, <1>2, <1>6, Busy DEF Seen, Quiet
    <3> QED BY <1>1, <1>6, <1>9, <3>1 DEF Heap, TreeInv
  <2>3. Link(r.curr, r.curr_op, r.next)
    BY <1>2, <1>3, <2>1, <2>2 DEF Link
  <2> HIDE DEF r, l, p
  <2>4. Place("FindNext", r)
    BY <1>2, <1>3, <1>5, <1>7, <2>3
    DEF Place, SecondFind, Searching, Inserting, Deleting, Moving, Marking,
              Linking, Relocating
  <2> QED BY <1>1, <1>4, <1>9, <2>4, SearchInv DEF l, r, p
<1> QED BY <1>8, <1>9

(* 82-84, 102-105 *)
LEMMA FindRightInv ==
    ASSUME Inv, NEW t \in All, pc[t] = "FindRight", FindRight(t, loc[t]), UNCHANGED heap
    PROVE  Inv'
<1> DEFINE l == loc[t]
           m == [l EXCEPT !.found = "NOTFOUND_R", !.last_right = l.curr, !.last_right_op = l.curr_op]
<1>1. DOMAIN l = DOMAIN NoLocals
  BY Here DEF Place
<1>2. /\ DOMAIN m = DOMAIN NoLocals /\ m.found = "NOTFOUND_R"
      /\ \A f \in {"helped", "k", "start", "dest", "dest_op", "curr", "curr_op", "parent", "parent_op"} :
           m[f] = l[f]
  BY <1>1 DEF NoLocals
<1>3. Follow(t, child[l.curr]["right"], m) /\ "right" \in Sides
  BY DEF FindRight, Sides
<1> HIDE DEF m
<1> QED BY <1>2, <1>3, FollowInv

(* 98-99 *)
LEMMA FindLeftInv ==
    ASSUME Inv, NEW t \in All, pc[t] = "FindLeft", FindLeft(t, loc[t]), UNCHANGED heap
    PROVE  Inv'
<1> DEFINE l == loc[t]
           m == [l EXCEPT !.found = "NOTFOUND_L"]
<1>1. DOMAIN l = DOMAIN NoLocals
  BY Here DEF Place
<1>2. /\ DOMAIN m = DOMAIN NoLocals /\ m.found = "NOTFOUND_L"
      /\ \A f \in {"helped", "k", "start", "dest", "dest_op", "curr", "curr_op", "parent", "parent_op"} :
           m[f] = l[f]
  BY <1>1 DEF NoLocals
<1>3. Follow(t, child[l.curr]["left"], m) /\ "left" \in Sides
  BY DEF FindLeft, Sides
<1> HIDE DEF m
<1> QED BY <1>2, <1>3, FollowInv

(* A thread takes up a relocation that it meets at curr. *)
LEMMA MeetsRelocate ==
    ASSUME Heap, NEW m, UnderParent(m), op[m.curr].flag = "RELOCATE", m.helped = op[m.curr].op
    PROVE  Relocates(m) /\ m.helped \in 0 .. Len(desc)
<1>1. m.curr \in Nodes
  BY DEF UnderParent, Link, Known
<1>2. op[m.curr] \in Words /\ m.helped \in 0 .. Len(desc)
  BY <1>1, HeapTypes
<1>3. op[m.curr] = Word("RELOCATE", m.helped)
  BY <1>2 DEF Words, Word
<1>4. IsRelocate(m.helped) /\ ~Gone(m.curr)
  BY <1>1, Busy DEF Heap, HeapInv
<1>5. m.curr # desc[m.helped].dest =>
        \A n \in Nodes : op[n] = Word("RELOCATE", m.helped) => n \in {m.curr, desc[m.helped].dest}
  BY <1>1, <1>3 DEF Heap, PendingInv
<1> QED BY <1>2, <1>3, <1>4, <1>5 DEF Relocates, UpTo

(* 87-95 *)
LEMMA FindNextInv ==
    ASSUME Inv, NEW t \in All, pc[t] = "FindNext", FindNext(t, loc[t]), UNCHANGED heap
    PROVE  Inv'
<1> DEFINE l == loc[t]
           w == op[l.next]
           down == [l EXCEPT !.parent = l.curr, !.parent_op = l.curr_op, !.curr = l.next, !.curr_op = w]
           met == [down EXCEPT !.helped = w.op, !.target = l.next, !.then = "find"]
<1>1. Heap /\ Place("FindNext", l) /\ pc[t] \notin Linking \cup Relocating
  BY Here DEF Linking, Relocating
<1>2. /\ DOMAIN l = DOMAIN NoLocals /\ l.helped \in 0 .. Len(desc)
      /\ l.found \in {"FOUND", "NOTFOUND_L", "NOTFOUND_R"} /\ l.k \in AllKeys /\ SecondFind(l)
      /\ Link(l.curr, l.curr_op, l.next)
  BY <1>1 DEF Place
<1>3. l.next \in Nodes /\ Known(l.next) /\ w \in Words
  BY <1>1, <1>2, HeapTypes DEF Known, Link
<1>4. /\ DOMAIN down = DOMAIN NoLocals /\ down.helped = l.helped /\ down.found = l.found /\ down.k = l.k
      /\ down.start = l.start /\ down.dest = l.dest /\ down.dest_op = l.dest_op
      /\ down.curr = l.next /\ down.curr_op = w /\ down.parent = l.curr /\ down.parent_op = l.curr_op
  BY <1>2 DEF NoLocals
<1>5. w.flag = "NONE" => Step(t, "FindKey", down)
  BY DEF FindNext
<1>6. w.flag # "NONE" => Step(t, HelperOf[w.flag], met)
  BY DEF FindNext
<1> HIDE DEF down
<1>7. /\ DOMAIN met = DOMAIN NoLocals /\ met.helped = w.op /\ met.found = l.found /\ met.k = l.k
      /\ met.start = l.start /\ met.dest = l.dest /\ met.dest_op = l.dest_op /\ met.target = l.next
      /\ met.curr = l.next /\ met.parent = l.curr /\ met.parent_op = l.curr_op
  BY <1>4 DEF NoLocals
<1> HIDE DEF met
<1>8. UnderParent(down) /\ UnderParent(met) /\ SecondFind(down) /\ SecondFind(met)
  BY <1>2, <1>4, <1>7 DEF UnderParent, SecondFind
<1>9. w.op \in 0 .. Len(desc)
  BY <1>1, <1>3, HeapTypes
<1>10. CASE w.flag = "NONE"
  <2>1. Seen(l.next, w)
    BY <1>3, <1>10 DEF Seen, Quiet, UpTo
  <2> HIDE DEF w, l
  <2>2. Place("FindKey", down)
    BY <1>2, <1>4, <1>8, <2>1
    DEF Place, SecondFind, Searching, Inserting, Deleting, Moving, Marking,
              Linking, Relocating
  <2> QED BY <1>1, <1>5, <1>10, <2>2, SearchInv DEF l
<1>11. CASE w.flag = "CHILDCAS"
  <2>1. Links(met) /\ TooLate(met)
    BY <1>1, <1>3, <1>7, <1>11, MeetsChildCAS
  <2>2. HelperOf[w.flag] = "ChildCAS"
    BY <1>11 DEF HelperOf
  <2> HIDE DEF w, l
  <2>3. Place("ChildCAS", met)
    BY <1>2, <1>7, <1>8, <1>9, <2>1
    DEF Place, SecondFind, Searching, Inserting, Deleting, Moving, Marking,
              Linking, Relocating
  <2> QED BY <1>1, <1>6, <1>11, <2>2, <2>3, SearchInv DEF l
<1>12. CASE w.flag = "RELOCATE"
  <2>1. Relocates(met)
    BY <1>1, <1>7, <1>8, <1>12, MeetsRelocate
  <2>2. HelperOf[w.flag] = "RelocateState"
    BY <1>12 DEF HelperOf
  <2> HIDE DEF w, l
  <2>3. Place("RelocateState", met)
    BY <1>2, <1>7, <1>8, <1>9, <2>1
    DEF Place, SecondFind, Searching, Inserting, Deleting, Moving, Marking,
              Linking, Relocating
  <2> QED BY <1>1, <1>6, <1>12, <2>2, <2>3, SearchInv DEF l
<1>13. CASE w.flag = "MARK"
  <2>1. HelperOf[w.flag] = "MarkedSide" /\ op[met.curr].flag = "MARK"
    BY <1>7, <1>13 DEF HelperOf
  <2> HIDE DEF w, l
  <2>2. Place("MarkedSide", met)
    BY <1>2, <1>7, <1>8, <1>9, <2>1
    DEF Place, SecondFind, Searching, Inserting, Deleting, Moving, Marking,
              Linking, Relocating
  <2> QED BY <1>1, <1>6, <1>13, <2>1, <2>2, SearchInv DEF l
<1> QED BY <1>3, <1>10, <1>11, <1>12, <1>13 DEF Words, Flags

(* 96-110 *)
LEMMA FindKeyInv ==
    ASSUME Inv, NEW t \in All, pc[t] = "FindKey", FindKey(t, loc[t]), UNCHANGED heap
    PROVE  Inv'
<1> DEFINE l == loc[t]
           m == [l EXCEPT !.found = "FOUND"]
<1>1. Heap /\ Place("FindKey", l) /\ pc[t] \notin Linking \cup Relocating
  BY Here DEF Linking, Relocating
<1>2. /\ DOMAIN m = DOMAIN NoLocals /\ m.found = "FOUND" /\ m.helped = l.helped /\ m.k = l.k
      /\ m.start = l.start /\ m.dest = l.dest /\ m.dest_op = l.dest_op
      /\ m.curr = l.curr /\ m.curr_op = l.curr_op /\ m.parent = l.parent /\ m.parent_op = l.parent_op
  BY <1>1 DEF Place, NoLocals
<1>3. Step(t, "FindLeft", l) \/ Step(t, "FindRight", l) \/ Step(t, "FindCheckCurr", m)
  BY DEF FindKey
<1> HIDE DEF l, m
<1>4. Place("FindLeft", l) /\ Place("FindRight", l)
  BY <1>1
  DEF Place, SecondFind, Searching, Inserting, Deleting, Moving, Marking,
              Linking, Relocating
<1>5. UnderParent(m) /\ SecondFind(m) /\ LeftDest(m)
  BY <1>1, <1>2 DEF Place, UnderParent, SecondFind, LeftDest
<1>6. Place("FindCheckCurr", m)
  BY <1>1, <1>2, <1>5
  DEF Place, SecondFind, Searching, Inserting, Deleting, Moving, Marking,
              Linking, Relocating
<1> QED BY <1>1, <1>3, <1>4, <1>6, SearchInv DEF l

(* 117, first test *)
LEMMA FindCheckInv ==
    ASSUME Inv, NEW t \in All, pc[t] = "FindCheck", FindCheck(t, loc[t]), UNCHANGED heap
    PROVE  Inv'
<1> DEFINE l == loc[t]
<1>1. Heap /\ Place("FindCheck", l) /\ pc[t] \notin Linking \cup Relocating /\ pc[t] # "idle"
  BY Here DEF Linking, Relocating
<1>2. Step(t, "FindCheckCurr", l) \/ FindAgain(t, l)
  BY DEF FindCheck
<1> HIDE DEF l
<1>3. Place("FindCheckCurr", l)
  BY <1>1
  DEF Place, SecondFind, Searching, Inserting, Deleting, Moving, Marking,
              Linking, Relocating
<1> QED BY <1>1, <1>2, <1>3, SearchInv, RetryInv DEF l

(* 117, second test *)
LEMMA FindCheckCurrInv ==
    ASSUME Inv, NEW t \in All, pc[t] = "FindCheckCurr", FindCheckCurr(t, loc[t]), UNCHANGED heap
    PROVE  Inv'
<1> DEFINE l == loc[t]
<1>1. Heap /\ Place("FindCheckCurr", l) /\ pc[t] \notin Linking \cup Relocating /\ pc[t] # "idle"
  BY Here DEF Linking, Relocating
<1>2. CASE FindAgain(t, l) \/ \E r : Answer(t, l, r)
  BY <1>1, <1>2, RetryInv
<1>3. CASE l.start # Root /\ Step(t, "DeleteRecheck", l)
  <2> HIDE DEF l
  <2>1. Place("DeleteRecheck", l)
    BY <1>1, <1>3
    DEF Place, SecondFind, Searching, Inserting, Deleting, Moving, Marking,
              Linking, Relocating
  <2> QED BY <1>1, <1>3, <2>1, SearchInv DEF l
<1>4. CASE l.found # "FOUND" /\ Step(t, "InsertOld", l)
  <2> HIDE DEF l
  <2>1. Place("InsertOld", l)
    BY <1>1, <1>4
    DEF Place, SecondFind, Searching, Inserting, Deleting, Moving, Marking,
              Linking, Relocating
  <2> QED BY <1>1, <1>4, <2>1, SearchInv DEF l
<1>5. CASE l.found = "FOUND" /\ Step(t, "DeleteLeft", l)
  <2> HIDE DEF l
  <2>1. Place("DeleteLeft", l)
    BY <1>1, <1>5
    DEF Place, SecondFind, Searching, Inserting, Deleting, Moving, Marking,
              Linking, Relocating
  <2> QED BY <1>1, <1>5, <2>1, SearchInv DEF l
<1> QED BY <1>2, <1>3, <1>4, <1>5 DEF FindCheckCurr, FindReturns

(* 138-139 *)
LEMMA InsertOldInv ==
    ASSUME Inv, NEW t \in All, pc[t] = "InsertOld", InsertOld(t, loc[t]), UNCHANGED heap
    PROVE  Inv'
<1> DEFINE l == loc[t]
           m == [l EXCEPT !.old = child[l.curr][FoundSide(l)]]
<1>1. Heap /\ Place("InsertOld", l) /\ pc[t] \notin Linking \cup Relocating
  BY Here DEF Linking, Relocating
<1>2. /\ DOMAIN m = DOMAIN NoLocals /\ m.found = l.found /\ m.helped = l.helped /\ m.k = l.k
      /\ m.start = l.start /\ m.dest = l.dest /\ m.dest_op = l.dest_op
      /\ m.curr = l.curr /\ m.curr_op = l.curr_op
      /\ m.old = child[l.curr][FoundSide(l)]
  BY <1>1 DEF Place, NoLocals
<1>3. Step(t, "InsertCAS", m)
  BY DEF InsertOld
<1>4. l.curr \in Nodes /\ FoundSide(l) \in Sides /\ FoundSide(m) = FoundSide(l)
  BY <1>1, <1>2 DEF Place, Inserting, Seen, Known, FoundSide, Sides
<1>5. m.old \in Pointers
  BY <1>1, <1>2, <1>4, HeapTypes
<1> HIDE DEF l, m
<1>6. EndsHere(m) /\ SecondFind(m)
  BY <1>1, <1>2, <1>4 DEF Place, Inserting, EndsHere, SecondFind
<1>7. Place("InsertCAS", m)
  BY <1>1, <1>2, <1>4, <1>5, <1>6
  DEF Place, SecondFind, Searching, Inserting, Deleting, Moving, Marking,
              Linking, Relocating
<1> QED BY <1>1, <1>3, <1>7, SearchInv DEF l

(* 156, left child *)
LEMMA DeleteLeftInv ==
    ASSUME Inv, NEW t \in All, pc[t] = "DeleteLeft", DeleteLeft(t, loc[t]), UNCHANGED heap
    PROVE  Inv'
<1> DEFINE l == loc[t]
<1>1. Heap /\ Place("DeleteLeft", l) /\ pc[t] \notin Linking \cup Relocating
  BY Here DEF Linking, Relocating
<1>2. Step(t, "DeleteMark", l) \/ Step(t, "DeleteRight", l)
  BY DEF DeleteLeft
<1> HIDE DEF l
<1>3. Place("DeleteMark", l) /\ Place("DeleteRight", l)
  BY <1>1
  DEF Place, SecondFind, Searching, Inserting, Deleting, Moving, Marking,
              Linking, Relocating
<1> QED BY <1>1, <1>2, <1>3, SearchInv DEF l

(* 156, right child; 163 *)
LEMMA DeleteRightInv ==
    ASSUME Inv, NEW t \in All, pc[t] = "DeleteRight", DeleteRight(t, loc[t]), UNCHANGED heap
    PROVE  Inv'
<1> DEFINE l == loc[t]
           m == [l EXCEPT !.start = l.curr, !.dest = l.curr, !.dest_op = l.curr_op]
           r == [Frame(m) EXCEPT !.start = m.start, !.dest = m.dest, !.dest_op = m.dest_op,
                                 !.parent = m.parent, !.parent_op = m.parent_op]
<1>1. Heap /\ Place("DeleteRight", l) /\ pc[t] \notin Linking \cup Relocating
  BY Here DEF Linking, Relocating
<1>2. CASE Step(t, "DeleteMark", l)
  <2> HIDE DEF l
  <2>1. Place("DeleteMark", l)
    BY <1>1
    DEF Place, SecondFind, Searching, Inserting, Deleting, Moving, Marking,
              Linking, Relocating
  <2> QED BY <1>1, <1>2, <2>1, SearchInv DEF l
<1>3. CASE ~child[l.curr].right.null /\ Step(t, "FindOp", Rewind(m))
  <2>1. Seen(l.curr, l.curr_op) /\ l.curr # Root /\ l.k \in AllKeys
    BY <1>1 DEF Place, Deleting, UnderParent, Link
  <2>2. m.start = l.curr /\ m.dest = l.curr /\ m.dest_op = l.curr_op /\ m.k = l.k
    BY <1>1 DEF Place, NoLocals
  <2>3. Rewind(m) = r
    BY <2>1, <2>2 DEF Rewind
  <2> HIDE DEF m
  <2>4. /\ DOMAIN r = DOMAIN NoLocals /\ r.helped = 0 /\ r.found = "NOTFOUND_R" /\ r.k = m.k
        /\ r.start = m.start /\ r.dest = m.dest /\ r.dest_op = m.dest_op
    BY DEF Frame, NoLocals
  <2> HIDE DEF r, l
  <2>5. SecondFind(r)
    BY <1>3, <2>1, <2>2, <2>4 DEF SecondFind
  <2>6. Place("FindOp", r)
    BY <1>1, <2>1, <2>2, <2>4, <2>5, HeapTypes
    DEF Place, SecondFind, Searching, Inserting, Deleting, Moving, Marking,
              Linking, Relocating
  <2> QED BY <1>1, <1>3, <2>3, <2>6, SearchInv DEF l
<1> QED BY <1>2, <1>3 DEF DeleteRight

(* 163, second test *)
LEMMA DeleteRecheckInv ==
    ASSUME Inv, NEW t \in All, pc[t] = "DeleteRecheck", DeleteRecheck(t, loc[t]), UNCHANGED heap
    PROVE  Inv'
<1> DEFINE l == loc[t]
<1>1. Heap /\ Place("DeleteRecheck", l) /\ pc[t] \notin Linking \cup Relocating /\ pc[t] # "idle"
  BY Here DEF Linking, Relocating
<1>2. CASE Retry(t, l)
  BY <1>1, <1>2, RetryInv
<1>3. CASE op[l.dest] = l.dest_op /\ Step(t, "DeleteKey", l)
  <2> HIDE DEF l
  <2>1. UnderParent(l)
    BY <1>1, <1>3 DEF Place, Moving, LeftDest
  <2>2. Place("DeleteKey", l)
    BY <1>1, <2>1
    DEF Place, SecondFind, Searching, Inserting, Deleting, Moving, Marking,
              Linking, Relocating
  <2> QED BY <1>1, <1>3, <2>2, SearchInv DEF l
<1> QED BY <1>2, <1>3 DEF DeleteRecheck

(* 165 *)
LEMMA DeleteKeyInv ==
    ASSUME Inv, NEW t \in All, pc[t] = "DeleteKey", DeleteKey(t, loc[t]), UNCHANGED heap
    PROVE  Inv'
<1> DEFINE l == loc[t]
           m == [l EXCEPT !.new_key = key[l.curr]]
<1>1. Heap /\ Place("DeleteKey", l) /\ pc[t] \notin Linking \cup Relocating
  BY Here DEF Linking, Relocating
<1>2. /\ DOMAIN m = DOMAIN NoLocals /\ m.found = l.found /\ m.helped = l.helped /\ m.k = l.k
      /\ m.start = l.start /\ m.dest = l.dest /\ m.dest_op = l.dest_op
      /\ m.curr = l.curr /\ m.curr_op = l.curr_op /\ m.parent = l.parent /\ m.parent_op = l.parent_op
      /\ m.new_key = key[l.curr]
  BY <1>1 DEF Place, NoLocals
<1>3. Step(t, "DeleteRelocate", m)
  BY DEF DeleteKey
<1>4. m.new_key \in AllKeys \cup {-1}
  BY <1>1, <1>2, HeapTypes DEF Place, UnderParent, Link, Known
<1> HIDE DEF l, m
<1>5. UnderParent(m) /\ SecondFind(m)
  BY <1>1, <1>2 DEF Place, UnderParent, SecondFind
<1>6. Place("DeleteRelocate", m)
  BY <1>1, <1>2, <1>4, <1>5
  DEF Place, SecondFind, Searching, Inserting, Deleting, Moving, Marking,
              Linking, Relocating
<1> QED BY <1>1, <1>3, <1>6, SearchInv DEF l

(* 191 *)
LEMMA MarkedSideInv ==
    ASSUME Inv, NEW t \in All, pc[t] = "MarkedSide", MarkedSide(t, loc[t]), UNCHANGED heap
    PROVE  Inv'
<1> DEFINE l == loc[t]
           s == IF child[l.parent].left = Ptr(l.curr) THEN "left" ELSE "right"
           m == [l EXCEPT !.side = s]
<1>1. Heap /\ Place("MarkedSide", l) /\ pc[t] \notin Linking \cup Relocating
  BY Here DEF Linking, Relocating
<1>2. /\ DOMAIN m = DOMAIN NoLocals /\ m.found = l.found /\ m.helped = l.helped /\ m.k = l.k
      /\ m.start = l.start /\ m.dest = l.dest /\ m.dest_op = l.dest_op
      /\ m.curr = l.curr /\ m.curr_op = l.curr_op /\ m.parent = l.parent /\ m.parent_op = l.parent_op
      /\ m.side = s
  BY <1>1 DEF Place, NoLocals
<1>3. Step(t, "MarkedCAS", m)
  BY DEF MarkedSide
<1>4. ~Gone(l.parent) /\ ~Gone(l.curr) => child[l.parent][s] = Ptr(l.curr)
  BY <1>1 DEF Place, Marking, UnderParent, Link, Sides
<1>5. s \in Sides
  BY DEF Sides
<1> HIDE DEF l, m, s
<1>6. UnderParent(m) /\ SecondFind(m)
  BY <1>1, <1>2 DEF Place, Marking, UnderParent, SecondFind
<1>7. Place("MarkedCAS", m)
  BY <1>1, <1>2, <1>4, <1>5, <1>6
  DEF Place, SecondFind, Searching, Inserting, Deleting, Moving, Marking,
              Linking, Relocating
<1> QED BY <1>1, <1>3, <1>7, SearchInv DEF l

(* The end of a call. *)
LEMMA ReturnInv ==
    ASSUME Inv, NEW t \in All, pc[t] = "Return", Return(t), UNCHANGED heap
    PROVE  Inv'
<1>1. Heap /\ pc[t] \notin Linking \cup Relocating
  BY Here DEF Linking, Relocating
<1>2. Place("idle", NoLocals)
  <2> DEFINE m == NoLocals
  <2>1. m.helped = 0 /\ m.found = "NOTFOUND_R" /\ m.start = Root
    BY DEF NoLocals
  <2>2. Place("idle", m)
    BY <1>1, <2>1, HeapTypes
    DEF Place, SecondFind, Searching, Inserting, Deleting, Moving, Marking,
              Linking, Relocating
  <2> QED BY <2>2
<1> QED BY <1>1, <1>2, SearchInv DEF Return

(* Being at work on a relocation means to help it at curr, or to help it   *)
(* anywhere once it shows at its destination.                              *)
LEMMA WorkGoesOn ==
    ASSUME NEW p \in Relocating, NEW q \in Relocating, NEW l, NEW m,
           m.helped = l.helped, m.curr = l.curr, NEW n,
           op[n].flag \in {"CHILDCAS", "RELOCATE"}, AtWork(p, l, n)
    PROVE  AtWork(q, m, n)
<1>1. op[n].flag # "CHILDCAS"
  BY DEF AtWork, Linking, Relocating
<1> QED BY <1>1 DEF AtWork

(* A relocation whose outcome is known. *)
LEMMA FailedInv ==
    ASSUME Inv, NEW t \in All, pc[t] \in {"RelocateState", "RelocateReread"}, UNCHANGED heap,
           desc[loc[t].helped].state = "FAILED", Outcome(t, loc[t], "FAILED")
    PROVE  Inv'
<1> DEFINE l == loc[t]
           d == desc[l.helped]
           m == [l EXCEPT !.state = "FAILED"]
<1>1. Heap /\ Place(pc[t], l) /\ pc[t] \in Relocating /\ pc[t] # "idle"
  BY Here DEF Relocating
<1>2. /\ Relocates(l) /\ UnderParent(l) /\ IsRelocate(l.helped) /\ l.helped \in 0 .. Len(desc)
      /\ d.state = "FAILED"
  BY <1>1 DEF Place, Relocates
<1>3. DestPassed(l)
  BY <1>1, <1>2 DEF Heap, DescInv, IsRelocate, IsChildCAS, RelocateOK, DestPassed
<1>4. CASE d.dest = l.curr
  <2>1. PICK to, r : Step(t, to, r) /\ Place(to, r) /\ to \notin Linking \cup Relocating
    BY <1>1, <1>4, HelperReturnsPlace DEF Outcome
  <2>2. ASSUME NEW n \in Nodes, op[n].flag \in {"CHILDCAS", "RELOCATE"}, AtWork(pc[t], l, n) PROVE FALSE
    <3>1. op[n].flag = "RELOCATE" /\ l.helped = op[n].op /\ (n # d.dest => l.curr = n)
      BY <1>1, <2>2 DEF AtWork, Linking, Relocating
    <3>2. n = d.dest
      BY <1>4, <3>1
    <3>3. op[n] = Word("RELOCATE", l.helped)
      BY <1>1, <3>1, HeapTypes DEF Words, Word
    <3> QED BY <1>3, <3>2, <3>3 DEF DestPassed
  <2> QED BY <2>1, <2>2, LoadInv
<1>5. CASE d.dest # l.curr
  <2>1. /\ DOMAIN m = DOMAIN NoLocals /\ m.found = l.found /\ m.helped = l.helped /\ m.k = l.k
        /\ m.start = l.start /\ m.dest = l.dest /\ m.dest_op = l.dest_op
        /\ m.curr = l.curr /\ m.curr_op = l.curr_op /\ m.parent = l.parent /\ m.parent_op = l.parent_op
        /\ m.state = "FAILED"
    BY <1>1 DEF Place, NoLocals
  <2>2. Step(t, "RelocateMark", m)
    BY <1>5 DEF Outcome
  <2> HIDE DEF m, l
  <2>3. ASSUME NEW n \in Nodes, op[n].flag \in {"CHILDCAS", "RELOCATE"}, AtWork(pc[t], l, n)
        PROVE  AtWork("RelocateMark", m, n)
    <3>1. "RelocateMark" \in Relocating
      BY DEF Relocating
    <3> QED BY <1>1, <2>1, <2>3, <3>1, WorkGoesOn
  <2>4. UnderParent(m) /\ SecondFind(m) /\ Relocates(m) /\ DestPassed(m)
    BY <1>1, <1>2, <1>3, <2>1 DEF Place, UnderParent, SecondFind, Relocates, DestPassed
  <2>5. Place("RelocateMark", m)
    BY <1>1, <1>2, <1>5, <2>1, <2>4
    DEF Place, SecondFind, Searching, Inserting, Deleting, Moving, Marking,
              Linking, Relocating
  <2> QED BY <2>2, <2>3, <2>5, LoadInv DEF l
<1> QED BY <1>4, <1>5

(* 209-211 *)
LEMMA RelocateStateInv ==
    ASSUME Inv, NEW t \in All, pc[t] \in {"RelocateState", "RelocateReread"}, UNCHANGED heap,
           \/ RelocateState(t, loc[t], desc[loc[t].helped])
           \/ pc[t] = "RelocateReread" /\ RelocateReread(t, loc[t], desc[loc[t].helped])
    PROVE  Inv'
<1> DEFINE l == loc[t]
           d == desc[l.helped]
<1>1. Heap /\ Place(pc[t], l) /\ pc[t] \in Relocating
  BY Here DEF Relocating
<1>2. Relocates(l) /\ IsRelocate(l.helped) /\ l.helped \in 0 .. Len(desc)
  BY <1>1 DEF Place, Relocates
<1>3. /\ d.state \in {"ONGOING", "SUCCEED", "FAILED"}
      /\ d.state = "SUCCEED" => UpTo(Word("RELOCATE", l.helped), op[d.dest])
      /\ pc[t] = "RelocateReread" => d.state # "ONGOING"
  BY <1>1, <1>2 DEF Heap, DescInv, IsRelocate, IsChildCAS, RelocateOK, Place
<1>4. ASSUME NEW to \in {"RelocateDest", "RelocateKey"}, Step(t, to, l),
             to = "RelocateKey" => d.state = "SUCCEED"
      PROVE  Inv'
  <2>1. \A n \in Nodes : op[n].flag \in {"CHILDCAS", "RELOCATE"} /\ AtWork(pc[t], l, n) => AtWork(to, l, n)
    BY <1>1, <1>4, WorkGoesOn DEF Relocating
  <2> HIDE DEF l
  <2>2. Place(to, l)
    BY <1>1, <1>2, <1>3, <1>4
    DEF Place, SecondFind, Searching, Inserting, Deleting, Moving, Marking,
              Linking, Relocating
  <2> QED BY <1>4, <2>1, <2>2, LoadInv DEF l
<1>5. CASE d.state = "ONGOING"
  BY <1>3, <1>4, <1>5 DEF RelocateState
<1>6. CASE d.state = "SUCCEED"
  BY <1>4, <1>6 DEF RelocateState, RelocateReread, ActOnState
<1>7. CASE d.state = "FAILED"
  BY <1>7, FailedInv DEF RelocateState, RelocateReread, ActOnState
<1> QED BY <1>3, <1>5, <1>6, <1>7

(* 213-214 *)
LEMMA RelocateSeenInv ==
    ASSUME Inv, NEW t \in All, pc[t] = "RelocateSeen", RelocateSeen(t, loc[t], desc[loc[t].helped]),
           UNCHANGED heap
    PROVE  Inv'
<1> DEFINE l == loc[t]
           d == desc[l.helped]
<1>1. Heap /\ Place("RelocateSeen", l)
  BY Here
<1>2. \A n \in Nodes : op[n].flag \in {"CHILDCAS", "RELOCATE"} /\ AtWork(pc[t], l, n) =>
        AtWork("RelocateSucceed", l, n) /\ AtWork("RelocateFail", l, n)
  BY WorkGoesOn DEF Relocating
<1>3. \/ op[d.dest] = Word("RELOCATE", l.helped) /\ Step(t, "RelocateSucceed", l)
      \/ DestPassed(l) /\ Step(t, "RelocateFail", l)
  BY <1>1 DEF RelocateSeen, Place, DestPassed
<1> HIDE DEF l
<1>4. op[d.dest] = Word("RELOCATE", l.helped) => Place("RelocateSucceed", l)
  BY <1>1
  DEF Place, SecondFind, UpTo, Searching, Inserting, Deleting, Moving, Marking, Linking, Relocating
<1>5. DestPassed(l) => Place("RelocateFail", l)
  BY <1>1
  DEF Place, SecondFind, Searching, Inserting, Deleting, Moving, Marking,
              Linking, Relocating
<1> QED BY <1>2, <1>3, <1>4, <1>5, LoadInv DEF l

-----------------------------------------------------------------------------
(* What the CASes do to the heap. *)

(* A CAS on the word of n that ends an operation there, marks n, or brings *)
(* a relocation to its destination.                                        *)
LEMMA WordCAS ==
    ASSUME Heap, UNCHANGED <<key, child, desc>>, NEW n, Known(n), NEW w \in Words,
           op' = [op EXCEPT ![n] = w], Before(op[n], w), op[n].flag # "MARK",
           w.op <= Len(desc), w.flag # "CHILDCAS",
           w.flag \in {"NONE", "MARK"} => w.op = op[n].op,
           w.flag # "NONE" => n # Root,
           w.flag = "RELOCATE" => IsRelocate(w.op) /\ desc[w.op].dest = n /\ desc[w.op].dest_op = op[n],
           op[n].flag = "CHILDCAS" => child[n][desc[op[n].op].side] = desc[op[n].op].update,
           op[n].flag = "RELOCATE" => IF desc[op[n].op].dest = n THEN desc[op[n].op].state = "SUCCEED"
                                      ELSE w.flag = "MARK" \/ desc[op[n].op].state = "FAILED"
    PROVE  Heap' /\ Advance
<1>1. /\ n \in Nodes /\ Nodes' = Nodes /\ Pointers' = Pointers /\ ~Hidden(n)
      /\ \A i : IsChildCAS(i)' = IsChildCAS(i) /\ IsRelocate(i)' = IsRelocate(i)
  BY DEF Known, Nodes, Pointers, IsChildCAS, IsRelocate
<1>2. /\ op'[n] = w /\ op' \in Seq(Words) /\ Len(op') = Len(op) /\ op[n] \in Words
      /\ \A m \in Nodes \ {n} : op'[m] = op[m]
      /\ \A m : m # n => op'[m] = op[m]
  BY <1>1, HeapTypes DEF Heap, HeapInv, Nodes
<1>3. w # op[n] /\ UpTo(op[n], w)
  BY <1>2 DEF UpTo, Before, Words, Rank, Flags
<1>4. ~Waiting(n) /\ ~Waiting(n)'
  <2>1. ASSUME Waiting(n) PROVE FALSE
    <3>1. IsChildCAS(op[n].op) /\ op[n].flag = "CHILDCAS"
      BY <1>1, <2>1 DEF Heap, HeapInv, Waiting
    <3>2. ChildCASOK(op[n].op)
      BY <3>1 DEF Heap, DescInv, IsChildCAS, IsRelocate
    <3>3. desc[op[n].op].expected # desc[op[n].op].update
      BY <3>2 DEF ChildCASOK
    <3> QED BY <2>1, <3>1, <3>3 DEF Waiting
  <2>2. op'[n].flag # "CHILDCAS"
    BY <1>2
  <2>3. Waiting(n)' => op'[n].flag = "CHILDCAS"
    BY DEF Waiting
  <2> QED BY <2>1, <2>2, <2>3
<1>5. \A m \in Nodes : Waiting(m)' = Waiting(m)
  BY <1>2, <1>4 DEF Waiting
<1>6. ASSUME NEW i PROVE Done(i)' = Done(i)
  BY <1>1, <1>2 DEF Done, Word
<1>7. /\ \A m : Gone(m)' = Gone(m)
      /\ \A m : Hidden(m)' = Hidden(m)
  <2>1. ASSUME NEW m PROVE Gone(m)' = Gone(m)
    BY <1>1, <1>6 DEF Gone
  <2>2. ASSUME NEW m, NEW k \in Nodes, Waiting(k) PROVE op'[k] = op[k]
    BY <1>2, <1>4, <2>2
  <2>3. ASSUME NEW m PROVE Hidden(m)' = Hidden(m)
    BY <1>1, <1>5, <2>2 DEF Hidden
  <2> QED BY <2>1, <2>3
<1>8. /\ \A m : Known(m)' = Known(m)
      /\ \A p : Spent(p)' = Spent(p)
  BY <1>1, <1>7 DEF Known, Spent
<1>9. \A m \in Nodes : op'[m] \in Words /\ op[m] \in Words /\ UpTo(op[m], op'[m])
  BY <1>2, <1>3, HeapTypes DEF UpTo
<1>10. Advance
  <2>1. Forward
    BY <1>1, <1>2, <1>9, HeapTypes DEF Forward
  <2>2. NewWords
    BY <1>1, <1>2, HeapTypes DEF NewWords
  <2>3. NewPointers
    BY <1>7, <1>8 DEF NewPointers
  <2> QED BY <2>1, <2>2, <2>3 DEF Advance
<1>11. HeapInv'
  BY <1>1, <1>2 DEF Heap, HeapInv, Words, Flags
<1>12. DescInv'
  <2> SUFFICES ASSUME NEW i \in 1 .. Len(desc)
               PROVE  (IsChildCAS(i) /\ ChildCASOK(i)') \/ (IsRelocate(i) /\ RelocateOK(i)')
    BY <1>1 DEF DescInv
  <2>1. CASE IsChildCAS(i) /\ ChildCASOK(i)
    BY <1>1, <1>8, <2>1 DEF ChildCASOK
  <2>2. CASE IsRelocate(i) /\ RelocateOK(i)
    <3> DEFINE d == desc[i]
    <3>1. /\ d.state \in {"ONGOING", "SUCCEED", "FAILED"} /\ d.dest # Root /\ d.dest_op.op < i
          /\ d.key_to_put \in AllKeys \cup {-1} /\ Seen(d.dest, d.dest_op)
          /\ d.state = "SUCCEED" => UpTo(Word("RELOCATE", i), op[d.dest])
          /\ d.state = "FAILED" => op[d.dest] \notin {d.dest_op, Word("RELOCATE", i)}
          /\ d.dest \in Nodes
      BY <2>2 DEF RelocateOK, Seen, Known
    <3>2. Seen(d.dest, d.dest_op)' /\ (op[d.dest] # d.dest_op => op'[d.dest] # d.dest_op)
      <4>1. desc' = desc
        OBVIOUS
      <4> HIDE DEF d
      <4>2. ASSUME NEW k, NEW v, Seen(k, v) PROVE Seen(k, v)' /\ (op[k] # v => op'[k] # v)
        BY <1>10, <4>2, SeenStays
      <4>3. ASSUME NEW k, NEW v, k = desc'[i].dest, v = desc'[i].dest_op PROVE Seen(k, v)' /\ (op[k] # v => op'[k] # v)
        BY <3>1, <4>1, <4>2, <4>3 DEF d
      <4> QED BY <4>1, <4>3 DEF d
    <3>3. d.state = "SUCCEED" => UpTo(Word("RELOCATE", i), op'[d.dest])
      <4>1. Word("RELOCATE", i) \in Words
        BY HeapTypes DEF Word, Words, Flags
      <4> QED BY <1>9, <3>1, <4>1, UpToTrans
    <3>4. d.state = "FAILED" => op'[d.dest] \notin {d.dest_op, Word("RELOCATE", i)}
      BY <1>2, <3>1, <3>2 DEF Word
    <3> HIDE DEF d
    <3> QED BY <2>2, <3>1, <3>2, <3>3, <3>4 DEF RelocateOK, d
  <2> QED BY <2>1, <2>2 DEF Heap, DescInv
<1>13. PendingInv'
  <2>1. SUFFICES ASSUME NEW m \in Nodes, NEW e, e = desc[op'[m].op]
                 PROVE  /\ op'[m].flag = "CHILDCAS" =>
                             /\ child[m][e.side] \in {e.expected, e.update}
                             /\ \A k \in Nodes : op'[k] = op'[m] => k = m
                        /\ Waiting(m)' => IF e.expected.null THEN Adds(m, e)' ELSE TakesOut(e)'
                        /\ op'[m].flag = "RELOCATE" /\ e.dest # m =>
                             \A k \in Nodes : op'[k] = op'[m] => k \in {m, e.dest}
    <3>1. desc' = desc /\ child' = child /\ Nodes' = Nodes
      BY <1>1
    <3> QED BY <3>1 DEF PendingInv
  <2>2. CASE m = n
    BY <1>2, <1>4, <2>1, <2>2
  <2>3. CASE m # n
    <3>1. /\ op'[m] = op[m] /\ e = desc[op[m].op]
          /\ op[m].flag = "CHILDCAS" =>
               /\ child[m][e.side] \in {e.expected, e.update}
               /\ \A k \in Nodes : op[k] = op[m] => k = m
          /\ Waiting(m) => IF e.expected.null THEN Adds(m, e) ELSE TakesOut(e)
          /\ op[m].flag = "RELOCATE" /\ e.dest # m =>
               \A k \in Nodes : op[k] = op[m] => k \in {m, e.dest}
      BY <1>2, <2>1, <2>3 DEF Heap, PendingInv
    <3>2. op[m].flag = "CHILDCAS" => \A k \in Nodes : op'[k] = op[m] => k = m
      BY <1>2, <3>1
    <3>3. op[m].flag = "RELOCATE" /\ e.dest # m => \A k \in Nodes : op'[k] = op[m] => k \in {m, e.dest}
      BY <1>2, <3>1
    <3>4. ASSUME Waiting(m), e.expected.null PROVE Adds(m, e)'
      <4>1. Adds(m, e)
        BY <3>1, <3>4
      <4>2. e.update.node # n
        <5>1. IsChildCAS(op[m].op)
          BY <3>4 DEF Waiting, Heap, HeapInv
        <5>2. e.update \in Pointers
          BY <3>1, <5>1 DEF Heap, DescInv, ChildCASOK, IsChildCAS, IsRelocate
        <5>3. e.update = Ptr(e.update.node)
          BY <4>1, <5>2, PtrOf DEF Adds, Pointers
        <5> QED BY <1>1, <3>1, <3>4, <5>3 DEF Hidden
      <4>3. op'[e.update.node] = op[e.update.node]
        BY <1>2, <4>2
      <4>4. ASSUME NEW k \in Nodes, Waiting(k)', desc[op'[k].op].update = e.update PROVE k = m
        <5>1. Waiting(k) /\ op'[k] = op[k]
          BY <1>2, <1>4, <1>5, <4>4
        <5> QED BY <4>1, <4>4, <5>1 DEF Adds
      <4> QED BY <1>1, <4>1, <4>3, <4>4 DEF Adds
    <3>5. ASSUME Waiting(m), ~e.expected.null PROVE TakesOut(e)'
      <4>1. TakesOut(e)
        BY <3>1, <3>5
      <4>2. op'[e.expected.node] = op[e.expected.node]
        BY <1>2, <4>1 DEF TakesOut
      <4> QED BY <4>1, <4>2 DEF TakesOut, Replacement
    <3>6. Waiting(m)' = Waiting(m)
      BY <1>5
    <3> QED BY <3>1, <3>2, <3>3, <3>4, <3>5, <3>6
  <2> QED BY <2>2, <2>3
<1>14. TreeInv'
  BY <1>1, <1>2, <1>7, <1>8 DEF Heap, TreeInv
<1> QED BY <1>10, <1>11, <1>12, <1>13, <1>14 DEF Heap


(* Only a node can be gone, or be hidden. *)
LEMMA GoneIsNode ==
    ASSUME Heap, NEW m
    PROVE  /\ Gone(m) => m \in Nodes /\ m # Root
           /\ Hidden(m) => m \in Nodes /\ m # Root
           /\ \A n \in Nodes : Waiting(n) =>
                /\ op[n].op \in 1 .. Len(desc) /\ IsChildCAS(op[n].op)
                /\ desc[op[n].op].update \in Pointers /\ desc[op[n].op].expected \in Pointers
                /\ desc[op[n].op].side \in Sides
<1>1. ASSUME NEW i, IsChildCAS(i)
      PROVE  desc[i].update \in Pointers /\ desc[i].expected \in Pointers /\ desc[i].side \in Sides
             /\ i \in 1 .. Len(desc)
  BY <1>1 DEF Heap, DescInv, ChildCASOK, IsChildCAS, IsRelocate
<1>2. ASSUME NEW i, IsChildCAS(i), desc[i].update = Ptr(m) \/ desc[i].expected = Ptr(m)
      PROVE  m \in Nodes /\ m # Root
  BY <1>1, <1>2, HeapTypes DEF Pointers, Ptr, Nodes, Root
<1>3. \A n \in Nodes : Waiting(n) => IsChildCAS(op[n].op)
  BY DEF Heap, HeapInv, Waiting
<1> QED BY <1>1, <1>2, <1>3 DEF Gone, Hidden

(* A CAS that publishes the operation d at n, and with it a new node if d  *)
(* is to link one.                                                         *)
LEMMA Publish ==
    ASSUME Heap, NEW n, Known(n), op[n].flag = "NONE", NEW flag \in {"CHILDCAS", "RELOCATE"}, NEW d,
           desc' = Append(desc, d), key' \in Seq(AllKeys \cup {-1}),
           op' \in Seq(Words), child' \in Seq([Sides -> [null : BOOLEAN, node : Nat]]),
           Len(op') = Len(key'), Len(child') = Len(key'),
           Len(key') = IF flag = "CHILDCAS" /\ d.expected.null THEN Len(key) + 1 ELSE Len(key),
           \A m \in Nodes : child'[m] = child[m] /\ (m # n => op'[m] = op[m]),
           op'[n] = Word(flag, Len(desc) + 1),
           \A m \in Nodes' \ Nodes : op'[m] = NullWord /\ child'[m] = NoChildren,
           flag = "CHILDCAS" =>
               /\ DOMAIN d = {"side", "expected", "update"} /\ d.side \in Sides
               /\ d.expected = child[n][d.side] /\ d.update # d.expected
               /\ IF d.expected.null THEN d.update = Ptr(Len(key) + 1) ELSE TakesOut(d),
           flag = "RELOCATE" =>
               /\ DOMAIN d = {"state", "dest", "dest_op", "key_to_remove", "key_to_put"}
               /\ n # Root /\ d.state = "ONGOING" /\ d.dest # Root /\ Seen(d.dest, d.dest_op)
               /\ d.key_to_put \in AllKeys \cup {-1}
    PROVE  Heap' /\ Advance
<1>0. PICK i, N : i = Len(desc) + 1 /\ N = Len(key)
  OBVIOUS
<1>1. /\ n \in Nodes /\ ~Hidden(n) /\ op[n] \in Words /\ N \in Nat /\ Len(desc) \in Nat
      /\ Nodes \subseteq Nodes' /\ Nodes' \subseteq Nodes \cup {N + 1} /\ Len(key') \in {N, N + 1}
      /\ N + 1 \notin Nodes /\ N = Len(key)
      /\ \A m \in Nodes' : m \in Nodes \/ (m = N + 1 /\ m \notin Nodes)
  <2>1. n \in Nodes /\ ~Hidden(n) /\ op[n] \in Words /\ N \in Nat /\ Len(desc) \in Nat /\ N = Len(key)
    BY <1>0, HeapTypes DEF Known
  <2>2. Len(key') \in {N, N + 1}
    BY <1>0
  <2>3. CASE Len(key') = N
    <3>1. Nodes' = Nodes
      BY <2>1, <2>3 DEF Nodes
    <3>2. N + 1 \notin Nodes
      BY <2>1 DEF Nodes
    <3> QED BY <2>1, <2>2, <3>1, <3>2
  <2>4. CASE Len(key') = N + 1
    <3>1. Nodes' = Nodes \cup {N + 1}
      BY <2>1, <2>4 DEF Nodes
    <3>2. N + 1 \notin Nodes
      BY <2>1 DEF Nodes
    <3> QED BY <2>1, <2>2, <3>1, <3>2
  <2> QED BY <2>2, <2>3, <2>4
<1>2. /\ Len(desc') = i /\ i \in Nat /\ i \notin 1 .. Len(desc) /\ 1 .. Len(desc') = 1 .. Len(desc) \cup {i}
      /\ desc'[i] = d /\ i > Len(desc) /\ i = Len(desc) + 1
      /\ \A j \in 1 .. Len(desc) : desc'[j] = desc[j]
      /\ desc \in Seq(Range(desc))
      /\ op'[n] = Word(flag, i)
  BY <1>0, <1>1 DEF Heap, HeapInv
<1>3. Pointers \subseteq Pointers'
  BY <1>1 DEF Pointers
<1>4. /\ \A j \in 1 .. Len(desc) : IsChildCAS(j)' = IsChildCAS(j) /\ IsRelocate(j)' = IsRelocate(j)
      /\ IsChildCAS(i)' <=> flag = "CHILDCAS"
      /\ IsRelocate(i)' <=> flag = "RELOCATE"
      /\ ~IsChildCAS(i) /\ ~IsRelocate(i)
  BY <1>2 DEF IsChildCAS, IsRelocate
<1>5. /\ \A m \in Nodes : op[m].op \in 0 .. Len(desc) /\ op[m] \in Words /\ op[m].op # i
      /\ \A m \in Nodes' : m # n => op'[m].op # i
      /\ op'[n].flag = flag /\ op'[n].op = i
  <2>1. \A m \in Nodes : op[m].op \in 0 .. Len(desc) /\ op[m] \in Words /\ op[m].op # i
    BY <1>1, <1>2, HeapTypes
  <2>2. op'[n].flag = flag /\ op'[n].op = i
    BY <1>2 DEF Word
  <2>3. NullWord.op # i
    BY <1>1, <1>2 DEF NullWord, Word
  <2>4. \A m \in Nodes' : m # n => op'[m].op # i
    BY <1>1, <2>1, <2>3
  <2> QED BY <2>1, <2>2, <2>4
<1>6. ASSUME NEW j \in 1 .. Len(desc) PROVE Done(j)' = Done(j)
  <2>1. ASSUME NEW m \in Nodes', op'[m] = Word("CHILDCAS", j) PROVE m \in Nodes /\ op[m] = op'[m]
    <3>1. op'[m].flag = "CHILDCAS" /\ op'[m].op = j
      BY <2>1 DEF Word
    <3>2. m # n
      BY <1>2, <1>5, <3>1
    <3>3. m \in Nodes
      BY <3>1 DEF NullWord, Word
    <3> QED BY <3>2, <3>3
  <2>2. \A m \in Nodes : op[m] = Word("CHILDCAS", j) => op'[m] = op[m]
    BY <1>1 DEF Word
  <2>3. \A m \in Nodes : child'[m] = child[m] /\ m \in Nodes'
    BY <1>1
  <2>4. desc'[j] = desc[j]
    BY <1>2
  <2>5. Done(j)' <=> \A m \in Nodes' : op'[m] = Word("CHILDCAS", j) => child'[m][desc[j].side] = desc[j].update
    BY <2>4 DEF Done
  <2>6. Done(j)' => Done(j)
    BY <2>2, <2>3, <2>5 DEF Done
  <2>7. Done(j) => Done(j)'
    BY <2>1, <2>3, <2>5 DEF Done
  <2> QED BY <2>6, <2>7 DEF Done
<1>7. flag = "CHILDCAS" => ~Done(i)'
  BY <1>1, <1>2 DEF Done
<1>8. ASSUME NEW m PROVE Gone(m)' = Gone(m)
  BY <1>2, <1>4, <1>6, <1>7 DEF Gone
<1>9. /\ ~Waiting(n)
      /\ Waiting(n)' <=> flag = "CHILDCAS"
      /\ \A m \in Nodes : m # n => Waiting(m)' = Waiting(m)
      /\ \A m \in Nodes' \ Nodes : ~Waiting(m)'
  <2>1. ASSUME NEW m \in Nodes, m # n PROVE Waiting(m)' = Waiting(m)
    <3>1. op[m].flag = "CHILDCAS" => IsChildCAS(op[m].op)
      BY DEF Heap, HeapInv
    <3>2. op[m].flag = "CHILDCAS" => desc'[op[m].op] = desc[op[m].op]
      BY <1>2, <3>1 DEF IsChildCAS
    <3>3. op'[m] = op[m] /\ child'[m] = child[m]
      BY <2>1
    <3> QED BY <3>2, <3>3 DEF Waiting
  <2>2. Waiting(n)' <=> flag = "CHILDCAS"
    BY <1>1, <1>2, <1>5 DEF Waiting
  <2>3. \A m \in Nodes' \ Nodes : ~Waiting(m)'
    BY DEF Waiting, NullWord, Word
  <2> QED BY <2>1, <2>2, <2>3 DEF Waiting
<1>10. \A m \in Nodes : Waiting(m) => m # n /\ op'[m] = op[m] /\ desc'[op[m].op] = desc[op[m].op]
  BY <1>2, <1>9, GoneIsNode
<1>11. ASSUME NEW f, Hidden(f)' PROVE Hidden(f) \/ f = N + 1
  <2>1. PICK m \in Nodes' : /\ Waiting(m)'
                            /\ desc'[op'[m].op].expected.null /\ desc'[op'[m].op].update = Ptr(f)
    BY <1>11 DEF Hidden
  <2>2. CASE m = n
    <3>1. flag = "CHILDCAS" /\ desc'[op'[n].op] = d
      BY <1>2, <1>5, <1>9, <2>1, <2>2
    <3>2. d.update = Ptr(N + 1) /\ d.update = Ptr(f)
      BY <1>1, <2>1, <2>2, <3>1
    <3> QED BY <3>2 DEF Ptr
  <2>3. CASE m # n
    <3>1. m \in Nodes /\ Waiting(m)
      BY <1>9, <2>1, <2>3
    <3>2. desc'[op'[m].op] = desc[op[m].op]
      BY <1>10, <3>1
    <3> QED BY <2>1, <3>1, <3>2 DEF Hidden
  <2> QED BY <2>2, <2>3
<1>12. \A m : Known(m) => Known(m)'
  BY <1>1, <1>11 DEF Known
<1>13. \A p : Spent(p)' = Spent(p)
  BY <1>8 DEF Spent
<1>14. \A m \in Nodes : op'[m] \in Words /\ UpTo(op[m], op'[m])
  <2>1. op'[n] \in Words /\ UpTo(op[n], op'[n])
    <3>1. op'[n] \in Words
      BY <1>2 DEF Word, Words, Flags
    <3>2. op[n].op < op'[n].op
      BY <1>1, <1>2, <1>5
    <3> QED BY <3>1, <3>2 DEF UpTo, Before
  <2>2. \A m \in Nodes : m # n => op'[m] \in Words /\ UpTo(op[m], op'[m])
    BY <1>5 DEF UpTo
  <2> QED BY <2>1, <2>2
<1>15. Advance
  <2>1. Forward
    BY <1>1, <1>2, <1>14 DEF Forward
  <2>2. NewWords
    BY <1>1, <1>2, <1>5 DEF NewWords
  <2>3. NewPointers
    BY <1>8, <1>12 DEF NewPointers
  <2> QED BY <2>1, <2>2, <2>3 DEF Advance
<1>16. flag = "CHILDCAS" => /\ d.expected \in Pointers /\ d.update \in Pointers'
                            /\ d.expected.null => Spent(d.expected)
  <2> SUFFICES ASSUME flag = "CHILDCAS"
               PROVE  /\ d.expected \in Pointers /\ d.update \in Pointers'
                      /\ d.expected.null => Spent(d.expected)
    OBVIOUS
  <2>1. d.expected \in Pointers /\ (d.expected.null => Spent(d.expected))
    BY <1>1, HeapTypes DEF Heap, TreeInv
  <2>2. CASE d.expected.null
    <3>1. d.update = Ptr(N + 1) /\ Len(key') = N + 1
      BY <1>0, <2>2
    <3> QED BY <1>1, <2>1, <3>1, HeapTypes DEF Pointers, Ptr, Root, Nodes
  <2>3. CASE ~d.expected.null
    <3>1. d.update = Replacement(d.expected.node) /\ d.expected.node \in Nodes
      BY <1>1, <2>1, <2>3 DEF TakesOut, Pointers, Nodes, Root
    <3>2. d.update \in Pointers
      <4>1. child[d.expected.node].left \in Pointers /\ child[d.expected.node].right \in Pointers
        BY <3>1, HeapTypes DEF Sides
      <4>2. SetNull(d.expected.node) \in Pointers
        BY <3>1, HeapTypes DEF Pointers, SetNull, Nodes
      <4> QED BY <3>1, <4>1, <4>2 DEF Replacement
    <3> QED BY <1>3, <2>1, <3>2
  <2> QED BY <2>2, <2>3
<1>17. HeapInv'
  <2>1. desc' \in Seq(Range(desc'))
    <3>1. desc' \in Seq(Range(desc) \cup {d}) /\ Len(desc') = i
      BY <1>2
    <3> QED BY <3>1, SeqOfRange
  <2>2. op'[Root].flag \in {"NONE", "CHILDCAS"}
    BY <1>1, <1>5, HeapTypes DEF Heap, HeapInv
  <2>3. ASSUME NEW m \in Nodes', NEW q, q = op'[m].op
        PROVE  /\ op'[m] \in Words /\ op'[m].op <= Len(desc')
               /\ op'[m].flag = "CHILDCAS" => IsChildCAS(q)'
               /\ op'[m].flag = "RELOCATE" => IsRelocate(q)'
               /\ child'[m] \in [Sides -> Pointers']
    <3>1. CASE m = n
      <4>1. op'[m] = Word(flag, i) /\ i \in Nat
        BY <1>2, <3>1
      <4>2. child'[m] \in [Sides -> Pointers']
        BY <1>1, <1>3, <3>1, HeapTypes
      <4>3. op'[m] \in Words /\ op'[m].op = i /\ op'[m].flag = flag
        BY <4>1 DEF Word, Words, Flags
      <4>4. ASSUME NEW j, j = op'[m].op
            PROVE  (op'[m].flag = "CHILDCAS" => IsChildCAS(j)') /\ (op'[m].flag = "RELOCATE" => IsRelocate(j)')
        BY <1>4, <4>3, <4>4
      <4> QED BY <1>2, <2>3, <4>2, <4>3, <4>4
    <3>2. CASE m \in Nodes /\ m # n
      <4>1. ASSUME NEW j, j = op[m].op PROVE (IsChildCAS(j) => IsChildCAS(j)') /\ (IsRelocate(j) => IsRelocate(j)')
        BY <1>4 DEF IsChildCAS, IsRelocate
      <4>2. op'[m] = op[m]
        BY <3>2
      <4>3. op[m].flag = "CHILDCAS" => IsChildCAS(op[m].op)
        BY <3>2 DEF Heap, HeapInv
      <4>4. op[m].flag = "RELOCATE" => IsRelocate(op[m].op)
        BY <3>2 DEF Heap, HeapInv
      <4>5. ASSUME NEW j, j = op'[m].op
            PROVE  (op'[m].flag = "CHILDCAS" => IsChildCAS(j)') /\ (op'[m].flag = "RELOCATE" => IsRelocate(j)')
        BY <4>1, <4>2, <4>3, <4>4, <4>5
      <4>6. child'[m] \in [Sides -> Pointers']
        BY <1>3, <3>2, HeapTypes
      <4>7. op'[m].op <= Len(desc')
        <5>1. op[m].op \in 0 .. Len(desc)
          BY <1>5, <3>2
        <5> QED BY <1>1, <1>2, <4>2, <5>1
      <4>8. op'[m] \in Words
        BY <1>5, <3>2, <4>2
      <4> QED BY <2>3, <4>5, <4>6, <4>7, <4>8
    <3>3. CASE m \notin Nodes
      <4>1. op'[m] = NullWord /\ child'[m] = NoChildren
        BY <3>3
      <4>2. NoChildren \in [Sides -> Pointers']
        <5>1. SetNull(NoNode) \in Pointers'
          BY <1>1 DEF SetNull, NoNode, Pointers
        <5> QED BY <5>1 DEF NoChildren, Sides
      <4>3. NullWord \in Words /\ NullWord.flag = "NONE" /\ NullWord.op = 0
        BY DEF NullWord, Word, Words, Flags
      <4> QED BY <1>2, <4>1, <4>2, <4>3
    <3> QED BY <3>1, <3>2, <3>3
  <2>4. ASSUME NEW m \in Nodes'
        PROVE  /\ op'[m].flag = "CHILDCAS" => IsChildCAS(op[m].op)'
               /\ op'[m].flag = "RELOCATE" => IsRelocate(op[m].op)'
    BY <2>3
  <2>5. Len(key') > 0
    BY <1>1, HeapTypes DEF Nodes, Root
  <2> QED BY <2>1, <2>2, <2>3, <2>4, <2>5 DEF HeapInv
<1>18. DescInv'
  <2>1. ASSUME NEW j \in 1 .. Len(desc), IsChildCAS(j), ChildCASOK(j) PROVE ChildCASOK(j)'
    BY <1>2, <1>3, <1>13, <2>1 DEF ChildCASOK
  <2>2. ASSUME NEW j \in 1 .. Len(desc), IsRelocate(j), RelocateOK(j) PROVE RelocateOK(j)'
    <3>1. PICK e : e = desc[j]
      OBVIOUS
    <3>2. /\ e.state \in {"ONGOING", "SUCCEED", "FAILED"} /\ e.dest # Root /\ e.dest_op.op < j
          /\ e.key_to_put \in AllKeys \cup {-1} /\ Seen(e.dest, e.dest_op)
          /\ e.state = "SUCCEED" => UpTo(Word("RELOCATE", j), op[e.dest])
          /\ e.state = "FAILED" => op[e.dest] \notin {e.dest_op, Word("RELOCATE", j)}
          /\ e.dest \in Nodes
      BY <2>2, <3>1 DEF RelocateOK, Seen, Known
    <3>3. Seen(e.dest, e.dest_op)' /\ (op[e.dest] # e.dest_op => op'[e.dest] # e.dest_op)
      BY <1>15, <3>2, SeenStays
    <3>4. e.state = "SUCCEED" => UpTo(Word("RELOCATE", j), op'[e.dest])
      <4>1. Word("RELOCATE", j) \in Words
        BY <1>1 DEF Word, Words, Flags
      <4> QED BY <1>5, <1>14, <3>2, <4>1, UpToTrans
    <3>5. e.state = "FAILED" => op'[e.dest] # Word("RELOCATE", j)
      BY <1>1, <1>2, <3>2 DEF Word
    <3>6. desc'[j] = e
      BY <1>2, <3>1
    <3> QED BY <3>2, <3>3, <3>4, <3>5, <3>6 DEF RelocateOK
  <2>3. flag = "CHILDCAS" => ChildCASOK(i)'
      <3> QED BY <1>2, <1>3, <1>13, <1>16 DEF ChildCASOK
  <2>4. flag = "RELOCATE" => RelocateOK(i)'
    <3>1. ASSUME flag = "RELOCATE" PROVE Seen(d.dest, d.dest_op)'
      BY <1>15, <3>1, SeenStays
    <3>2. ASSUME flag = "RELOCATE" PROVE d.dest_op.op < i
      <4>1. d.dest \in Nodes /\ d.dest_op \in Words /\ UpTo(d.dest_op, op[d.dest])
        BY <3>2 DEF Seen, Known, Quiet
      <4>2. op[d.dest].op \in 0 .. Len(desc) /\ op[d.dest] \in Words
        BY <1>5, <4>1
      <4>3. d.dest_op.op <= op[d.dest].op /\ d.dest_op.op \in Nat
        BY <4>1, <4>2 DEF UpTo, Before, Words
      <4> QED BY <1>1, <1>2, <4>2, <4>3
      <3> QED BY <1>2, <3>1, <3>2 DEF RelocateOK
  <2>5. \A j \in 1 .. Len(desc) : (IsChildCAS(j) /\ ChildCASOK(j)) \/ (IsRelocate(j) /\ RelocateOK(j))
    BY DEF Heap, DescInv
  <2> QED BY <1>2, <1>4, <2>1, <2>2, <2>3, <2>4, <2>5 DEF DescInv
<1>19. PendingInv'
  <2>1. SUFFICES ASSUME NEW m \in Nodes', NEW e, e = desc'[op'[m].op]
                 PROVE  /\ op'[m].flag = "CHILDCAS" =>
                             /\ child'[m][e.side] \in {e.expected, e.update}
                             /\ \A k \in Nodes' : op'[k] = op'[m] => k = m
                        /\ Waiting(m)' => IF e.expected.null THEN Adds(m, e)' ELSE TakesOut(e)'
                        /\ op'[m].flag = "RELOCATE" /\ e.dest # m =>
                             \A k \in Nodes' : op'[k] = op'[m] => k \in {m, e.dest}
    BY DEF PendingInv
  <2>2. CASE m \notin Nodes
    BY <1>9, <2>2 DEF NullWord, Word
  <2>3. CASE m = n
    <3>1. e = d /\ op'[m].op = i /\ \A k \in Nodes' : op'[k] = op'[m] => k = m
      BY <1>2, <1>5, <2>1, <2>3
    <3>2. ASSUME flag = "CHILDCAS", d.expected.null PROVE Adds(n, d)'
      <4>1. d.update = Ptr(N + 1) /\ N + 1 \in Nodes' \ Nodes
        BY <1>0, <1>1, <3>2 DEF Nodes
      <4>2. d.update.node = N + 1 /\ ~d.update.null
        BY <4>1 DEF Ptr
      <4>3. ASSUME NEW p \in Pointers PROVE p # d.update
        BY <1>1, <4>2 DEF Pointers
      <4>4. ASSUME NEW k \in Nodes', NEW s \in Sides PROVE child'[k][s] # d.update
        <5>1. CASE k \in Nodes
          BY <4>3, <5>1, HeapTypes
        <5>2. CASE k \notin Nodes
          BY <4>2, <5>2 DEF NoChildren, SetNull, Sides
        <5> QED BY <5>1, <5>2
      <4>5. ASSUME NEW k \in Nodes', Waiting(k)', desc'[op'[k].op].update = d.update PROVE k = n
        BY <1>9, <1>10, <4>3, <4>5, GoneIsNode
      <4> QED BY <4>1, <4>2, <4>4, <4>5 DEF Adds
    <3>3. ASSUME flag = "CHILDCAS", ~d.expected.null PROVE TakesOut(d)'
      <4>1. TakesOut(d) /\ d.expected.node \in Nodes
        BY <1>1, <1>16, <3>3 DEF Pointers, Nodes, Root
      <4>2. d.expected.node # n
        BY <4>1 DEF TakesOut
      <4> QED BY <4>1, <4>2 DEF TakesOut, Replacement
    <3> QED BY <1>1, <1>5, <1>9, <2>3, <3>1, <3>2, <3>3
  <2>4. CASE m \in Nodes /\ m # n
    <3>1. op'[m] = op[m] /\ child'[m] = child[m]
      BY <2>4
    <3>2. op[m].flag \in {"CHILDCAS", "RELOCATE"} => e = desc[op[m].op]
      BY <1>2, <2>1, <2>4, <3>1 DEF Heap, HeapInv, IsChildCAS, IsRelocate
    <3>3. ASSUME e = desc[op[m].op]
          PROVE  /\ op[m].flag = "CHILDCAS" =>
                      /\ child[m][e.side] \in {e.expected, e.update}
                      /\ \A k \in Nodes : op[k] = op[m] => k = m
                 /\ Waiting(m) => IF e.expected.null THEN Adds(m, e) ELSE TakesOut(e)
                 /\ op[m].flag = "RELOCATE" /\ e.dest # m =>
                      \A k \in Nodes : op[k] = op[m] => k \in {m, e.dest}
      BY <2>4, <3>3 DEF Heap, PendingInv
    <3>4. ASSUME op[m].flag \in {"CHILDCAS", "RELOCATE"}, NEW k \in Nodes', op'[k] = op[m]
          PROVE  k \in Nodes /\ op[k] = op[m]
      BY <1>1, <1>5, <2>4, <3>4 DEF NullWord, Word
    <3>5. Waiting(m)' = Waiting(m) /\ (Waiting(m) => op[m].flag = "CHILDCAS")
      BY <1>9, <2>4 DEF Waiting
    <3>6. ASSUME Waiting(m), e.expected.null PROVE Adds(m, e)'
      <4>1. Adds(m, e) /\ e.update \in Pointers /\ e.update = desc[op[m].op].update
        BY <2>4, <3>2, <3>3, <3>5, <3>6, GoneIsNode
      <4>2. e.update = Ptr(e.update.node) /\ e.update.node \in Nodes
        BY <1>1, <4>1, PtrOf DEF Adds, Pointers, Nodes, Root
      <4>3. e.update.node # n
        BY <1>1, <2>4, <3>2, <3>5, <3>6, <4>2 DEF Hidden
      <4>4. ASSUME NEW k \in Nodes', NEW s \in Sides PROVE child'[k][s] # e.update
        <5>1. CASE k \in Nodes
          BY <4>1, <5>1 DEF Adds
        <5>2. CASE k \notin Nodes
          BY <4>1, <5>2 DEF Adds, NoChildren, SetNull, Sides
        <5> QED BY <5>1, <5>2
      <4>5. ASSUME flag = "CHILDCAS" PROVE d.update # e.update
        <5>1. CASE d.expected.null
          BY <1>0, <1>1, <4>2, <4>5, <5>1 DEF Ptr
        <5>2. CASE ~d.expected.null
          <6>1. d.update = Replacement(d.expected.node) /\ d.expected.node \in Nodes
            BY <1>1, <1>16, <4>5, <5>2 DEF TakesOut, Pointers, Nodes, Root
          <6>2. /\ child[d.expected.node].left # e.update
                /\ child[d.expected.node].right # e.update
            BY <4>1, <6>1 DEF Adds, Sides
          <6>3. SetNull(d.expected.node) # e.update
            BY <4>1 DEF Adds, SetNull
          <6> QED BY <6>1, <6>2, <6>3 DEF Replacement
        <5> QED BY <5>1, <5>2
      <4>6. ASSUME NEW k \in Nodes', Waiting(k)', desc'[op'[k].op].update = e.update PROVE k = m
        <5>1. k # n
          BY <1>2, <1>5, <1>9, <4>5, <4>6
        <5>2. k \in Nodes /\ Waiting(k)
          BY <1>9, <4>6, <5>1
        <5> QED BY <1>10, <4>1, <4>6, <5>2 DEF Adds
      <4> QED BY <4>1, <4>2, <4>3, <4>4, <4>6 DEF Adds
    <3>7. ASSUME Waiting(m), ~e.expected.null PROVE TakesOut(e)'
      <4>1. TakesOut(e) /\ e.expected \in Pointers
        BY <2>4, <3>2, <3>3, <3>5, <3>7, GoneIsNode
      <4>2. e.expected.node \in Nodes /\ e.expected.node # n
        BY <1>1, <3>7, <4>1 DEF TakesOut, Pointers, Nodes, Root
      <4> QED BY <4>1, <4>2 DEF TakesOut, Replacement
    <3> QED BY <3>1, <3>2, <3>3, <3>4, <3>5, <3>6, <3>7
  <2> QED BY <2>2, <2>3, <2>4
<1>20. TreeInv'
  <2>1. \A m : Gone(m) => m \in Nodes
    BY GoneIsNode
  <2>2. ASSUME NEW m \in Nodes', Gone(m)' PROVE op'[m].flag = "MARK"
    BY <1>8, <2>1, <2>2 DEF Heap, TreeInv
  <2>3. ASSUME NEW m \in Nodes', m \notin Nodes, NEW s \in Sides
        PROVE  child'[m][s].null /\ Spent(child'[m][s])
    BY <2>3 DEF NoChildren, SetNull, Sides, Spent
  <2>4. ASSUME NEW m \in Nodes', NEW s \in Sides, NEW p, p = child'[m][s]
        PROVE  /\ p.null => Spent(p)'
               /\ ~p.null /\ ~Gone(m)' => ~Gone(p.node)'
    <3>1. CASE m \in Nodes
      <4>1. p = child[m][s]
        BY <2>4, <3>1
      <4>2. (p.null => Spent(p)) /\ (~p.null /\ ~Gone(m) => ~Gone(p.node))
        BY <3>1, <4>1 DEF Heap, TreeInv
      <4> QED BY <1>8, <1>13, <4>2
    <3>2. CASE m \notin Nodes
      BY <1>13, <2>3, <2>4, <3>2
    <3> QED BY <3>1, <3>2
  <2>5. ASSUME NEW k \in Nodes', NEW m \in Nodes', NEW r \in Sides, NEW s \in Sides,
               ~Gone(k)', ~Gone(m)', ~child'[k][r].null, child'[m][s] = child'[k][r]
        PROVE  k = m /\ r = s
    <3>1. k \in Nodes /\ m \in Nodes
      BY <2>3, <2>5
    <3>2. ~Gone(k) /\ ~Gone(m)
      BY <1>8, <2>5
    <3>3. ~child[k][r].null /\ child[m][s] = child[k][r]
      BY <2>5, <3>1
    <3> QED BY <3>1, <3>2, <3>3 DEF Heap, TreeInv
  <2>6. ASSUME NEW m \in Nodes', NEW s \in Sides
        PROVE  /\ child'[m][s].null => Spent(child[m][s])'
               /\ ~child'[m][s].null /\ ~Gone(m)' => ~Gone(child[m][s].node)'
    BY <2>4
  <2> QED BY <2>2, <2>5, <2>6 DEF TreeInv
<1> QED BY <1>15, <1>17, <1>18, <1>19, <1>20 DEF Heap

(* The CAS that carries out a change of a child pointer. *)
LEMMA CarryOut ==
    ASSUME Heap, UNCHANGED <<key, op, desc>>, NEW n \in Nodes, NEW i, op[n] = Word("CHILDCAS", i),
           NEW d, d = desc[i], child[n][d.side] = d.expected,
           child' = [child EXCEPT ![n][d.side] = d.update]
    PROVE  Heap' /\ Advance
<1>0. op' = op /\ desc' = desc /\ key' = key /\ op[n].flag = "CHILDCAS" /\ op[n].op = i
  BY DEF Word
<1>1. /\ IsChildCAS(i) /\ i \in 1 .. Len(desc) /\ d.side \in Sides
      /\ d.expected \in Pointers /\ d.update \in Pointers /\ d.expected # d.update
      /\ Waiting(n) /\ ~Gone(n)
      /\ \A m \in Nodes : op[m] = op[n] => m = n
      /\ IF d.expected.null THEN Adds(n, d) ELSE TakesOut(d)
      /\ Len(key) \in Nat
  <2>1. IsChildCAS(i) /\ i \in 1 .. Len(desc) /\ Waiting(n)
    BY <1>0 DEF Heap, HeapInv, Waiting, IsChildCAS
  <2>2. ChildCASOK(i)
    BY <2>1 DEF Heap, DescInv, IsChildCAS, IsRelocate
  <2>3. /\ \A m \in Nodes : op[m] = op[n] => m = n
        /\ IF d.expected.null THEN Adds(n, d) ELSE TakesOut(d)
    BY <1>0, <2>1 DEF Heap, PendingInv
  <2>4. ~Gone(n)
    BY <1>0, Busy
  <2> QED BY <2>1, <2>2, <2>3, <2>4, HeapTypes DEF ChildCASOK
<1>2. /\ Nodes' = Nodes /\ Pointers' = Pointers
      /\ \A j : IsChildCAS(j)' = IsChildCAS(j) /\ IsRelocate(j)' = IsRelocate(j)
  BY <1>0 DEF Nodes, Pointers, IsChildCAS, IsRelocate
<1>3. /\ n \in DOMAIN child /\ d.side \in DOMAIN child[n]
      /\ child'[n][d.side] = d.update
      /\ \A s \in Sides : s # d.side => child'[n][s] = child[n][s]
      /\ \A m \in Nodes : m # n => child'[m] = child[m]
      /\ child'[n] \in [Sides -> Pointers]
      /\ child' \in Seq([Sides -> [null : BOOLEAN, node : Nat]]) /\ Len(child') = Len(child)
  <2>1. n \in DOMAIN child /\ child \in Seq([Sides -> [null : BOOLEAN, node : Nat]]) /\ DOMAIN child = Nodes
    BY DEF Heap, HeapInv, Nodes
  <2>2. child[n] \in [Sides -> Pointers]
    BY HeapTypes
  <2>3. Pointers \subseteq [null : BOOLEAN, node : Nat]
    BY <1>1 DEF Pointers
  <2>4. [child[n] EXCEPT ![d.side] = d.update] \in [Sides -> Pointers]
    BY <1>1, <2>2
  <2>5. [child[n] EXCEPT ![d.side] = d.update] \in [Sides -> [null : BOOLEAN, node : Nat]]
    BY <2>3, <2>4
  <2>6. child' = [child EXCEPT ![n] = [child[n] EXCEPT ![d.side] = d.update]]
    BY <2>1
  <2>7. child' \in Seq([Sides -> [null : BOOLEAN, node : Nat]]) /\ Len(child') = Len(child)
    BY <2>1, <2>5, <2>6, ExceptSeq DEF Heap, HeapInv, Nodes
  <2> QED BY <1>1, <2>1, <2>2, <2>4, <2>6, <2>7
<1>4. \A m \in Nodes, s \in Sides : m # n \/ s # d.side => child'[m][s] = child[m][s]
  BY <1>3
<1>5. /\ ~Done(i) /\ Done(i)'
      /\ \A j : j # i => Done(j)' = Done(j)
  <2>1. ~Done(i)
    BY <1>1 DEF Done
  <2>2. Done(i)'
    <3>1. desc'[i] = d /\ Nodes' = Nodes
      BY <1>0, <1>2
    <3> QED BY <1>0, <1>1, <1>3, <3>1 DEF Done
  <2>3. ASSUME NEW j, j # i PROVE Done(j)' = Done(j)
    <3>1. \A m \in Nodes : op[m] = Word("CHILDCAS", j) => m # n
      BY <1>0, <2>3 DEF Word
    <3> QED BY <1>0, <1>2, <1>3, <3>1 DEF Done
  <2> QED BY <2>1, <2>2, <2>3
<1>6. \A m : Gone(m)' <=> Gone(m) \/ d.expected = Ptr(m)
  <2>1. \A j : IsChildCAS(j)' = IsChildCAS(j) /\ desc'[j] = desc[j] /\ Len(desc') = Len(desc)
    BY <1>0, <1>2
  <2> QED BY <1>1, <1>5, <2>1 DEF Gone
<1>7. /\ ~Waiting(n)'
      /\ \A m \in Nodes : m # n => Waiting(m)' = Waiting(m)
  BY <1>0, <1>1, <1>3 DEF Waiting
<1>8. \A f : Hidden(f)' => Hidden(f)
  BY <1>0, <1>2, <1>7 DEF Hidden
<1>9. /\ \A m : Known(m) => Known(m)'
      /\ \A p : Spent(p) => Spent(p)'
  BY <1>2, <1>6, <1>8 DEF Known, Spent
<1>10. \A p : p \in Pointers => (p.null \/ p = Ptr(p.node)) /\ (~p.null => p.node \in Nodes /\ p.node # Root)
  BY <1>1, PtrOf DEF Pointers, Nodes, Root
(* The node that is taken out. *)
<1>11. ASSUME ~d.expected.null
       PROVE  /\ d.expected = Ptr(d.expected.node) /\ d.expected.node \in Nodes
              /\ op[d.expected.node].flag = "MARK" /\ d.expected.node # n /\ d.expected.node # NoNode
              /\ ~Gone(d.expected.node)
              /\ \A s \in Sides : child'[d.expected.node][s] = child[d.expected.node][s]
              /\ \A m \in Nodes, s \in Sides : ~Gone(m) /\ child[m][s] = d.expected => m = n /\ s = d.side
              /\ \/ d.update = SetNull(d.expected.node)
                 \/ \E s \in Sides : d.update = child[d.expected.node][s] /\ ~d.update.null
  <2> DEFINE e == d.expected.node
  <2>1. d.expected = Ptr(e) /\ e \in Nodes /\ e # NoNode
    BY <1>1, <1>10, <1>11 DEF NoNode, Nodes
  <2>2. op[e].flag = "MARK" /\ d.update = Replacement(e)
    BY <1>1, <1>11 DEF TakesOut
  <2>3. e # n
    BY <1>0, <2>2
  <2>4. ~Gone(e)
    <3>1. \A m \in Nodes, s \in Sides : ~child[m][s].null /\ ~Gone(m) => ~Gone(child[m][s].node)
      BY DEF Heap, TreeInv
    <3> QED BY <1>1, <1>11, <3>1
  <2>5. \A m \in Nodes, s \in Sides : ~Gone(m) /\ child[m][s] = d.expected => m = n /\ s = d.side
    BY <1>1, <1>11 DEF Heap, TreeInv
  <2>6. \/ d.update = SetNull(e)
        \/ \E s \in Sides : d.update = child[e][s] /\ ~d.update.null
    BY <2>2 DEF Replacement, Sides
  <2>7. \A s \in Sides : child'[e][s] = child[e][s]
    BY <1>4, <2>1, <2>3
  <2> QED BY <2>1, <2>2, <2>3, <2>4, <2>5, <2>6, <2>7
<1>12. ~Spent(d.update) /\ (d.update.null => ~d.expected.null /\ d.update = SetNull(d.expected.node))
  <2>1. CASE d.expected.null
    <3>1. op[d.update.node].flag # "MARK" /\ ~d.update.null /\ d.update.node \in Nodes
      BY <1>1, <1>10, <2>1 DEF Adds, NullWord, Word
    <3> QED BY <3>1, Busy DEF Spent
  <2>2. CASE ~d.expected.null
    <3>1. CASE d.update = SetNull(d.expected.node)
      BY <1>11, <2>2, <3>1 DEF Spent, SetNull
    <3>2. ASSUME NEW s \in Sides, d.update = child[d.expected.node][s], ~d.update.null PROVE ~Spent(d.update)
      BY <1>11, <2>2, <3>2 DEF Spent, Heap, TreeInv
    <3> QED BY <1>11, <2>2, <3>1, <3>2
  <2> QED BY <2>1, <2>2
<1>13. Advance
  <2>1. Forward
    BY <1>0, <1>2, HeapTypes DEF Forward, UpTo
  <2>2. NewWords
    BY <1>0 DEF NewWords
  <2>3. ASSUME NEW m \in Nodes, NEW s \in Sides, child'[m][s] # child[m][s]
        PROVE  /\ op[m].flag = "CHILDCAS" /\ op'[m] = op[m]
               /\ s = desc[op[m].op].side /\ child[m][s] = desc[op[m].op].expected
               /\ child'[m][s] \in Pointers' /\ ~Spent(child'[m][s])
               /\ \A c : child[m][s] = Ptr(c) => Gone(c)'
    <3>1. m = n /\ s = d.side
      BY <1>4, <2>3
    <3> QED BY <1>0, <1>1, <1>2, <1>3, <1>6, <1>12, <3>1
  <2>4. ASSUME NEW m, Gone(m)', ~Gone(m)
        PROVE  \E k \in Nodes, s \in Sides : child[k][s] = Ptr(m) /\ op[k].flag = "CHILDCAS" /\ op'[k] = op[k]
    BY <1>0, <1>1, <1>6, <2>4
  <2>5. NewPointers
    BY <1>6, <1>9, <2>3, <2>4 DEF NewPointers
  <2> QED BY <2>1, <2>2, <2>5 DEF Advance
<1>14. HeapInv'
  <2>1. \A m \in Nodes : child'[m] \in [Sides -> Pointers]
    BY <1>3, HeapTypes
  <2> QED BY <1>0, <1>2, <1>3, <2>1 DEF Heap, HeapInv
<1>15. DescInv'
  <2>1. ASSUME NEW j, ChildCASOK(j) PROVE ChildCASOK(j)'
    BY <1>0, <1>2, <1>9, <2>1 DEF ChildCASOK
  <2>2. ASSUME NEW j, RelocateOK(j) PROVE RelocateOK(j)'
    <3>1. \A m, w : Seen(m, w) => Seen(m, w)'
      BY <1>0, <1>9 DEF Seen
    <3> QED BY <1>0, <2>2, <3>1 DEF RelocateOK
  <2> QED BY <1>0, <1>2, <2>1, <2>2 DEF Heap, DescInv
<1>16. PendingInv'
  <2>1. SUFFICES ASSUME NEW m \in Nodes, NEW e, e = desc[op[m].op]
                 PROVE  /\ op[m].flag = "CHILDCAS" =>
                             /\ child'[m][e.side] \in {e.expected, e.update}
                             /\ \A k \in Nodes : op[k] = op[m] => k = m
                        /\ Waiting(m)' => IF e.expected.null THEN Adds(m, e)' ELSE TakesOut(e)'
                        /\ op[m].flag = "RELOCATE" /\ e.dest # m =>
                             \A k \in Nodes : op[k] = op[m] => k \in {m, e.dest}
    BY <1>0, <1>2 DEF PendingInv
  <2>2. CASE m = n
    BY <1>0, <1>1, <1>3, <1>7, <2>1, <2>2
  <2>3. CASE m # n
    <3>1. /\ child'[m] = child[m]
          /\ op[m].flag = "CHILDCAS" =>
               /\ child[m][e.side] \in {e.expected, e.update}
               /\ \A k \in Nodes : op[k] = op[m] => k = m
          /\ Waiting(m) => IF e.expected.null THEN Adds(m, e) ELSE TakesOut(e)
          /\ op[m].flag = "RELOCATE" /\ e.dest # m =>
               \A k \in Nodes : op[k] = op[m] => k \in {m, e.dest}
      BY <1>3, <2>1, <2>3 DEF Heap, PendingInv
    <3>2. Waiting(m)' = Waiting(m)
      BY <1>7, <2>3
    <3>3. ASSUME Waiting(m), e.expected.null PROVE Adds(m, e)'
      <4>1. Adds(m, e) /\ e.update \in Pointers
        BY <2>1, <3>1, <3>3, GoneIsNode
      <4>2. e.update.node \in Nodes /\ e.update.node # n
        BY <1>0, <1>10, <4>1 DEF Adds, NullWord, Word
      <4>3. d.update # e.update
        <5>1. CASE d.expected.null
          BY <1>1, <2>1, <2>3, <3>3, <5>1 DEF Adds
        <5>2. CASE ~d.expected.null
          <6>1. SetNull(d.expected.node) # e.update
            BY <4>1 DEF Adds, SetNull
          <6>2. \A s \in Sides : child[d.expected.node][s] # e.update
            BY <1>11, <4>1, <5>2 DEF Adds
          <6> QED BY <1>11, <5>2, <6>1, <6>2
        <5> QED BY <5>1, <5>2
      <4>4. \A k \in Nodes, s \in Sides : child'[k][s] # e.update
        BY <1>3, <1>4, <4>1, <4>3 DEF Adds
      <4>5. ASSUME NEW k \in Nodes, Waiting(k)', desc[op[k].op].update = e.update PROVE k = m
        <5>1. Waiting(k)
          BY <1>7, <4>5
        <5> QED BY <4>1, <4>5, <5>1 DEF Adds
      <4>6. child'[e.update.node] = NoChildren /\ op'[e.update.node] = NullWord
        BY <1>0, <1>3, <4>1, <4>2 DEF Adds
      <4> QED BY <1>0, <1>2, <4>1, <4>4, <4>5, <4>6 DEF Adds
    <3>4. ASSUME Waiting(m), ~e.expected.null PROVE TakesOut(e)'
      <4>1. TakesOut(e) /\ e.expected \in Pointers
        BY <2>1, <3>1, <3>4, GoneIsNode
      <4>2. e.expected.node \in Nodes /\ e.expected.node # n
        BY <1>0, <1>10, <3>4, <4>1 DEF TakesOut
      <4>3. child'[e.expected.node] = child[e.expected.node] /\ op'[e.expected.node] = op[e.expected.node]
        BY <1>0, <1>3, <4>2
      <4> QED BY <4>1, <4>3 DEF TakesOut, Replacement
    <3> QED BY <3>1, <3>2, <3>3, <3>4
  <2> QED BY <2>2, <2>3
<1>17. TreeInv'
  <2>1. ASSUME NEW m \in Nodes, Gone(m)' PROVE op[m].flag = "MARK"
    <3>1. CASE Gone(m)
      BY <3>1 DEF Heap, TreeInv
    <3>2. CASE d.expected = Ptr(m)
      <4>1. ~d.expected.null /\ d.expected.node = m
        BY <3>2 DEF Ptr
      <4> QED BY <1>11, <4>1
    <3> QED BY <1>6, <2>1, <3>1, <3>2
  <2>2. ASSUME NEW m \in Nodes, NEW s \in Sides, NEW p, p = child'[m][s]
        PROVE  /\ p.null => Spent(p)'
               /\ ~p.null /\ ~Gone(m)' => ~Gone(p.node)'
    <3>1. CASE m = n /\ s = d.side
      <4>1. p = d.update
        BY <1>3, <2>2, <3>1
      <4>2. ASSUME p.null PROVE Spent(p)'
        BY <1>6, <1>11, <1>12, <4>1, <4>2 DEF Spent, SetNull
      <4>3. ASSUME ~p.null PROVE ~Gone(p.node)'
        <5>1. ~Gone(p.node)
          BY <1>12, <4>1, <4>3 DEF Spent
        <5>2. d.expected # Ptr(p.node)
          <6> SUFFICES ASSUME d.expected = Ptr(p.node) PROVE FALSE
            OBVIOUS
          <6>1. ~d.expected.null /\ d.expected = p
            BY <1>1, <1>10, <4>1, <4>3 DEF Ptr
          <6> QED BY <1>1, <4>1, <6>1
        <5> QED BY <1>6, <5>1, <5>2
      <4> QED BY <4>2, <4>3
    <3>2. CASE m # n \/ s # d.side
      <4>1. p = child[m][s] /\ p \in Pointers
        BY <1>4, <2>2, <3>2, HeapTypes
      <4>2. (p.null => Spent(p)) /\ (~p.null /\ ~Gone(m) => ~Gone(p.node))
        BY <4>1 DEF Heap, TreeInv
      <4>3. ASSUME ~p.null, ~Gone(m)' PROVE ~Gone(p.node)'
        <5>1. ~Gone(m) /\ ~Gone(p.node) /\ p = Ptr(p.node)
          BY <1>6, <1>10, <4>1, <4>2, <4>3
        <5>2. d.expected # p
          <6> SUFFICES ASSUME d.expected = p PROVE FALSE
            OBVIOUS
          <6> QED BY <1>11, <3>2, <4>1, <4>3, <5>1
        <5> QED BY <1>6, <5>1, <5>2
      <4> QED BY <1>9, <4>2, <4>3
    <3> QED BY <3>1, <3>2
  <2>3. ASSUME NEW m \in Nodes, NEW s \in Sides, ~d.update.null, ~Gone(m)', m # n \/ s # d.side
        PROVE  child[m][s] # d.update
    <3> SUFFICES ASSUME child[m][s] = d.update PROVE FALSE
      OBVIOUS
    <3>1. ~d.expected.null
      BY <1>1 DEF Adds
    <3>2. PICK r \in Sides : d.update = child[d.expected.node][r]
      BY <1>11, <2>3, <3>1 DEF SetNull
    <3>3. m = d.expected.node
      BY <1>6, <1>11, <2>3, <3>1, <3>2 DEF Heap, TreeInv
    <3> QED BY <1>6, <1>11, <2>3, <3>1, <3>3
  <2>4. ASSUME NEW k \in Nodes, NEW m \in Nodes, NEW r \in Sides, NEW s \in Sides,
               ~Gone(k)', ~Gone(m)', ~child'[k][r].null, child'[m][s] = child'[k][r]
        PROVE  k = m /\ r = s
    <3>1. CASE k = n /\ r = d.side
      BY <1>3, <1>4, <2>3, <2>4, <3>1
    <3>2. CASE m = n /\ s = d.side
      BY <1>3, <1>4, <2>3, <2>4, <3>2
    <3>3. CASE (k # n \/ r # d.side) /\ (m # n \/ s # d.side)
      <4>1. child'[k][r] = child[k][r] /\ child'[m][s] = child[m][s] /\ ~Gone(k) /\ ~Gone(m)
        BY <1>4, <1>6, <2>4, <3>3
      <4>2. ~child[k][r].null /\ child[m][s] = child[k][r]
        BY <2>4, <4>1
      <4> QED BY <4>1, <4>2 DEF Heap, TreeInv
    <3> QED BY <3>1, <3>2, <3>3
  <2>5. ASSUME NEW m \in Nodes, NEW s \in Sides
        PROVE  /\ child'[m][s].null => Spent(child[m][s])'
               /\ ~child'[m][s].null /\ ~Gone(m)' => ~Gone(child[m][s].node)'
    BY <2>2
  <2> QED BY <1>0, <1>2, <2>1, <2>4, <2>5 DEF TreeInv
<1> QED BY <1>13, <1>14, <1>15, <1>16, <1>17 DEF Heap

(* A CAS on the state of a relocation. *)
LEMMA StateCAS ==
    ASSUME Heap, NEW i, IsRelocate(i), NEW new \in {"SUCCEED", "FAILED"}, CASState(i, new),
           new = "SUCCEED" => UpTo(Word("RELOCATE", i), op[desc[i].dest]),
           new = "FAILED" => op[desc[i].dest] \notin {desc[i].dest_op, Word("RELOCATE", i)}
    PROVE  Heap' /\ Advance /\ desc'[i].state # "ONGOING" /\ op' = op
<1>0. op' = op /\ key' = key /\ child' = child
  BY DEF CASState
<1>1. CASE desc[i].state # "ONGOING"
  <2>1. desc' = desc
    BY <1>1 DEF CASState
  <2> QED BY <1>0, <1>1, <2>1, Same DEF Heap, HeapInv
<1>2. CASE desc[i].state = "ONGOING"
  <2>1. desc' = [desc EXCEPT ![i].state = new]
    BY <1>2 DEF CASState
  <2>2. /\ i \in 1 .. Len(desc) /\ i \in DOMAIN desc /\ desc \in Seq(Range(desc)) /\ Len(desc) \in Nat
        /\ DOMAIN desc[i] = {"state", "dest", "dest_op", "key_to_remove", "key_to_put"}
        /\ RelocateOK(i)
    <3>1. /\ i \in 1 .. Len(desc) /\ desc \in Seq(Range(desc)) /\ Len(desc) \in Nat
          /\ DOMAIN desc[i] = {"state", "dest", "dest_op", "key_to_remove", "key_to_put"}
      BY HeapTypes DEF IsRelocate, Heap, HeapInv
    <3>2. ~IsChildCAS(i)
      BY DEF IsRelocate, IsChildCAS
    <3>3. RelocateOK(i)
      BY <3>1, <3>2 DEF Heap, DescInv
    <3>4. i \in DOMAIN desc
      BY <3>1
    <3> QED BY <3>1, <3>3, <3>4
  <2>3. DEFINE r == [desc[i] EXCEPT !.state = new]
  <2>4. /\ r.state = new /\ r.dest = desc[i].dest /\ r.dest_op = desc[i].dest_op
        /\ r.key_to_put = desc[i].key_to_put
        /\ DOMAIN r = DOMAIN desc[i]
    BY <2>2
  <2>5. desc' = [desc EXCEPT ![i] = r]
    BY <2>1, <2>2
  <2> HIDE DEF r
  <2>6. /\ Len(desc') = Len(desc) /\ desc'[i] = r
        /\ \A j \in 1 .. Len(desc) : j # i => desc'[j] = desc[j]
        /\ desc' \in Seq(Range(desc) \cup {r})
    <3>1. desc \in Seq(Range(desc) \cup {r})
      BY <2>2, SeqMonotonic
    <3> QED BY <2>2, <2>5, <3>1, ExceptSeq
  <2>7. desc' \in Seq(Range(desc'))
    BY <2>6, SeqOfRange
  <2>8. /\ Nodes' = Nodes /\ Pointers' = Pointers
        /\ \A j : IsChildCAS(j)' = IsChildCAS(j) /\ IsRelocate(j)' = IsRelocate(j)
        /\ \A j : IsChildCAS(j) => j # i /\ desc'[j] = desc[j]
    <3>1. \A j \in 1 .. Len(desc) : DOMAIN desc'[j] = DOMAIN desc[j]
      BY <2>4, <2>6
    <3>2. ASSUME NEW j PROVE IsChildCAS(j)' = IsChildCAS(j) /\ IsRelocate(j)' = IsRelocate(j)
      BY <2>6, <3>1 DEF IsChildCAS, IsRelocate
    <3>3. ASSUME NEW j, IsChildCAS(j) PROVE j # i /\ desc'[j] = desc[j]
      BY <2>2, <2>6, <3>3 DEF IsChildCAS
    <3> QED BY <1>0, <3>2, <3>3 DEF Nodes, Pointers
  <2>9. /\ \A n \in Nodes : op[n].flag = "CHILDCAS" => desc'[op[n].op] = desc[op[n].op]
        /\ \A n \in Nodes : desc'[op[n].op].dest = desc[op[n].op].dest \/ op[n].flag # "RELOCATE"
    <3>1. \A n \in Nodes : op[n].flag = "CHILDCAS" => IsChildCAS(op[n].op)
      BY DEF Heap, HeapInv
    <3>2. \A n \in Nodes : op[n].flag = "RELOCATE" => op[n].op \in 1 .. Len(desc)
      BY DEF Heap, HeapInv, IsRelocate
    <3> QED BY <2>4, <2>6, <2>8, <3>1, <3>2
  <2>10. /\ \A n \in Nodes : Waiting(n)' = Waiting(n)
         /\ \A j : IsChildCAS(j) => Done(j)' = Done(j)
    BY <1>0, <2>8, <2>9 DEF Waiting, Done
  <2>11. /\ \A n : Gone(n)' = Gone(n)
         /\ \A n : Hidden(n)' = Hidden(n)
    <3>1. ASSUME NEW n PROVE Gone(n)' = Gone(n)
      BY <2>6, <2>8, <2>10 DEF Gone
    <3>2. ASSUME NEW n PROVE Hidden(n)' = Hidden(n)
      <4>1. \A m \in Nodes : Waiting(m) => desc'[op[m].op] = desc[op[m].op]
        BY <2>9 DEF Waiting
      <4> QED BY <1>0, <2>8, <2>10, <4>1 DEF Hidden
    <3> QED BY <3>1, <3>2
  <2>12. /\ \A n : Known(n)' = Known(n)
         /\ \A p : Spent(p)' = Spent(p)
         /\ \A n, w : Seen(n, w)' = Seen(n, w)
    BY <1>0, <2>8, <2>11 DEF Known, Spent, Seen
  <2>13. HeapInv'
    BY <1>0, <2>6, <2>7, <2>8 DEF Heap, HeapInv
  <2>14. DescInv'
    <3>1. ASSUME NEW j, IsChildCAS(j), ChildCASOK(j) PROVE ChildCASOK(j)'
      BY <2>8, <2>12, <3>1 DEF ChildCASOK
    <3>2. ASSUME NEW j \in 1 .. Len(desc), j # i, RelocateOK(j) PROVE RelocateOK(j)'
      BY <1>0, <2>6, <2>12, <3>2 DEF RelocateOK
    <3>3. RelocateOK(i)'
      BY <1>0, <2>2, <2>4, <2>6, <2>12 DEF RelocateOK
    <3> QED BY <2>6, <2>8, <3>1, <3>2, <3>3 DEF Heap, DescInv
  <2>15. PendingInv'
    <3>1. SUFFICES ASSUME NEW m \in Nodes, NEW e, e = desc'[op[m].op]
                   PROVE  /\ op[m].flag = "CHILDCAS" =>
                               /\ child[m][e.side] \in {e.expected, e.update}
                               /\ \A k \in Nodes : op[k] = op[m] => k = m
                          /\ Waiting(m)' => IF e.expected.null THEN Adds(m, e)' ELSE TakesOut(e)'
                          /\ op[m].flag = "RELOCATE" /\ e.dest # m =>
                               \A k \in Nodes : op[k] = op[m] => k \in {m, e.dest}
      BY <1>0, <2>8 DEF PendingInv
    <3>2. /\ op[m].flag = "CHILDCAS" => e = desc[op[m].op]
          /\ op[m].flag = "RELOCATE" => e.dest = desc[op[m].op].dest
          /\ Waiting(m)' = Waiting(m) /\ (Waiting(m) => op[m].flag = "CHILDCAS")
      BY <2>9, <2>10, <3>1 DEF Waiting
    <3>3. /\ op[m].flag = "CHILDCAS" =>
               /\ child[m][e.side] \in {e.expected, e.update}
               /\ \A k \in Nodes : op[k] = op[m] => k = m
          /\ Waiting(m) => IF e.expected.null THEN Adds(m, e) ELSE TakesOut(e)
          /\ op[m].flag = "RELOCATE" /\ e.dest # m =>
               \A k \in Nodes : op[k] = op[m] => k \in {m, e.dest}
      BY <3>2 DEF Heap, PendingInv
    <3>4. ASSUME Adds(m, e) PROVE Adds(m, e)'
      <4>1. ASSUME NEW k \in Nodes, Waiting(k)', desc'[op[k].op].update = e.update PROVE k = m
        <5>1. Waiting(k) /\ desc[op[k].op].update = e.update
          BY <2>9, <2>10, <4>1 DEF Waiting
        <5> QED BY <3>4, <5>1 DEF Adds
      <4> QED BY <1>0, <2>8, <3>4, <4>1 DEF Adds
    <3>5. TakesOut(e)' = TakesOut(e)
      BY <1>0 DEF TakesOut, Replacement
    <3> QED BY <3>2, <3>3, <3>4, <3>5
  <2>16. TreeInv'
    BY <1>0, <2>8, <2>11, <2>12 DEF Heap, TreeInv
  <2>17. Forward
    <3>1. \A j \in 1 .. Len(desc) :
            /\ DOMAIN desc'[j] = DOMAIN desc[j]
            /\ IsChildCAS(j) => desc'[j] = desc[j]
            /\ IsRelocate(j) =>
                 /\ desc'[j].dest = desc[j].dest /\ desc'[j].dest_op = desc[j].dest_op
                 /\ desc'[j].key_to_put = desc[j].key_to_put
                 /\ desc[j].state # "ONGOING" => desc'[j].state = desc[j].state
      BY <1>2, <2>4, <2>6, <2>8
    <3> QED BY <1>0, <2>6, <2>8, <3>1, HeapTypes DEF Forward, UpTo
  <2>18. NewWords /\ NewPointers
    BY <1>0, <2>11, <2>12 DEF NewWords, NewPointers
  <2> QED BY <1>0, <2>4, <2>6, <2>13, <2>14, <2>15, <2>16, <2>17, <2>18 DEF Heap, Advance
<1> QED BY <1>1, <1>2

(* A CAS on the word of a node, whether it succeeds or not. *)
LEMMA CASOpHeap ==
    ASSUME Heap, NEW n, Known(n), NEW old, NEW w \in Words, CASOp(n, old, w),
           op[n] = old =>
               /\ Before(op[n], w) /\ op[n].flag # "MARK"
               /\ w.op <= Len(desc) /\ w.flag # "CHILDCAS"
               /\ w.flag \in {"NONE", "MARK"} => w.op = op[n].op
               /\ w.flag # "NONE" => n # Root
               /\ w.flag = "RELOCATE" => IsRelocate(w.op) /\ desc[w.op].dest = n /\ desc[w.op].dest_op = op[n]
               /\ op[n].flag = "CHILDCAS" => child[n][desc[op[n].op].side] = desc[op[n].op].update
               /\ op[n].flag = "RELOCATE" => IF desc[op[n].op].dest = n THEN desc[op[n].op].state = "SUCCEED"
                                             ELSE w.flag = "MARK" \/ desc[op[n].op].state = "FAILED"
    PROVE  /\ Heap' /\ Advance
           /\ op'[n] = IF op[n] = old THEN w ELSE op[n]
           /\ \A m \in Nodes : m # n => op'[m] = op[m]
<1>1. n \in Nodes /\ n \in DOMAIN op /\ UNCHANGED <<key, child, desc>>
  BY DEF Known, Nodes, Heap, HeapInv, CASOp
<1>2. CASE op[n] = old
  <2>1. op' = [op EXCEPT ![n] = w]
    BY <1>2 DEF CASOp
  <2>2. Heap' /\ Advance
    BY <1>1, <1>2, <2>1, WordCAS
  <2> QED BY <1>1, <1>2, <2>1, <2>2
<1>3. CASE op[n] # old
  <2>1. op' = op
    BY <1>3 DEF CASOp
  <2> QED BY <1>1, <1>3, <2>1, Same DEF Heap, HeapInv
<1> QED BY <1>2, <1>3

-----------------------------------------------------------------------------
(* The CASes. *)

(* The thread that publishes a change of a child pointer takes it up.      *)
LEMMA TakesUp ==
    ASSUME Heap', NEW n, Known(n)', NEW i, op'[n] = Word("CHILDCAS", i), NEW m, m.helped = i, m.target = n
    PROVE  Links(m)' /\ TooLate(m)' /\ m.helped \in 0 .. Len(desc')
<1>1. n \in Nodes' /\ op'[n].flag = "CHILDCAS" /\ op'[n].op = i
  BY DEF Known, Word
<1>2. IsChildCAS(i)'
  BY <1>1 DEF Heap, HeapInv, IsChildCAS
<1>3. \A k \in Nodes' : op'[k] = op'[n] => k = n
  BY <1>1 DEF Heap, PendingInv
<1>4. m.helped \in 0 .. Len(desc')
  BY <1>2 DEF IsChildCAS
<1> QED BY <1>2, <1>3, <1>4 DEF Links, TooLate, UpTo

(* 137, 140-145 *)
LEMMA InsertCASInv ==
    ASSUME Inv, NEW t \in All, NEW l, l = loc[t], pc[t] = "InsertCAS", InsertCAS(t, l)
    PROVE  Inv' /\ Advance
<1>0. PICK i, d, m : /\ i = Len(desc) + 1
                     /\ d = ChildCASOp(FoundSide(l), l.old, Ptr(Len(key) + 1))
                     /\ m = [l EXCEPT !.helped = i, !.target = l.curr, !.then = "answer"]
  OBVIOUS
<1>1. Heap /\ Place("InsertCAS", l) /\ pc[t] \notin Linking \cup Relocating /\ pc[t] # "idle"
  BY Here DEF Linking, Relocating
<1>2. CASE Retry(t, l) /\ UNCHANGED heap
  BY <1>1, <1>2, RetryInv
<1>3. ASSUME op[l.curr] = l.curr_op, Step(t, "ChildCAS", m),
             op' = Append([op EXCEPT ![l.curr] = Word("CHILDCAS", i)], NullWord),
             key' = Append(key, l.k), child' = Append(child, NoChildren), desc' = Append(desc, d)
      PROVE  Inv' /\ Advance
  <2>1. /\ DOMAIN m = DOMAIN NoLocals /\ m.found = l.found /\ m.helped = i /\ m.k = l.k
        /\ m.start = l.start /\ m.dest = l.dest /\ m.dest_op = l.dest_op /\ m.target = l.curr
    BY <1>0, <1>1 DEF Place, NoLocals
  <2>2. /\ Seen(l.curr, l.curr_op) /\ SecondFind(l) /\ l.k \in AllKeys /\ l.curr \in Nodes /\ Known(l.curr)
        /\ l.found \in {"NOTFOUND_L", "NOTFOUND_R"} /\ l.old = child[l.curr][FoundSide(l)] /\ l.old.null
        /\ op[l.curr].flag = "NONE" /\ FoundSide(l) \in Sides
    BY <1>1, <1>3 DEF Place, Inserting, Seen, Known, Quiet, EndsHere, FoundSide, Sides
  <2>3. /\ DOMAIN d = {"side", "expected", "update"} /\ d.side = FoundSide(l) /\ d.expected = l.old
        /\ d.update = Ptr(Len(key) + 1) /\ d.update # d.expected
    BY <1>0, <2>2 DEF ChildCASOp, Ptr
  <2>4. Len(key) \in Nat /\ Len(desc) \in Nat /\ key \in Seq(AllKeys \cup {-1}) /\ op \in Seq(Words)
        /\ child \in Seq([Sides -> [null : BOOLEAN, node : Nat]]) /\ Len(op) = Len(key) /\ Len(child) = Len(key)
    BY <1>1, HeapTypes DEF Heap, HeapInv
  <2>5. /\ key' \in Seq(AllKeys \cup {-1}) /\ Len(key') = Len(key) + 1
        /\ child' \in Seq([Sides -> [null : BOOLEAN, node : Nat]]) /\ Len(child') = Len(key) + 1
        /\ \A k \in Nodes : child'[k] = child[k]
        /\ child'[Len(key) + 1] = NoChildren
    <3>1. SetNull(NoNode) \in [null : BOOLEAN, node : Nat]
      BY DEF SetNull, NoNode
    <3>2. NoChildren \in [Sides -> [null : BOOLEAN, node : Nat]]
      BY <3>1 DEF NoChildren, Sides
    <3> QED BY <1>3, <2>2, <2>4, <3>2, AppendProperties DEF Nodes
  <2>6. /\ op' \in Seq(Words) /\ Len(op') = Len(key) + 1
        /\ \A k \in Nodes : k # l.curr => op'[k] = op[k]
        /\ op'[l.curr] = Word("CHILDCAS", i)
        /\ op'[Len(key) + 1] = NullWord
    <3>1. NullWord \in Words /\ Word("CHILDCAS", i) \in Words
      BY <1>0, <2>4 DEF NullWord, Word, Words, Flags
    <3>2. PICK v : v = [op EXCEPT ![l.curr] = Word("CHILDCAS", i)]
      OBVIOUS
    <3>3. /\ v \in Seq(Words) /\ Len(v) = Len(key) /\ v[l.curr] = Word("CHILDCAS", i)
          /\ \A k \in Nodes : k # l.curr => v[k] = op[k]
      BY <2>2, <2>4, <3>1, <3>2, ExceptSeq DEF Nodes
    <3>4. op' = Append(v, NullWord)
      BY <1>3, <3>2
    <3>5. /\ op' \in Seq(Words) /\ Len(op') = Len(key) + 1 /\ op'[Len(key) + 1] = NullWord
          /\ \A k \in 1 .. Len(key) : op'[k] = v[k]
      BY <2>4, <3>1, <3>3, <3>4, AppendProperties
    <3> QED BY <2>2, <3>3, <3>5 DEF Nodes
  <2>7. /\ \A k \in Nodes' \ Nodes : k = Len(key) + 1
        /\ Nodes \subseteq Nodes'
    BY <2>4, <2>5 DEF Nodes
  <2>8. Heap' /\ Advance
    <3>1. PICK flag \in {"CHILDCAS", "RELOCATE"} : flag = "CHILDCAS"
      OBVIOUS
    <3>2. /\ op'[l.curr] = Word(flag, Len(desc) + 1)
          /\ Len(op') = Len(key') /\ Len(child') = Len(key')
          /\ Len(key') = IF flag = "CHILDCAS" /\ d.expected.null THEN Len(key) + 1 ELSE Len(key)
          /\ \A k \in Nodes : child'[k] = child[k] /\ (k # l.curr => op'[k] = op[k])
          /\ \A k \in Nodes' \ Nodes : op'[k] = NullWord /\ child'[k] = NoChildren
      BY <1>0, <2>2, <2>3, <2>5, <2>6, <2>7, <3>1
    <3>3. flag = "CHILDCAS" =>
            /\ DOMAIN d = {"side", "expected", "update"} /\ d.side \in Sides
            /\ d.expected = child[l.curr][d.side] /\ d.update # d.expected
            /\ IF d.expected.null THEN d.update = Ptr(Len(key) + 1) ELSE TakesOut(d)
      BY <2>2, <2>3
    <3>4. flag # "RELOCATE"
      BY <3>1
    <3>5. key' \in Seq(AllKeys \cup {-1}) /\ child' \in Seq([Sides -> [null : BOOLEAN, node : Nat]])
          /\ op' \in Seq(Words) /\ desc' = Append(desc, d)
      BY <1>3, <2>5, <2>6
    <3>6. Heap /\ Known(l.curr) /\ op[l.curr].flag = "NONE"
      BY <1>1, <2>2
    <3> QED BY <3>2, <3>3, <3>4, <3>5, <3>6, Publish
  <2>9. Known(l.curr)'
    BY <2>2, <2>8 DEF Advance, NewPointers
  <2>10. Links(m)' /\ TooLate(m)' /\ m.helped \in 0 .. Len(desc')
    BY <2>1, <2>6, <2>8, <2>9, TakesUp
  <2>11. SecondFind(m)'
    <3>1. SecondFind(m)
      BY <2>1, <2>2 DEF SecondFind
    <3> QED BY <1>1, <2>8, <3>1, SecondFindStays
  <2>12. Place("ChildCAS", m)'
    BY <2>1, <2>2, <2>10, <2>11
    DEF Place, SecondFind, Searching, Inserting, Deleting, Moving, Marking,
              Linking, Relocating
  <2>13. ASSUME NEW n \in Nodes, op'[n].flag \in {"CHILDCAS", "RELOCATE"},
                op'[n] = op[n] => AtWork(pc[t], loc[t], n)
         PROVE  AtWork("ChildCAS", m, n)'
    <3>1. n = l.curr
      BY <1>1, <2>6, <2>13 DEF AtWork
    <3> QED BY <2>1, <2>6, <3>1 DEF AtWork, Linking, Word
  <2> QED BY <1>3, <2>8, <2>12, <2>13, StepInv DEF Step, Inv, FillInv
<1> QED BY <1>0, <1>2, <1>3 DEF InsertCAS

(* 157-160 *)
LEMMA DeleteMarkInv ==
    ASSUME Inv, NEW t \in All, NEW l, l = loc[t], pc[t] = "DeleteMark", DeleteMark(t, l)
    PROVE  Inv' /\ Advance
<1>0. PICK w, m : w = Word("MARK", l.curr_op.op) /\ m = [l EXCEPT !.then = "answer"]
  OBVIOUS
<1>1. Heap /\ Place("DeleteMark", l) /\ pc[t] \notin Linking \cup Relocating /\ pc[t] # "idle"
  BY Here DEF Linking, Relocating
<1>2. /\ Seen(l.curr, l.curr_op) /\ l.curr_op \in Words /\ l.curr_op.flag = "NONE"
      /\ UnderParent(l) /\ Known(l.curr) /\ l.curr \in Nodes /\ l.curr # Root
  BY <1>1 DEF Place, Deleting, Seen, Known, Quiet, UnderParent, Link
<1>3. CASE op[l.curr] # l.curr_op
  <2>1. Retry(t, l) /\ UNCHANGED heap
    BY <1>3 DEF DeleteMark, CASOp, heap
  <2> QED BY <1>1, <2>1, RetryInv
<1>4. CASE op[l.curr] = l.curr_op
  <2>1. Step(t, "MarkedSide", m) /\ CASOp(l.curr, l.curr_op, w)
    BY <1>0, <1>4 DEF DeleteMark
  <2>2. /\ DOMAIN m = DOMAIN NoLocals /\ m.found = l.found /\ m.helped = l.helped /\ m.k = l.k
        /\ m.start = l.start /\ m.dest = l.dest /\ m.dest_op = l.dest_op
        /\ m.curr = l.curr /\ m.parent = l.parent /\ m.parent_op = l.parent_op
    BY <1>0, <1>1 DEF Place, NoLocals
  <2>3. w \in Words /\ w.flag = "MARK" /\ w.op = l.curr_op.op /\ Before(op[l.curr], w) /\ w.op <= Len(desc)
    BY <1>0, <1>1, <1>2, <1>4, HeapTypes DEF Words, Word, Flags, Before, Rank
  <2>4. Heap' /\ Advance /\ op'[l.curr] = w /\ \A k \in Nodes : k # l.curr => op'[k] = op[k]
    BY <1>1, <1>2, <1>4, <2>1, <2>3, CASOpHeap
  <2>5. UnderParent(m)' /\ SecondFind(m)'
    <3>1. Link(m.parent, m.parent_op, m.curr) /\ SecondFind(m)
      BY <1>1, <1>2, <2>2 DEF Place, UnderParent, SecondFind
    <3> QED BY <1>1, <2>4, <3>1, LinkStays, SecondFindStays DEF UnderParent
  <2>6. Len(desc') = Len(desc)
    BY <2>1 DEF CASOp
  <2>7. Place("MarkedSide", m)'
    BY <1>1, <2>2, <2>3, <2>4, <2>5, <2>6
    DEF Place, SecondFind, Searching, Inserting, Deleting, Moving, Marking,
              Linking, Relocating
  <2>8. ASSUME NEW n \in Nodes, op'[n].flag \in {"CHILDCAS", "RELOCATE"},
               op'[n] = op[n] => AtWork(pc[t], loc[t], n)
        PROVE  AtWork("MarkedSide", m, n)'
    BY <1>1, <2>3, <2>4, <2>8 DEF AtWork
  <2> QED BY <2>1, <2>4, <2>7, <2>8, StepInv DEF Step, Inv, FillInv
<1> QED BY <1>3, <1>4

(* 165-169 *)
LEMMA DeleteRelocateInv ==
    ASSUME Inv, NEW t \in All, NEW l, l = loc[t], pc[t] = "DeleteRelocate", DeleteRelocate(t, l)
    PROVE  Inv' /\ Advance
<1>0. PICK i, d, m : /\ i = Len(desc) + 1 /\ d = RelocateOp(l.dest, l.dest_op, l.k, l.new_key)
                     /\ m = [l EXCEPT !.helped = i, !.then = "answer"]
  OBVIOUS
<1>1. Heap /\ Place("DeleteRelocate", l) /\ pc[t] \notin Linking \cup Relocating /\ pc[t] # "idle"
  BY Here DEF Linking, Relocating
<1>2. CASE Retry(t, l) /\ UNCHANGED heap
  BY <1>1, <1>2, RetryInv
<1>3. ASSUME op[l.curr] = l.curr_op, Step(t, "RelocateState", m),
             op' = [op EXCEPT ![l.curr] = Word("RELOCATE", i)],
             desc' = Append(desc, d), UNCHANGED <<key, child>>
      PROVE  Inv' /\ Advance
  <2>1. /\ DOMAIN m = DOMAIN NoLocals /\ m.found = l.found /\ m.helped = i /\ m.k = l.k
        /\ m.start = l.start /\ m.dest = l.dest /\ m.dest_op = l.dest_op
        /\ m.curr = l.curr /\ m.parent = l.parent /\ m.parent_op = l.parent_op
    BY <1>0, <1>1 DEF Place, NoLocals
  <2>2. /\ Seen(l.curr, l.curr_op) /\ SecondFind(l) /\ UnderParent(l) /\ l.k \in AllKeys
        /\ l.curr \in Nodes /\ Known(l.curr) /\ l.curr # Root /\ op[l.curr].flag = "NONE"
        /\ l.dest # Root /\ Seen(l.dest, l.dest_op) /\ l.new_key \in AllKeys \cup {-1}
    BY <1>1, <1>3 DEF Place, Moving, Seen, Known, Quiet, UnderParent, Link, SecondFind
  <2>3. /\ DOMAIN d = {"state", "dest", "dest_op", "key_to_remove", "key_to_put"}
        /\ d.state = "ONGOING" /\ d.dest = l.dest /\ d.dest_op = l.dest_op /\ d.key_to_put = l.new_key
    BY <1>0 DEF RelocateOp
  <2>4. Len(key) \in Nat /\ Len(desc) \in Nat /\ key \in Seq(AllKeys \cup {-1}) /\ op \in Seq(Words)
        /\ child \in Seq([Sides -> [null : BOOLEAN, node : Nat]]) /\ Len(op) = Len(key) /\ Len(child) = Len(key)
        /\ desc \in Seq(Range(desc))
    BY <1>1, HeapTypes DEF Heap, HeapInv
  <2>5. /\ op' \in Seq(Words) /\ Len(op') = Len(key) /\ op'[l.curr] = Word("RELOCATE", i)
        /\ \A k \in Nodes : k # l.curr => op'[k] = op[k]
    <3>1. Word("RELOCATE", i) \in Words
      BY <1>0, <2>4 DEF Word, Words, Flags
    <3> QED BY <1>3, <2>2, <2>4, <3>1, ExceptSeq DEF Nodes
  <2>6. Heap' /\ Advance
    <3>1. PICK flag \in {"CHILDCAS", "RELOCATE"} : flag = "RELOCATE"
      OBVIOUS
    <3>2. /\ op'[l.curr] = Word(flag, Len(desc) + 1)
          /\ Len(key') = IF flag = "CHILDCAS" /\ d.expected.null THEN Len(key) + 1 ELSE Len(key)
          /\ \A k \in Nodes : child'[k] = child[k] /\ (k # l.curr => op'[k] = op[k])
          /\ \A k \in Nodes' \ Nodes : op'[k] = NullWord /\ child'[k] = NoChildren
      BY <1>0, <1>3, <2>5, <3>1 DEF Nodes
    <3>3. flag = "RELOCATE" =>
            /\ DOMAIN d = {"state", "dest", "dest_op", "key_to_remove", "key_to_put"}
            /\ l.curr # Root /\ d.state = "ONGOING" /\ d.dest # Root /\ Seen(d.dest, d.dest_op)
            /\ d.key_to_put \in AllKeys \cup {-1}
      BY <2>2, <2>3
    <3>4. flag # "CHILDCAS"
      BY <3>1
    <3>5. /\ key' \in Seq(AllKeys \cup {-1}) /\ child' \in Seq([Sides -> [null : BOOLEAN, node : Nat]])
          /\ op' \in Seq(Words) /\ desc' = Append(desc, d)
          /\ Len(op') = Len(key') /\ Len(child') = Len(key')
      BY <1>3, <2>4, <2>5
    <3>6. Heap /\ Known(l.curr) /\ op[l.curr].flag = "NONE"
      BY <1>1, <2>2
    <3> QED BY <3>2, <3>3, <3>4, <3>5, <3>6, Publish
  <2>7. UnderParent(m)' /\ SecondFind(m)'
    <3>1. Link(m.parent, m.parent_op, m.curr) /\ SecondFind(m)
      BY <2>1, <2>2 DEF UnderParent, SecondFind
    <3> QED BY <1>1, <2>6, <3>1, LinkStays, SecondFindStays DEF UnderParent
  <2>8. desc'[i] = d /\ Len(desc') = i /\ i \in Nat /\ l.curr \in Nodes'
    BY <1>0, <1>3, <2>2, <2>4, AppendProperties DEF Nodes
  <2>9. op'[l.curr].flag = "RELOCATE" /\ op'[l.curr].op = i
    BY <2>5 DEF Word
  <2>10. Relocates(m)'
    <3>1. IsRelocate(i)'
      BY <2>8, <2>9, <2>6 DEF Heap, HeapInv, IsRelocate
    <3>2. ~Gone(m.curr)'
      BY <2>1, <2>6, <2>8, <2>9 DEF Heap, TreeInv
    <3>3. l.curr # d.dest => \A n \in Nodes' : op'[n] = op'[l.curr] => n \in {l.curr, d.dest}
      BY <2>6, <2>8, <2>9 DEF Heap, PendingInv
    <3> QED BY <2>1, <2>5, <2>8, <3>1, <3>2, <3>3 DEF Relocates, UpTo
  <2>11. Place("RelocateState", m)'
    BY <2>1, <2>2, <2>7, <2>8, <2>10, <1>1
    DEF Place, SecondFind, Searching, Inserting, Deleting, Moving, Marking,
              Linking, Relocating
  <2>12. ASSUME NEW n \in Nodes, op'[n].flag \in {"CHILDCAS", "RELOCATE"},
                op'[n] = op[n] => AtWork(pc[t], loc[t], n)
         PROVE  AtWork("RelocateState", m, n)'
    <3>1. n = l.curr
      BY <1>1, <2>5, <2>12 DEF AtWork
    <3> QED BY <2>1, <2>9, <3>1 DEF AtWork, Relocating
  <2> QED BY <1>3, <2>6, <2>11, <2>12, StepInv DEF Step, Inv, FillInv
<1> QED BY <1>0, <1>2, <1>3 DEF DeleteRelocate

(* 192-196 *)
LEMMA MarkedCASInv ==
    ASSUME Inv, NEW t \in All, NEW l, l = loc[t], pc[t] = "MarkedCAS", MarkedCAS(t, l)
    PROVE  Inv' /\ Advance
<1>0. PICK i, d, m : /\ i = Len(desc) + 1 /\ d = ChildCASOp(l.side, Ptr(l.curr), Replacement(l.curr))
                     /\ m = [l EXCEPT !.helped = i, !.target = l.parent]
  OBVIOUS
<1>1. Heap /\ Place("MarkedCAS", l) /\ pc[t] \notin Linking \cup Relocating /\ pc[t] # "idle"
  BY Here DEF Linking, Relocating
<1>2. CASE HelperReturns(t, l, TRUE) /\ UNCHANGED heap
  BY <1>1, <1>2, HelperReturnsPlace, SearchInv
<1>3. ASSUME op[l.parent] = l.parent_op, Step(t, "ChildCAS", m),
             op' = [op EXCEPT ![l.parent] = Word("CHILDCAS", i)],
             desc' = Append(desc, d), UNCHANGED <<key, child>>
      PROVE  Inv' /\ Advance
  <2>1. /\ DOMAIN m = DOMAIN NoLocals /\ m.found = l.found /\ m.helped = i /\ m.k = l.k
        /\ m.start = l.start /\ m.dest = l.dest /\ m.dest_op = l.dest_op /\ m.target = l.parent
    BY <1>0, <1>1 DEF Place, NoLocals
  <2>2. /\ SecondFind(l) /\ UnderParent(l) /\ l.k \in AllKeys
        /\ l.parent \in Nodes /\ Known(l.parent) /\ op[l.parent].flag = "NONE"
        /\ l.curr \in Nodes /\ l.curr # Root /\ op[l.curr].flag = "MARK" /\ ~Gone(l.curr)
        /\ l.side \in Sides
    BY <1>1, <1>3 DEF Place, Marking, Seen, Known, Quiet, UnderParent, Link
  <2>3. ~Gone(l.parent) /\ child[l.parent][l.side] = Ptr(l.curr)
    BY <1>1, <2>2, Busy DEF Place
  <2>4. Replacement(l.curr) # Ptr(l.curr)
    <3>1. \A s \in Sides : child[l.curr][s] # Ptr(l.curr)
      <4> SUFFICES ASSUME NEW s \in Sides, child[l.curr][s] = Ptr(l.curr) PROVE FALSE
        OBVIOUS
      <4>1. l.curr = l.parent
        BY <1>1, <2>2, <2>3 DEF Heap, TreeInv, Ptr
      <4> QED BY <2>2, <4>1
    <3> QED BY <3>1 DEF Replacement, Sides, SetNull, Ptr
  <2>5. /\ DOMAIN d = {"side", "expected", "update"} /\ d.side = l.side /\ d.expected = Ptr(l.curr)
        /\ d.update = Replacement(l.curr) /\ ~d.expected.null /\ d.expected.node = l.curr
    BY <1>0 DEF ChildCASOp, Ptr
  <2>6. Len(key) \in Nat /\ Len(desc) \in Nat /\ key \in Seq(AllKeys \cup {-1}) /\ op \in Seq(Words)
        /\ child \in Seq([Sides -> [null : BOOLEAN, node : Nat]]) /\ Len(op) = Len(key) /\ Len(child) = Len(key)
        /\ desc \in Seq(Range(desc))
    BY <1>1, HeapTypes DEF Heap, HeapInv
  <2>7. /\ op' \in Seq(Words) /\ Len(op') = Len(key) /\ op'[l.parent] = Word("CHILDCAS", i)
        /\ \A k \in Nodes : k # l.parent => op'[k] = op[k]
    <3>1. Word("CHILDCAS", i) \in Words
      BY <1>0, <2>6 DEF Word, Words, Flags
    <3> QED BY <1>3, <2>2, <2>6, <3>1, ExceptSeq DEF Nodes
  <2>8. Heap' /\ Advance
    <3>1. PICK flag \in {"CHILDCAS", "RELOCATE"} : flag = "CHILDCAS"
      OBVIOUS
    <3>2. /\ op'[l.parent] = Word(flag, Len(desc) + 1)
          /\ Len(key') = IF flag = "CHILDCAS" /\ d.expected.null THEN Len(key) + 1 ELSE Len(key)
          /\ \A k \in Nodes : child'[k] = child[k] /\ (k # l.parent => op'[k] = op[k])
          /\ \A k \in Nodes' \ Nodes : op'[k] = NullWord /\ child'[k] = NoChildren
      BY <1>0, <1>3, <2>5, <2>7, <3>1 DEF Nodes
    <3>3. flag = "CHILDCAS" =>
            /\ DOMAIN d = {"side", "expected", "update"} /\ d.side \in Sides
            /\ d.expected = child[l.parent][d.side] /\ d.update # d.expected
            /\ IF d.expected.null THEN d.update = Ptr(Len(key) + 1) ELSE TakesOut(d)
      BY <2>2, <2>3, <2>4, <2>5 DEF TakesOut
    <3>4. flag # "RELOCATE"
      BY <3>1
    <3>5. /\ key' \in Seq(AllKeys \cup {-1}) /\ child' \in Seq([Sides -> [null : BOOLEAN, node : Nat]])
          /\ op' \in Seq(Words) /\ desc' = Append(desc, d)
          /\ Len(op') = Len(key') /\ Len(child') = Len(key')
      BY <1>3, <2>6, <2>7
    <3>6. Heap /\ Known(l.parent) /\ op[l.parent].flag = "NONE"
      BY <1>1, <2>2
    <3> QED BY <3>2, <3>3, <3>4, <3>5, <3>6, Publish
  <2>9. Known(l.parent)'
    BY <2>2, <2>8 DEF Advance, NewPointers
  <2>10. Links(m)' /\ TooLate(m)' /\ m.helped \in 0 .. Len(desc')
    BY <2>1, <2>7, <2>8, <2>9, TakesUp
  <2>11. SecondFind(m)'
    <3>1. SecondFind(m)
      BY <2>1, <2>2 DEF SecondFind
    <3> QED BY <1>1, <2>8, <3>1, SecondFindStays
  <2>12. Place("ChildCAS", m)'
    BY <1>1, <2>1, <2>2, <2>10, <2>11
    DEF Place, SecondFind, Searching, Inserting, Deleting, Moving, Marking,
              Linking, Relocating
  <2>13. ASSUME NEW n \in Nodes, op'[n].flag \in {"CHILDCAS", "RELOCATE"},
                op'[n] = op[n] => AtWork(pc[t], loc[t], n)
         PROVE  AtWork("ChildCAS", m, n)'
    <3>1. n = l.parent
      BY <1>1, <2>7, <2>13 DEF AtWork
    <3> QED BY <2>1, <2>7, <3>1 DEF AtWork, Linking, Word
  <2> QED BY <1>3, <2>8, <2>12, <2>13, StepInv DEF Step, Inv, FillInv
<1> QED BY <1>0, <1>2, <1>3 DEF MarkedCAS

(* 202 *)
LEMMA ChildCASInv ==
    ASSUME Inv, NEW t \in All, NEW l, l = loc[t], pc[t] = "ChildCAS", ChildCAS(t, l, desc[l.helped])
    PROVE  Inv' /\ Advance
<1>0. PICK d, n, i : d = desc[l.helped] /\ n = l.target /\ i = l.helped
  OBVIOUS
<1>1. Heap /\ Place("ChildCAS", l) /\ Links(l) /\ TooLate(l) /\ n \in Nodes /\ IsChildCAS(i)
  BY <1>0, Here DEF Place, Linking, Links, Known
<1>2. Step(t, "ChildCASDone", l) /\ op' = op /\ desc' = desc /\ key' = key /\ UNCHANGED <<key, op, desc>>
  BY DEF ChildCAS
<1>3. Heap' /\ Advance /\ (op[n] = Word("CHILDCAS", i) => child'[n][d.side] = d.update)
  <2>1. CASE child[n][d.side] = d.expected
    <3>1. child' = [child EXCEPT ![n][d.side] = d.update]
      BY <1>0, <2>1 DEF ChildCAS
    <3>2. op[n] = Word("CHILDCAS", i)
      BY <1>0, <1>1, <2>1 DEF TooLate
    <3>3. child'[n][d.side] = d.update
      <4>1. child[n] \in [Sides -> Pointers] /\ n \in DOMAIN child
        BY <1>1, HeapTypes DEF Nodes, Heap, HeapInv
      <4>2. d.side \in Sides
        BY <1>0, <1>1 DEF Heap, DescInv, IsChildCAS, IsRelocate, ChildCASOK
      <4> QED BY <3>1, <4>1, <4>2
    <3> QED BY <1>0, <1>1, <1>2, <2>1, <3>1, <3>2, <3>3, CarryOut
  <2>2. CASE child[n][d.side] # d.expected
    <3>1. child' = child
      BY <1>0, <2>2 DEF ChildCAS
    <3>2. op[n] = Word("CHILDCAS", i) => child[n][d.side] = d.update
      <4>1. op[n] = Word("CHILDCAS", i) => op[n].flag = "CHILDCAS" /\ d = desc[op[n].op]
        BY <1>0 DEF Word
      <4> QED BY <1>1, <2>2, <4>1 DEF Heap, PendingInv
    <3> QED BY <1>1, <1>2, <3>1, <3>2, Same DEF Heap, HeapInv
  <2> QED BY <2>1, <2>2
<1>4. Linked(l)'
  BY <1>0, <1>2, <1>3 DEF Linked
<1>5. Place("ChildCAS", l)'
  BY <1>1, <1>3, PlaceStays
<1>6. Place("ChildCASDone", l)'
  BY <1>4, <1>5
  DEF Place, SecondFind, Searching, Inserting, Deleting, Moving, Marking,
              Linking, Relocating
<1>7. ASSUME NEW k \in Nodes, op'[k].flag \in {"CHILDCAS", "RELOCATE"}, AtWork(pc[t], loc[t], k)
      PROVE  AtWork("ChildCASDone", l, k)'
  BY <1>2, <1>7 DEF AtWork, Linking, Relocating
<1> QED BY <1>2, <1>3, <1>6, <1>7, StepInv DEF Step, Inv, FillInv

(* The helper that t ran is over, and with it the operation t was at work  *)
(* on.                                                                     *)
LEMMA HelperDone ==
    ASSUME Inv, Heap', Advance, NEW t \in All, pc[t] # "idle", NEW l, l = loc[t],
           NEW ok, HelperReturns(t, l, ok),
           \A n \in Nodes : /\ op'[n].flag \in {"CHILDCAS", "RELOCATE"}
                            /\ op'[n] = op[n] => AtWork(pc[t], l, n)
                            => FALSE
    PROVE  Inv' /\ Advance
<1>1. PICK to, m : Step(t, to, m) /\ Place(to, m)
  BY Here, HelperReturnsPlace
<1>2. Place(to, m)'
  BY <1>1, Here, PlaceStays
<1> QED BY <1>1, <1>2, StepInv DEF Step, Inv, FillInv

(* 203 *)
LEMMA ChildCASDoneInv ==
    ASSUME Inv, NEW t \in All, NEW l, l = loc[t], pc[t] = "ChildCASDone", ChildCASDone(t, l)
    PROVE  Inv' /\ Advance
<1>0. PICK n, i, v, w : /\ n = l.target /\ i = l.helped
                        /\ v = Word("CHILDCAS", i) /\ w = Word("NONE", i)
  OBVIOUS
<1>1. /\ Heap /\ Place("ChildCASDone", l) /\ Links(l) /\ Linked(l)
      /\ n \in Nodes /\ Known(n) /\ IsChildCAS(i) /\ i \in 1 .. Len(desc) /\ Len(desc) \in Nat
  BY <1>0, Here, HeapTypes DEF Place, Linking, Links, Known, IsChildCAS
<1>2. HelperReturns(t, l, TRUE) /\ CASOp(n, v, w)
  BY <1>0 DEF ChildCASDone
<1>3. /\ v.flag = "CHILDCAS" /\ v.op = i /\ w.flag = "NONE" /\ w.op = i /\ w \in Words /\ Before(v, w)
      /\ w.op <= Len(desc)
  BY <1>0, <1>1 DEF Word, Words, Flags, Before, Rank
<1>4. op[n] = v => child[n][desc[op[n].op].side] = desc[op[n].op].update
  BY <1>0, <1>1, <1>3 DEF Linked
<1>5. Heap' /\ Advance /\ op'[n] = (IF op[n] = v THEN w ELSE op[n]) /\ \A k \in Nodes : k # n => op'[k] = op[k]
  BY <1>1, <1>2, <1>3, <1>4, CASOpHeap
<1>6. ASSUME NEW k \in Nodes, op'[k].flag \in {"CHILDCAS", "RELOCATE"},
             op'[k] = op[k] => AtWork(pc[t], l, k)
      PROVE  FALSE
  <2>1. op'[k] = op[k]
    BY <1>3, <1>5, <1>6
  <2>2. op[k].flag = "CHILDCAS" /\ op[k].op = i
    BY <1>0, <1>6, <2>1 DEF AtWork, Relocating
  <2>3. op[k] = v
    BY <1>0, <1>1, <2>2, HeapTypes DEF Words, Word
  <2>4. k = n
    BY <1>0, <1>1, <2>3 DEF Links
  <2> QED BY <1>3, <1>5, <2>1, <2>3, <2>4
<1> QED BY <1>2, <1>5, <1>6, HelperDone

(* What the helper of relocation i knows when it does its next CAS. *)
LEMMA Helping ==
    ASSUME Inv, NEW t \in All, pc[t] \in Relocating, NEW l, l = loc[t], NEW i, i = l.helped, NEW d, d = desc[i]
    PROVE  /\ Heap /\ Place(pc[t], l) /\ Relocates(l) /\ UnderParent(l)
           /\ IsRelocate(i) /\ i \in 1 .. Len(desc) /\ Len(desc) \in Nat /\ i \in Nat
           /\ Seen(d.dest, d.dest_op) /\ Known(d.dest) /\ d.dest \in Nodes /\ d.dest # Root
           /\ d.dest_op \in Words /\ d.dest_op.flag = "NONE" /\ d.dest_op.op < i
           /\ d.key_to_put \in AllKeys \cup {-1} /\ d.state \in {"ONGOING", "SUCCEED", "FAILED"}
           /\ d.state = "SUCCEED" => UpTo(Word("RELOCATE", i), op[d.dest])
           /\ d.state = "FAILED" => op[d.dest] \notin {d.dest_op, Word("RELOCATE", i)}
           /\ Known(l.curr) /\ l.curr \in Nodes /\ l.curr # Root /\ op[d.dest] \in Words /\ op[l.curr] \in Words
           /\ \A f \in Flags : Word(f, i) \in Words /\ Word(f, i).flag = f /\ Word(f, i).op = i
<1>1. Heap /\ Place(pc[t], l)
  BY Here
<1>2. Relocates(l) /\ UnderParent(l) /\ IsRelocate(i)
  BY <1>1 DEF Place, Relocates
<1>3. i \in 1 .. Len(desc) /\ Len(desc) \in Nat /\ i \in Nat
  BY <1>1, <1>2, HeapTypes DEF IsRelocate
<1>4. RelocateOK(i)
  BY <1>1, <1>2, <1>3 DEF Heap, DescInv, IsRelocate, IsChildCAS
<1>5. /\ d.dest # Root /\ Seen(d.dest, d.dest_op) /\ d.dest_op.op < i
      /\ d.key_to_put \in AllKeys \cup {-1} /\ d.state \in {"ONGOING", "SUCCEED", "FAILED"}
      /\ d.state = "SUCCEED" => UpTo(Word("RELOCATE", i), op[d.dest])
      /\ d.state = "FAILED" => op[d.dest] \notin {d.dest_op, Word("RELOCATE", i)}
  BY <1>4 DEF RelocateOK
<1>6. Known(d.dest) /\ d.dest \in Nodes /\ d.dest_op \in Words /\ d.dest_op.flag = "NONE"
  BY <1>5 DEF Seen, Known, Quiet
<1>7. Known(l.curr) /\ l.curr \in Nodes /\ l.curr # Root
  BY <1>2 DEF UnderParent, Link, Known
<1>8. \A f \in Flags : Word(f, i) \in Words /\ Word(f, i).flag = f /\ Word(f, i).op = i
  BY <1>3 DEF Word, Words
<1>9. op[d.dest] \in Words /\ op[l.curr] \in Words
  BY <1>1, <1>6, <1>7, HeapTypes
<1> QED BY <1>1, <1>2, <1>3, <1>5, <1>6, <1>7, <1>8, <1>9

(* The attendance of the helper goes on, as long as its CAS leaves no      *)
(* other flag than that of its relocation.                                 *)
LEMMA GoesOn ==
    ASSUME Heap, Advance, NEW p \in Relocating, NEW q \in Relocating, NEW l, NEW m,
           IsRelocate(l.helped), m.helped = l.helped, m.curr = l.curr, NEW n \in Nodes,
           op'[n].flag \in {"CHILDCAS", "RELOCATE"},
           \/ op'[n] = op[n] /\ AtWork(p, l, n)
           \/ n = desc[l.helped].dest /\ op'[n] = Word("RELOCATE", l.helped)
    PROVE  AtWork(q, m, n)'
<1>1. desc'[l.helped].dest = desc[l.helped].dest
  BY KindStays
<1>2. CASE op'[n] = op[n] /\ AtWork(p, l, n)
  <2>1. op[n].flag # "CHILDCAS"
    BY <1>2 DEF AtWork, Linking, Relocating
  <2> QED BY <1>1, <1>2, <2>1 DEF AtWork
<1>3. CASE n = desc[l.helped].dest /\ op'[n] = Word("RELOCATE", l.helped)
  BY <1>1, <1>3 DEF AtWork, Word
<1> QED BY <1>2, <1>3

(* 212 *)
LEMMA RelocateDestInv ==
    ASSUME Inv, NEW t \in All, NEW l, l = loc[t], pc[t] = "RelocateDest",
           RelocateDest(t, l, desc[l.helped])
    PROVE  Inv' /\ Advance
<1>0. PICK i, d, n, w : i = l.helped /\ d = desc[i] /\ n = d.dest /\ w = Word("RELOCATE", i)
  OBVIOUS
<1>1. pc[t] \in Relocating /\ "RelocateSeen" \in Relocating
  BY DEF Relocating
<1>2. /\ Heap /\ Place("RelocateDest", l) /\ IsRelocate(i) /\ i \in 1 .. Len(desc) /\ Len(desc) \in Nat
      /\ Known(n) /\ n \in Nodes /\ n # Root
      /\ d.dest_op \in Words /\ d.dest_op.flag = "NONE" /\ d.dest_op.op < i
      /\ w \in Words /\ w.flag = "RELOCATE" /\ w.op = i
  BY <1>0, <1>1, Helping DEF Flags
<1>3. Step(t, "RelocateSeen", l) /\ CASOp(n, d.dest_op, w) /\ desc' = desc
  BY <1>0 DEF RelocateDest, CASOp
<1>4. Before(d.dest_op, w) /\ w.op <= Len(desc)
  BY <1>2 DEF Before
<1>5. /\ Heap' /\ Advance /\ op'[n] = (IF op[n] = d.dest_op THEN w ELSE op[n])
      /\ \A k \in Nodes : k # n => op'[k] = op[k]
  BY <1>0, <1>2, <1>3, <1>4, CASOpHeap
<1>6. op'[n] # d.dest_op
  BY <1>2, <1>5
<1>7. Place("RelocateDest", l)'
  BY <1>2, <1>5, PlaceStays
<1>8. Place("RelocateSeen", l)'
  <2>1. op'[desc'[l.helped].dest] # desc'[l.helped].dest_op
    BY <1>0, <1>3, <1>6
  <2> QED BY <1>7, <2>1
      DEF Place, SecondFind, Searching, Inserting, Deleting, Moving, Marking,
              Linking, Relocating
<1>9. ASSUME NEW k \in Nodes, op'[k].flag \in {"CHILDCAS", "RELOCATE"},
             op'[k] = op[k] => AtWork(pc[t], loc[t], k)
      PROVE  AtWork("RelocateSeen", l, k)'
  <2>1. CASE op'[k] = op[k]
    BY <1>0, <1>1, <1>2, <1>5, <1>9, <2>1, GoesOn
  <2>2. CASE op'[k] # op[k]
    <3>1. k = n /\ op'[k] = w
      BY <1>5, <2>2
    <3> QED BY <1>0, <1>1, <1>2, <1>5, <1>9, <3>1, GoesOn
  <2> QED BY <2>1, <2>2
<1> QED BY <1>3, <1>5, <1>8, <1>9, StepInv DEF Step, Inv, FillInv

(* 215-216 *)
LEMMA RelocateSucceedInv ==
    ASSUME Inv, NEW t \in All, NEW l, l = loc[t], pc[t] = "RelocateSucceed", RelocateSucceed(t, l)
    PROVE  Inv' /\ Advance
<1>0. PICK i, d, n : i = l.helped /\ d = desc[i] /\ n = d.dest
  OBVIOUS
<1>1. pc[t] \in Relocating /\ "RelocateKey" \in Relocating
  BY DEF Relocating
<1>2. /\ Heap /\ Place("RelocateSucceed", l) /\ IsRelocate(i) /\ n \in Nodes /\ op[n] \in Words
      /\ d.state \in {"ONGOING", "SUCCEED", "FAILED"}
      /\ d.state = "SUCCEED" => UpTo(Word("RELOCATE", i), op[n])
      /\ d.state = "FAILED" => op[n] \notin {d.dest_op, Word("RELOCATE", i)}
  BY <1>0, <1>1, Helping
<1>3. UpTo(Word("RELOCATE", i), op[n]) /\ d.state # "FAILED"
  BY <1>0, <1>2 DEF Place, UpTo
<1>4. Step(t, "RelocateKey", l) /\ CASState(i, "SUCCEED")
  BY <1>0 DEF RelocateSucceed
<1>5. Heap' /\ Advance /\ op' = op
  BY <1>0, <1>2, <1>3, <1>4, StateCAS
<1>6. desc'[i].state = "SUCCEED"
  <2>1. CASE d.state = "ONGOING"
    <3>1. desc' = [desc EXCEPT ![i].state = "SUCCEED"]
      BY <1>0, <1>4, <2>1 DEF CASState
    <3>2. i \in DOMAIN desc /\ "state" \in DOMAIN desc[i]
      BY <1>2 DEF IsRelocate, Heap, HeapInv
    <3> QED BY <3>1, <3>2
  <2>2. CASE d.state = "SUCCEED"
    BY <1>0, <1>4, <2>2 DEF CASState
  <2> QED BY <1>2, <1>3, <2>1, <2>2
<1>7. Place("RelocateSucceed", l)'
  BY <1>2, <1>5, PlaceStays
<1>8. Place("RelocateKey", l)'
  BY <1>0, <1>6, <1>7
  DEF Place, SecondFind, Searching, Inserting, Deleting, Moving, Marking,
              Linking, Relocating
<1>9. ASSUME NEW k \in Nodes, op'[k].flag \in {"CHILDCAS", "RELOCATE"}, AtWork(pc[t], loc[t], k)
      PROVE  AtWork("RelocateKey", l, k)'
  BY <1>0, <1>1, <1>2, <1>5, <1>9, GoesOn
<1> QED BY <1>4, <1>5, <1>8, <1>9, StepInv DEF Step, Inv, FillInv

(* 219 *)
LEMMA RelocateFailInv ==
    ASSUME Inv, NEW t \in All, NEW l, l = loc[t], pc[t] = "RelocateFail", RelocateFail(t, l)
    PROVE  Inv' /\ Advance
<1>0. PICK i, d, n : i = l.helped /\ d = desc[i] /\ n = d.dest
  OBVIOUS
<1>1. pc[t] \in Relocating /\ "RelocateReread" \in Relocating
  BY DEF Relocating
<1>2. Heap /\ Place("RelocateFail", l) /\ IsRelocate(i)
  BY <1>0, <1>1, Helping
<1>3. op[n] \notin {d.dest_op, Word("RELOCATE", i)}
  BY <1>0, <1>2 DEF Place, DestPassed
<1>4. Step(t, "RelocateReread", l) /\ CASState(i, "FAILED")
  BY <1>0 DEF RelocateFail
<1>5. Heap' /\ Advance /\ op' = op /\ desc'[i].state # "ONGOING"
  BY <1>0, <1>2, <1>3, <1>4, StateCAS
<1>6. Place("RelocateFail", l)'
  BY <1>2, <1>5, PlaceStays
<1>7. Place("RelocateReread", l)'
  BY <1>0, <1>5, <1>6
  DEF Place, SecondFind, Searching, Inserting, Deleting, Moving, Marking,
              Linking, Relocating
<1>8. ASSUME NEW k \in Nodes, op'[k].flag \in {"CHILDCAS", "RELOCATE"}, AtWork(pc[t], loc[t], k)
      PROVE  AtWork("RelocateReread", l, k)'
  BY <1>0, <1>1, <1>2, <1>5, <1>8, GoesOn
<1> QED BY <1>4, <1>5, <1>7, <1>8, StepInv DEF Step, Inv, FillInv

(* 224 *)
LEMMA RelocateKeyInv ==
    ASSUME Inv, NEW t \in All, NEW l, l = loc[t], pc[t] = "RelocateKey",
           RelocateKey(t, l, desc[l.helped])
    PROVE  Inv' /\ Advance
<1>0. PICK i, d, n : i = l.helped /\ d = desc[i] /\ n = d.dest
  OBVIOUS
<1>1. pc[t] \in Relocating /\ "RelocateUnflag" \in Relocating
  BY DEF Relocating
<1>2. Heap /\ Place("RelocateKey", l) /\ IsRelocate(i) /\ n \in Nodes /\ d.key_to_put \in AllKeys \cup {-1}
  BY <1>0, <1>1, Helping
<1>3. Step(t, "RelocateUnflag", l) /\ UNCHANGED <<op, child, desc>>
  BY DEF RelocateKey
<1>4. key' \in Seq(AllKeys \cup {-1}) /\ Len(key') = Len(key)
  <2>1. key \in Seq(AllKeys \cup {-1})
    BY <1>2 DEF Heap, HeapInv
  <2>2. key' = key \/ key' = [key EXCEPT ![n] = d.key_to_put]
    BY <1>0 DEF RelocateKey
  <2> QED BY <1>2, <2>1, <2>2, ExceptSeq DEF Nodes
<1>5. Heap' /\ Advance
  BY <1>2, <1>3, <1>4, Same
<1>6. Place("RelocateKey", l)'
  BY <1>2, <1>5, PlaceStays
<1>7. Place("RelocateUnflag", l)'
  BY <1>6
  DEF Place, SecondFind, Searching, Inserting, Deleting, Moving, Marking,
              Linking, Relocating
<1>8. ASSUME NEW k \in Nodes, op'[k].flag \in {"CHILDCAS", "RELOCATE"}, AtWork(pc[t], loc[t], k)
      PROVE  AtWork("RelocateUnflag", l, k)'
  BY <1>0, <1>1, <1>2, <1>3, <1>5, <1>8, GoesOn
<1> QED BY <1>3, <1>5, <1>7, <1>8, StepInv DEF Step, Inv, FillInv

(* 225, 228-229 *)
LEMMA RelocateUnflagInv ==
    ASSUME Inv, NEW t \in All, NEW l, l = loc[t], pc[t] = "RelocateUnflag",
           RelocateUnflag(t, l, desc[l.helped])
    PROVE  Inv' /\ Advance
<1>0. PICK i, d, n, v, w : /\ i = l.helped /\ d = desc[i] /\ n = d.dest
                           /\ v = Word("RELOCATE", i) /\ w = Word("NONE", i)
  OBVIOUS
<1>1. pc[t] \in Relocating /\ "RelocateMark" \in Relocating /\ pc[t] # "idle"
  BY DEF Relocating
<1>2. /\ Heap /\ Place("RelocateUnflag", l) /\ Relocates(l) /\ UnderParent(l)
      /\ IsRelocate(i) /\ i \in 1 .. Len(desc) /\ Len(desc) \in Nat
      /\ Known(n) /\ n \in Nodes /\ n # Root /\ op[n] \in Words
      /\ d.dest_op \in Words /\ d.dest_op.flag = "NONE" /\ d.dest_op.op < i
      /\ d.state = "SUCCEED" => UpTo(v, op[n])
      /\ w \in Words /\ w.flag = "NONE" /\ w.op = i
      /\ v \in Words /\ v.flag = "RELOCATE" /\ v.op = i
  BY <1>0, <1>1, Helping DEF Flags
<1>3. d.state = "SUCCEED" /\ UpTo(v, op[n])
  BY <1>0, <1>2 DEF Place
<1>4. Outcome(t, l, "SUCCEED") /\ CASOp(n, v, w) /\ desc' = desc
  BY <1>0 DEF RelocateUnflag, CASOp
<1>5. Before(v, w) /\ w.op <= Len(desc)
  BY <1>2 DEF Before, Rank
<1>6. op[n] = v => desc[op[n].op].dest = n /\ desc[op[n].op].state = "SUCCEED"
  BY <1>0, <1>2, <1>3
<1>7. /\ Heap' /\ Advance /\ op'[n] = (IF op[n] = v THEN w ELSE op[n])
      /\ \A k \in Nodes : k # n => op'[k] = op[k]
  BY <1>2, <1>4, <1>5, <1>6, CASOpHeap
<1>8. UpTo(w, op'[n]) /\ op'[n] \notin {d.dest_op, v}
  <2>1. op[n] # v => UpTo(w, op[n]) /\ op[n].op >= i
    BY <1>2, <1>3 DEF UpTo, Before, Rank, Words, Flags
  <2>2. d.dest_op # w /\ d.dest_op # v /\ w # v
    BY <1>2
  <2>3. op[n].op >= i => d.dest_op # op[n]
    <3>1. d.dest_op.op \in Nat /\ i \in Nat
      BY <1>2 DEF Words
    <3> QED BY <1>2, <3>1
  <2>4. CASE op[n] = v
    BY <1>7, <2>2, <2>4 DEF UpTo
  <2>5. CASE op[n] # v
    BY <1>7, <2>1, <2>3, <2>5
  <2> QED BY <2>4, <2>5
<1>9. CASE n = l.curr
  <2>1. HelperReturns(t, l, "SUCCEED" = "SUCCEED")
    BY <1>0, <1>4, <1>9 DEF Outcome
  <2>2. ASSUME NEW k \in Nodes, op'[k].flag \in {"CHILDCAS", "RELOCATE"},
               op'[k] = op[k] => AtWork(pc[t], l, k)
        PROVE  FALSE
    <3>1. op'[k] = op[k]
      BY <1>2, <1>7, <2>2
    <3>2. op[k].flag = "RELOCATE" /\ op[k].op = i /\ (k # n => l.curr = k)
      BY <1>0, <1>1, <2>2, <3>1 DEF AtWork, Linking, Relocating
    <3>3. k = n /\ op[k] = v
      BY <1>0, <1>2, <1>9, <3>2, HeapTypes DEF Words, Word
    <3> QED BY <1>8, <3>1, <3>3
  <2> QED BY <1>1, <1>7, <2>1, <2>2, HelperDone
<1>10. CASE n # l.curr
  <2>0. PICK m : m = [l EXCEPT !.state = "SUCCEED"]
    OBVIOUS
  <2>1. Step(t, "RelocateMark", m)
    BY <1>0, <1>4, <1>10, <2>0 DEF Outcome
  <2>2. /\ DOMAIN m = DOMAIN NoLocals /\ m.found = l.found /\ m.helped = l.helped /\ m.k = l.k
        /\ m.start = l.start /\ m.dest = l.dest /\ m.dest_op = l.dest_op /\ m.curr = l.curr
        /\ m.parent = l.parent /\ m.parent_op = l.parent_op /\ m.state = "SUCCEED"
    BY <1>2, <2>0 DEF Place, NoLocals
  <2>3. /\ SecondFind(m) /\ UnderParent(m) /\ Relocates(m) /\ m.k \in AllKeys
        /\ m.helped \in 0 .. Len(desc) /\ m.found \in {"FOUND", "NOTFOUND_L", "NOTFOUND_R"}
    BY <1>1, <1>2, <2>2 DEF Place, SecondFind, UnderParent, Relocates
  <2>4. SecondFind(m)' /\ UnderParent(m)' /\ Relocates(m)'
    BY <1>2, <1>7, <2>3, SecondFindStays, LinkStays, RelocatesStays DEF UnderParent
  <2>5. DestPassed(m)'
    BY <1>0, <1>4, <1>8, <2>2 DEF DestPassed
  <2>6. m.curr # desc'[m.helped].dest /\ desc'[m.helped].state = "SUCCEED"
        /\ UpTo(Word("NONE", m.helped), op[desc[m.helped].dest])' /\ m.helped \in 0 .. Len(desc')
    BY <1>0, <1>3, <1>4, <1>8, <1>10, <2>2, <2>3 DEF UpTo
  <2>7. Place("RelocateMark", m)'
    BY <2>2, <2>3, <2>4, <2>5, <2>6
    DEF Place, SecondFind, Searching, Inserting, Deleting, Moving, Marking,
              Linking, Relocating
  <2>8. ASSUME NEW k \in Nodes, op'[k].flag \in {"CHILDCAS", "RELOCATE"},
               op'[k] = op[k] => AtWork(pc[t], loc[t], k)
        PROVE  AtWork("RelocateMark", m, k)'
    <3>1. op'[k] = op[k]
      BY <1>2, <1>7, <2>8
    <3> QED BY <1>0, <1>1, <1>2, <1>7, <2>2, <2>8, <3>1, GoesOn
  <2> QED BY <1>7, <2>1, <2>7, <2>8, StepInv DEF Step, Inv, FillInv
<1> QED BY <1>9, <1>10

(* 231-235 *)
LEMMA RelocateMarkInv ==
    ASSUME Inv, NEW t \in All, NEW l, l = loc[t], pc[t] = "RelocateMark",
           RelocateMark(t, l, desc[l.helped])
    PROVE  Inv' /\ Advance
<1>0. PICK i, d, n, v, z, m :
        /\ i = l.helped /\ d = desc[i] /\ n = l.curr /\ v = Word("RELOCATE", i) /\ z = Word("NONE", i)
        /\ m = [l EXCEPT !.parent_op = IF d.dest = l.parent THEN z ELSE l.parent_op]
  OBVIOUS
<1>1. pc[t] \in Relocating /\ pc[t] # "idle"
  BY DEF Relocating
<1>2. /\ Heap /\ Place("RelocateMark", l) /\ Relocates(l) /\ UnderParent(l)
      /\ IsRelocate(i) /\ i \in 1 .. Len(desc) /\ Len(desc) \in Nat
      /\ Known(n) /\ n \in Nodes /\ n # Root /\ op[n] \in Words
      /\ z \in Words /\ z.flag = "NONE" /\ z.op = i
      /\ v \in Words /\ v.flag = "RELOCATE" /\ v.op = i
      /\ d.dest \in Nodes
  BY <1>0, <1>1, Helping DEF Flags
<1>3. /\ n # d.dest /\ l.state = d.state /\ d.state # "ONGOING" /\ DestPassed(l)
      /\ l.state = "SUCCEED" => UpTo(z, op[d.dest])
      /\ d.state # "FAILED" => op[n] \in {v, Word("MARK", i)}
  BY <1>0, <1>2 DEF Place, Relocates
<1>4. ASSUME NEW k \in Nodes, op[k].flag \in {"CHILDCAS", "RELOCATE"}, AtWork(pc[t], l, k)
      PROVE  k = n /\ op[k] = v
  <2>1. op[k].flag = "RELOCATE" /\ op[k].op = i /\ (k # d.dest => l.curr = k)
    BY <1>0, <1>1, <1>4 DEF AtWork, Linking, Relocating
  <2>2. op[k] = v
    BY <1>0, <1>2, <2>1, HeapTypes DEF Words, Word
  <2>3. k # d.dest
    BY <1>0, <1>3, <2>2 DEF DestPassed
  <2> QED BY <1>0, <2>1, <2>2, <2>3
<1>5. CASE l.state # "SUCCEED"
  <2>1. HelperReturns(t, l, FALSE) /\ CASOp(n, v, z) /\ d.state = "FAILED"
    <3>1. d.state = "FAILED"
      BY <1>0, <1>1, <1>2, <1>3, <1>5, Helping
    <3> QED BY <1>0, <1>5, <3>1 DEF RelocateMark
  <2>2. Before(v, z) /\ z.op <= Len(desc)
    BY <1>2 DEF Before, Rank
  <2>3. /\ Heap' /\ Advance /\ op'[n] = (IF op[n] = v THEN z ELSE op[n])
        /\ \A k \in Nodes : k # n => op'[k] = op[k]
    <3>1. op[n] = v => desc[op[n].op].state = "FAILED" /\ desc[op[n].op].dest # n
      BY <1>0, <1>2, <1>3, <2>1
    <3> QED BY <1>2, <2>1, <2>2, <3>1, CASOpHeap
  <2>4. ASSUME NEW k \in Nodes, op'[k].flag \in {"CHILDCAS", "RELOCATE"},
               op'[k] = op[k] => AtWork(pc[t], l, k)
        PROVE  FALSE
    <3>1. op'[k] = op[k]
      BY <1>2, <2>3, <2>4
    <3>2. k = n /\ op[k] = v
      BY <1>4, <2>4, <3>1
    <3> QED BY <1>2, <2>3, <3>1, <3>2
  <2> QED BY <1>1, <2>1, <2>3, <2>4, HelperDone
<1>6. CASE l.state = "SUCCEED"
  <2>0. PICK w : w = Word("MARK", i)
    OBVIOUS
  <2>1. Step(t, "MarkedSide", m) /\ CASOp(n, v, w) /\ op[n] \in {v, w} /\ desc' = desc
    BY <1>0, <1>3, <1>6, <2>0 DEF RelocateMark, CASOp
  <2>2. Before(v, w) /\ w.op <= Len(desc) /\ w \in Words /\ w.flag = "MARK" /\ w.op = i
    BY <1>0, <1>2, <2>0 DEF Before, Rank, Word, Words, Flags
  <2>3. /\ Heap' /\ Advance /\ op'[n] = (IF op[n] = v THEN w ELSE op[n])
        /\ \A k \in Nodes : k # n => op'[k] = op[k]
    <3>1. op[n] = v => desc[op[n].op].dest # n
      BY <1>0, <1>2, <1>3
    <3> QED BY <1>2, <2>1, <2>2, <3>1, CASOpHeap
  <2>4. op'[n] = w
    BY <2>1, <2>3
  <2>5. /\ DOMAIN m = DOMAIN NoLocals /\ m.found = l.found /\ m.helped = l.helped /\ m.k = l.k
        /\ m.start = l.start /\ m.dest = l.dest /\ m.dest_op = l.dest_op /\ m.curr = l.curr
        /\ m.parent = l.parent
        /\ m.parent_op = IF d.dest = l.parent THEN z ELSE l.parent_op
    BY <1>0, <1>2 DEF Place, NoLocals
  <2>6. /\ SecondFind(m) /\ m.k \in AllKeys
        /\ m.helped \in 0 .. Len(desc) /\ m.found \in {"FOUND", "NOTFOUND_L", "NOTFOUND_R"}
    BY <1>2, <2>5 DEF Place, SecondFind
  <2>7. SecondFind(m)' /\ Link(l.parent, l.parent_op, l.curr)'
    BY <1>2, <2>3, <2>6, SecondFindStays, LinkStays DEF UnderParent
  <2>8. UnderParent(m)'
    <3>1. CASE d.dest # l.parent
      BY <2>5, <2>7, <3>1 DEF UnderParent
    <3>2. CASE d.dest = l.parent
      <4>1. Relocates(l)'
        BY <1>2, <2>3, RelocatesStays
      <4>2. op'[l.parent] = z => ~Gone(l.curr)'
        BY <1>0, <2>1, <3>2, <4>1 DEF Relocates
      <4>3. UpTo(z, op'[l.parent])
        BY <1>0, <1>2, <1>3, <1>6, <2>3, <3>2
      <4>4. Seen(l.parent, z)'
        BY <1>2, <2>7, <4>3 DEF Link, Seen, Quiet
      <4>5. Link(l.parent, z, l.curr)'
        BY <2>7, <4>2, <4>4 DEF Link
      <4> QED BY <2>5, <3>2, <4>5 DEF UnderParent
    <3> QED BY <3>1, <3>2
  <2>9. op'[m.curr].flag = "MARK" /\ m.helped \in 0 .. Len(desc')
    BY <1>0, <2>1, <2>2, <2>4, <2>5, <2>6
  <2>10. Place("MarkedSide", m)'
    BY <2>5, <2>6, <2>7, <2>8, <2>9
    DEF Place, SecondFind, Searching, Inserting, Deleting, Moving, Marking,
              Linking, Relocating
  <2>11. ASSUME NEW k \in Nodes, op'[k].flag \in {"CHILDCAS", "RELOCATE"},
                op'[k] = op[k] => AtWork(pc[t], loc[t], k)
         PROVE  AtWork("MarkedSide", m, k)'
    <3>1. op'[k] = op[k]
      BY <2>2, <2>3, <2>4, <2>11
    <3>2. k = n
      BY <1>4, <2>11, <3>1
    <3> QED BY <2>2, <2>4, <2>11, <3>2
  <2> QED BY <2>1, <2>3, <2>10, <2>11, StepInv DEF Step, Inv, FillInv
<1> QED BY <1>5, <1>6

(* A call begins. *)
LEMMA EnterInv ==
    ASSUME Inv, NEW t \in All, NEW fn, NEW k \in AllKeys, Enter(t, fn, k), fill' \in Seq(AllKeys)
    PROVE  Inv' /\ Advance
<1>0. PICK c, m : c = [fn |-> fn, k |-> k] /\ m = Frame(c)
  OBVIOUS
<1>1. Heap /\ Heap' /\ Advance /\ op' = op
  <2>1. Heap /\ UNCHANGED <<op, child, desc>> /\ key' \in Seq(AllKeys \cup {-1}) /\ Len(key') = Len(key)
    BY DEF Inv, Heap, HeapInv, Enter, heap
  <2> QED BY <2>1, Same DEF Enter, heap
<1>2. pc[t] = "idle" /\ pc' = [pc EXCEPT ![t] = "FindOp"] /\ loc' = [loc EXCEPT ![t] = m]
  BY <1>0 DEF Enter
<1>3. Place("FindOp", m)
  <2>1. c.k \in AllKeys
    BY <1>0
  <2> QED BY <1>0, <1>1, <2>1, FramePlace
<1>4. Place("FindOp", m)'
  BY <1>1, <1>3, PlaceStays
<1>5. \A n \in Nodes : op[n].flag \in {"CHILDCAS", "RELOCATE"} => ~AtWork(pc[t], loc[t], n)
  BY <1>2 DEF AtWork, Linking, Relocating
<1> QED BY <1>1, <1>2, <1>4, <1>5, StepInv

(* Main goes through its keys. *)
LEMMA FillsInv ==
    ASSUME Inv, Fill
    PROVE  Inv' /\ Advance
<1>1. fill \in Seq(AllKeys) /\ fill # <<>>
  BY DEF Inv, FillInv, Fill
<1>2. Head(fill) \in AllKeys /\ Tail(fill) \in Seq(AllKeys)
  BY <1>1, HeadTailProperties
<1> QED BY <1>2, EnterInv DEF Fill, All

(* A thread of the tree calls. *)
LEMMA CallInv ==
    ASSUME Inv, NEW t \in Threads, NEW fn, NEW k \in Keys[t], Call(t, fn, k)
    PROVE  Inv' /\ Advance
<1>1. k \in AllKeys
  BY LFAssumption DEF AllKeys, Range
<1>2. fill' \in Seq(AllKeys)
  BY DEF Call, Inv, FillInv
<1> QED BY <1>1, <1>2, EnterInv DEF Call, All

-----------------------------------------------------------------------------
(* The invariant. *)

THEOREM InitInv == Init => Inv
<1> SUFFICES ASSUME Init PROVE Inv
  OBVIOUS
<1>1. /\ Nodes = {1} /\ Len(desc) = 0 /\ Len(key) = 1 /\ Root = 1 /\ key[1] = -1
      /\ op[1] = NullWord /\ child[1] = NoChildren
  BY DEF Init, Nodes, Root
<1>2. NullWord \in Words /\ NullWord.flag = "NONE" /\ NullWord.op = 0
  BY DEF NullWord, Word, Words, Flags
<1>3. /\ NoChildren \in [Sides -> Pointers] /\ NoChildren \in [Sides -> [null : BOOLEAN, node : Nat]]
      /\ \A s \in Sides : NoChildren[s] = SetNull(NoNode)
      /\ SetNull(NoNode).null /\ SetNull(NoNode).node = NoNode
  <2>1. /\ SetNull(NoNode).null /\ SetNull(NoNode).node = NoNode
        /\ SetNull(NoNode) \in [null : BOOLEAN, node : Nat]
    BY DEF SetNull, NoNode
  <2>2. SetNull(NoNode) \in Pointers
    BY <1>1 DEF Pointers, SetNull, NoNode
  <2>3. DOMAIN NoChildren = Sides /\ \A s \in Sides : NoChildren[s] = SetNull(NoNode)
    BY DEF NoChildren, Sides
  <2>4. NoChildren = [s \in Sides |-> SetNull(NoNode)]
    BY DEF NoChildren, Sides
  <2> QED BY <2>1, <2>2, <2>3, <2>4
<1>4. \A i : ~IsChildCAS(i) /\ ~IsRelocate(i)
  BY <1>1 DEF IsChildCAS, IsRelocate
<1>5. \A m : ~Gone(m)
  BY <1>4 DEF Gone
<1>6. HeapInv
  <2>1. key \in Seq(AllKeys \cup {-1}) /\ op \in Seq(Words)
        /\ child \in Seq([Sides -> [null : BOOLEAN, node : Nat]]) /\ desc \in Seq(Range(desc))
    BY <1>2, <1>3 DEF Init
  <2>2. Len(op) = Len(key) /\ Len(child) = Len(key) /\ Len(key) > 0
    BY DEF Init
  <2> QED BY <1>1, <1>2, <1>3, <2>1, <2>2 DEF HeapInv
<1>7. DescInv
  BY <1>1 DEF DescInv
<1>8. PendingInv
  BY <1>1, <1>2 DEF PendingInv, Waiting
<1>9. TreeInv
  BY <1>1, <1>2, <1>3, <1>5 DEF TreeInv, Spent
<1>10. Heap
  BY <1>6, <1>7, <1>8, <1>9 DEF Heap
<1>11. LocalInv
  <2>1. /\ NoLocals.helped = 0 /\ NoLocals.found = "NOTFOUND_R" /\ NoLocals.start = Root
    BY DEF NoLocals
  <2>2. 0 \in 0 .. Len(desc)
    BY <1>1
  <2>3. Place("idle", NoLocals)
    BY <2>1, <2>2
    DEF Place, SecondFind, Searching, Inserting, Deleting, Moving, Marking,
              Linking, Relocating
  <2> QED BY <2>3 DEF Init, LocalInv
<1>12. AttendInv
  BY <1>1, <1>2 DEF AttendInv
<1>13. FillInv
  <2>1. fill \in Fills /\ fill \in Seq(Nat)
    BY LFAssumption DEF Init
  <2>2. \A i \in 1 .. Len(fill) : fill[i] \in AllKeys
    <3>1. \A i \in DOMAIN fill : fill[i] \in Range(fill)
      BY DEF Range
    <3>2. DOMAIN fill = 1 .. Len(fill)
      BY <2>1
    <3>3. Range(fill) \subseteq AllKeys
      BY <2>1 DEF AllKeys
    <3> QED BY <3>1, <3>2, <3>3
  <2> QED BY <2>1, <2>2, SeqOfRange DEF FillInv
<1> QED BY <1>10, <1>11, <1>12, <1>13 DEF Inv

(* A step of a thread at work on the tree. *)
LEMMA LoadsInv ==
    ASSUME Inv, NEW t \in All, Load(t, loc[t])
    PROVE  Inv' /\ Advance
<1>1. UNCHANGED heap
  BY DEF Load
<1>2. Advance
  <2>1. Heap /\ UNCHANGED <<op, child, desc>> /\ key' \in Seq(AllKeys \cup {-1}) /\ Len(key') = Len(key)
    BY <1>1 DEF Inv, Heap, HeapInv, heap
  <2> QED BY <2>1, Same
<1>3. Inv'
  <2>1. CASE pc[t] = "FindOp" /\ FindOp(t, loc[t])
    BY <1>1, <2>1, FindOpInv
  <2>2. CASE pc[t] = "FindRight" /\ FindRight(t, loc[t])
    BY <1>1, <2>2, FindRightInv
  <2>3. CASE pc[t] = "FindLeft" /\ FindLeft(t, loc[t])
    BY <1>1, <2>3, FindLeftInv
  <2>4. CASE pc[t] = "FindNext" /\ FindNext(t, loc[t])
    BY <1>1, <2>4, FindNextInv
  <2>5. CASE pc[t] = "FindKey" /\ FindKey(t, loc[t])
    BY <1>1, <2>5, FindKeyInv
  <2>6. CASE pc[t] = "FindCheck" /\ FindCheck(t, loc[t])
    BY <1>1, <2>6, FindCheckInv
  <2>7. CASE pc[t] = "FindCheckCurr" /\ FindCheckCurr(t, loc[t])
    BY <1>1, <2>7, FindCheckCurrInv
  <2>8. CASE pc[t] = "InsertOld" /\ InsertOld(t, loc[t])
    BY <1>1, <2>8, InsertOldInv
  <2>9. CASE pc[t] = "DeleteLeft" /\ DeleteLeft(t, loc[t])
    BY <1>1, <2>9, DeleteLeftInv
  <2>10. CASE pc[t] = "DeleteRight" /\ DeleteRight(t, loc[t])
    BY <1>1, <2>10, DeleteRightInv
  <2>11. CASE pc[t] = "DeleteRecheck" /\ DeleteRecheck(t, loc[t])
    BY <1>1, <2>11, DeleteRecheckInv
  <2>12. CASE pc[t] = "DeleteKey" /\ DeleteKey(t, loc[t])
    BY <1>1, <2>12, DeleteKeyInv
  <2>13. CASE pc[t] = "MarkedSide" /\ MarkedSide(t, loc[t])
    BY <1>1, <2>13, MarkedSideInv
  <2>14. CASE pc[t] = "RelocateState" /\ RelocateState(t, loc[t], desc[loc[t].helped])
    BY <1>1, <2>14, RelocateStateInv
  <2>15. CASE pc[t] = "RelocateSeen" /\ RelocateSeen(t, loc[t], desc[loc[t].helped])
    BY <1>1, <2>15, RelocateSeenInv
  <2>16. CASE pc[t] = "RelocateReread" /\ RelocateReread(t, loc[t], desc[loc[t].helped])
    BY <1>1, <2>16, RelocateStateInv
  <2>17. CASE pc[t] = "Return" /\ Return(t)
    BY <1>1, <2>17, ReturnInv
  <2> QED BY <2>1, <2>2, <2>3, <2>4, <2>5, <2>6, <2>7, <2>8, <2>9, <2>10, <2>11, <2>12, <2>13,
             <2>14, <2>15, <2>16, <2>17 DEF Load, At
<1> QED BY <1>2, <1>3

LEMMA CASInv ==
    ASSUME Inv, NEW t \in All, CAS(t, loc[t])
    PROVE  Inv' /\ Advance
<1>1. CASE pc[t] = "InsertCAS" /\ InsertCAS(t, loc[t])
  BY <1>1, InsertCASInv
<1>2. CASE pc[t] = "DeleteMark" /\ DeleteMark(t, loc[t])
  BY <1>2, DeleteMarkInv
<1>3. CASE pc[t] = "DeleteRelocate" /\ DeleteRelocate(t, loc[t])
  BY <1>3, DeleteRelocateInv
<1>4. CASE pc[t] = "MarkedCAS" /\ MarkedCAS(t, loc[t])
  BY <1>4, MarkedCASInv
<1>5. CASE pc[t] = "ChildCAS" /\ ChildCAS(t, loc[t], desc[loc[t].helped])
  BY <1>5, ChildCASInv
<1>6. CASE pc[t] = "ChildCASDone" /\ ChildCASDone(t, loc[t])
  BY <1>6, ChildCASDoneInv
<1>7. CASE pc[t] = "RelocateDest" /\ RelocateDest(t, loc[t], desc[loc[t].helped])
  BY <1>7, RelocateDestInv
<1>8. CASE pc[t] = "RelocateSucceed" /\ RelocateSucceed(t, loc[t])
  BY <1>8, RelocateSucceedInv
<1>9. CASE pc[t] = "RelocateFail" /\ RelocateFail(t, loc[t])
  BY <1>9, RelocateFailInv
<1>10. CASE pc[t] = "RelocateKey" /\ RelocateKey(t, loc[t], desc[loc[t].helped])
  BY <1>10, RelocateKeyInv
<1>11. CASE pc[t] = "RelocateUnflag" /\ RelocateUnflag(t, loc[t], desc[loc[t].helped])
  BY <1>11, RelocateUnflagInv
<1>12. CASE pc[t] = "RelocateMark" /\ RelocateMark(t, loc[t], desc[loc[t].helped])
  BY <1>12, RelocateMarkInv
<1> QED BY <1>1, <1>2, <1>3, <1>4, <1>5, <1>6, <1>7, <1>8, <1>9, <1>10, <1>11, <1>12 DEF CAS, At

(* Every step keeps the invariant, and the words only move forward. *)
THEOREM NextInv == Inv /\ [Next]_vars => Inv' /\ Advance
<1> SUFFICES ASSUME Inv, [Next]_vars PROVE Inv' /\ Advance
  OBVIOUS
<1>1. CASE Fill
  BY <1>1, FillsInv
<1>2. ASSUME NEW t \in Threads, NEW fn \in {"insert", "delete", "search"}, NEW k \in Keys[t], Call(t, fn, k)
      PROVE  Inv' /\ Advance
  BY <1>2, CallInv
<1>3. ASSUME NEW t \in All, Work(t) PROVE Inv' /\ Advance
  BY <1>3, LoadsInv, CASInv DEF Work
<1>4. CASE UNCHANGED vars
  <2>1. UNCHANGED <<key, op, child, desc>> /\ UNCHANGED <<pc, loc, fill>>
    BY <1>4 DEF vars
  <2>2. Heap /\ key' \in Seq(AllKeys \cup {-1}) /\ Len(key') = Len(key)
    BY <2>1 DEF Inv, Heap, HeapInv
  <2>3. Heap' /\ Advance
    BY <2>1, <2>2, Same
  <2>4. LocalInv'
    <3>1. ASSUME NEW t \in All, NEW q, NEW l, q = pc'[t], l = loc'[t] PROVE Place(q, l)'
      BY <2>1, <2>2, <2>3, <3>1, PlaceStays DEF Inv, LocalInv
    <3> QED BY <2>1, <3>1 DEF Inv, LocalInv
  <2>5. AttendInv'
    BY <2>1 DEF Inv, AttendInv, AtWork, Nodes
  <2> QED BY <2>1, <2>3, <2>4, <2>5 DEF Inv, FillInv
<1> QED BY <1>1, <1>2, <1>3, <1>4 DEF Next

(* A tree is in such a state at all times. *)
THEOREM Invariance == Spec => []Inv
<1>1. Inv /\ [Next]_vars => Inv'
  BY NextInv
<1> QED BY <1>1, InitInv, PTL DEF Spec

-----------------------------------------------------------------------------
(* What follows from it. *)

(* Keys, words and pointers are what they should be. *)
THEOREM TypesCorrect == Spec => []TypeOK
<1>1. Inv => TypeOK
  <2> SUFFICES ASSUME Inv PROVE TypeOK
    OBVIOUS
  <2>1. Heap
    BY DEF Inv
  <2>2. \A n \in Nodes : op[n] \in [flag : Flags, op : 0 .. Len(desc)]
    BY <2>1, HeapTypes DEF Words
  <2>3. \A n \in Nodes, s \in Sides : child[n][s] \in [null : BOOLEAN, node : 0 .. Len(key)]
    BY <2>1, HeapTypes DEF Pointers
  <2>4. \A t \in All : loc[t].helped \in 0 .. Len(desc)
    BY DEF Inv, LocalInv, Place
  <2> QED BY <2>1, <2>2, <2>3, <2>4, HeapTypes DEF TypeOK, Heap, HeapInv
<1> QED BY <1>1, Invariance, PTL

(* A thread that finishes an operation of others does what they would do:  *)
(* the pointer is still the one the operation expects, or already the new  *)
(* one, and a relocation that reached its destination is not given up      *)
(* (lockfree.cpp:202, 212-219).                                            *)
THEOREM OperationsStillApply == Spec => []PublishedStillApplies
<1>1. Inv => PublishedStillApplies
  <2> SUFFICES ASSUME Inv, NEW n \in Nodes
               PROVE  /\ op[n].flag = "CHILDCAS" =>
                           child[n][desc[op[n].op].side] \in {desc[op[n].op].expected, desc[op[n].op].update}
                      /\ Receives(n) => desc[op[n].op].state # "FAILED"
    BY DEF PublishedStillApplies
  <2>1. op[n].flag = "CHILDCAS" =>
          child[n][desc[op[n].op].side] \in {desc[op[n].op].expected, desc[op[n].op].update}
    BY DEF Inv, Heap, PendingInv
  <2>2. ASSUME Receives(n) PROVE desc[op[n].op].state # "FAILED"
    <3>1. op[n].flag = "RELOCATE" /\ desc[op[n].op].dest = n
      BY <2>2 DEF Receives
    <3>2. IsRelocate(op[n].op)
      BY <3>1 DEF Inv, Heap, HeapInv
    <3>3. RelocateOK(op[n].op)
      BY <3>2 DEF Inv, Heap, DescInv, IsRelocate, IsChildCAS
    <3>4. op[n] = Word("RELOCATE", op[n].op)
      BY <3>1, HeapTypes DEF Inv, Words, Word
    <3> QED BY <3>1, <3>3, <3>4 DEF RelocateOK
  <2> QED BY <2>1, <2>2
<1> QED BY <1>1, Invariance, PTL

(* No flag is left without a thread that will clear it                     *)
(* (lockfree.cpp:199-237).                                                 *)
THEOREM FlagsAttended == Spec => []FlagsAreAttended
<1>1. Inv => FlagsAreAttended
  BY DEF Inv, AttendInv, AtWork, FlagsAreAttended, Linking, Relocating
<1> QED BY <1>1, Invariance, PTL

(* A marked node keeps its word and its children                           *)
(* (lockfree.cpp:157, 185-192, 231).                                       *)
THEOREM MarkedStays == Spec => MarkedIsFinal
<1>1. Inv /\ [Next]_vars =>
        [\A n \in Nodes : op[n].flag = "MARK" => op'[n] = op[n] /\ child'[n] = child[n]]_vars
  <2> SUFFICES ASSUME Inv, [Next]_vars, NEW n \in Nodes, op[n].flag = "MARK"
               PROVE  op'[n] = op[n] /\ child'[n] = child[n]
    OBVIOUS
  <2>1. Advance /\ Inv'
    BY NextInv
  <2>2. op'[n] = op[n]
    BY <2>1 DEF Advance, Forward
  <2>3. \A s \in Sides : child'[n][s] = child[n][s]
    BY <2>1 DEF Advance, NewPointers
  <2>4. child[n] \in [Sides -> Pointers]
    BY HeapTypes DEF Inv
  <2>5. child'[n] \in [Sides -> Pointers']
    <3>1. n \in Nodes'
      BY <2>1 DEF Advance, Forward, Nodes, Inv, Heap, HeapInv
    <3> QED BY <2>1, <3>1 DEF Inv, Heap, HeapInv
  <2> QED BY <2>2, <2>3, <2>4, <2>5
<1> QED BY <1>1, Invariance, PTL DEF Spec, MarkedIsFinal

(* The words of a node come in order and none comes back: a CAS that finds *)
(* the word it expects has missed nothing, without a version counter       *)
(* (lockfree.cpp:141, 157, 166, 193, 203, 212, 225, 231).                  *)
NoWordComesBack ==
    [][\A n \in Nodes : op'[n] # op[n] => Before(op[n], op'[n])]_vars

THEOREM WordsAdvance == Spec => NoWordComesBack
<1>1. Inv /\ [Next]_vars => [\A n \in Nodes : op'[n] # op[n] => Before(op[n], op'[n])]_vars
  BY NextInv DEF Advance, Forward, UpTo
<1> QED BY <1>1, Invariance, PTL DEF Spec, NoWordComesBack

(* A node that was taken out of the tree was marked, is never in it again, *)
(* and no node that is in it leads to it (lockfree.cpp:185-203).           *)
GoneForGood ==
    /\ []\A n \in Nodes : Gone(n) => op[n].flag = "MARK"
    /\ []\A n, c \in Nodes, s \in Sides : ~Gone(n) /\ child[n][s] = Ptr(c) => ~Gone(c)
    /\ [][\A n \in Nodes : Gone(n) => Gone(n)']_vars

THEOREM NodesGoneForGood == Spec => GoneForGood
<1>1. Inv => \A n \in Nodes : Gone(n) => op[n].flag = "MARK"
  BY DEF Inv, Heap, TreeInv
<1>2. Inv => \A n, c \in Nodes, s \in Sides : ~Gone(n) /\ child[n][s] = Ptr(c) => ~Gone(c)
  BY DEF Inv, Heap, TreeInv, Ptr
<1>3. Inv /\ [Next]_vars => [\A n \in Nodes : Gone(n) => Gone(n)']_vars
  BY NextInv DEF Advance, NewPointers
<1> QED BY <1>1, <1>2, <1>3, Invariance, PTL DEF Spec, GoneForGood

(* A node that is in the tree has one parent, so that taking it out of     *)
(* that one takes it out for good (lockfree.cpp:191-193).                  *)
OneParent ==
    \A n, m, c \in Nodes, r, s \in Sides :
        /\ ~Gone(n) /\ child[n][r] = Ptr(c)
        /\ ~Gone(m) /\ child[m][s] = Ptr(c)
        => n = m /\ r = s

THEOREM OneParentEach == Spec => []OneParent
<1>1. Inv => OneParent
  BY DEF Inv, Heap, TreeInv, OneParent, Ptr
<1> QED BY <1>1, Invariance, PTL
=============================================================================
