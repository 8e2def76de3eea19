-------------------------- MODULE LockFreeAVL_proofs --------------------------
(***************************************************************************)
(* Proofs about the AVL tree over KCAS, for any number of threads, keys    *)
(* and calls: what the versions promise about a node that is taken out.    *)
(***************************************************************************)
EXTENDS LockFreeAVL, SequenceTheorems, TLAPS

(* The words of a node. *)
Words == {"ver", "key", "left", "right", "parent", "height"}

Sides == {"left", "right"}

(* Not marked. *)
Free(version) == ~IsMarked(version)

(* The nodes are a sequence that only grows, of records with a version.   *)
NodeInv ==
    /\ node \in Seq(Range(node))
    /\ \A n \in DOMAIN node :
         /\ node[n] = [f \in Words |-> node[n][f]]
         /\ node[n].ver \in Nat

(* Places of the code. *)
EraseSimple == {"EraseLeft", "EraseRight", "SimpleTest", "SimpleChild", "SimpleVer"}
GetSuccessor == {"Successor", "SuccessorParent", "SuccessorVer", "SuccessorLeft", "SuccessorDown"}
Inserting == {"InsertRight", "InsertLeft", "InsertExecute"}
Rotating == {"Heavy", "RotateLink", "Rotate", "RotateTwice"}

(* What is known of the locals v of a thread at p: the versions that have  *)
(* been tested, and how far the loads of a script have come.               *)
Place(p, v) ==
    /\ DOMAIN v = DOMAIN NoLocals
    /\ v.side \in Sides /\ v.d \in Sides /\ v.i \in Nat \ {0}
    /\ p \in Inserting => Free(v.pVer)
    /\ p \in EraseSimple \cup GetSuccessor \cup {"EraseTwoChild", "EraseLink", "EraseExecute"} =>
         Free(v.nVer) /\ Free(v.pVer)
    /\ p \in EraseSimple \cup GetSuccessor => v.i = 1
    /\ p \in EraseSimple => v.s = Null
    /\ p = "EraseTwoChild" =>
         /\ v.s # Null => Free(v.sVer) /\ Free(v.spVer)
         /\ v.i >= 3 => v.s # Null
         /\ v.i >= 5 => Free(v.srVer)
    /\ p \in {"EraseLink", "EraseExecute"} =>
         /\ v.s = Null => v.r = Null \/ Free(v.rVer)
         /\ v.s # Null => Free(v.sVer) /\ Free(v.spVer) /\ Free(v.srVer)
    /\ p = "Neighbours" =>
         /\ v.i >= 2 => Free(v.nVer)
         /\ v.i >= 4 => Free(v.pVer)
         /\ v.i >= 8 => Free(v.lVer) /\ Free(v.rVer)
    /\ p \in Rotating \cup {"FixHeight"} => Free(v.nVer) /\ Free(v.pVer)
    /\ p \in Rotating => Free(v.cVer)
    /\ p = "Heavy" /\ v.i >= 5 => Free(v.innerVer)
    /\ p \in {"RotateLink", "RotateTwice"} => Free(v.innerVer)
    /\ p = "Rotate" => ~v.double /\ (v.i >= 4 => Free(v.innerVer))
    /\ p = "RotateTwice" =>
         v.double /\ (v.i >= 4 => Free(v.in1Ver)) /\ (v.i >= 7 => Free(v.in2Ver))

LocalInv ==
    /\ DOMAIN pc = All /\ DOMAIN loc = All
    /\ \A t \in All : Place(pc[t], loc[t])

Inv == NodeInv /\ LocalInv

-----------------------------------------------------------------------------

(* The words that a script reads: how many there are, which of them go     *)
(* into a version, and where that is tested.                               *)
LEMMA NeighboursScript ==
    LET s == Script["Neighbours"]
    IN  /\ Len(s) = 9
        /\ s[1].tested = {"nVer"} /\ s[3].tested = {"pVer"} /\ s[7].tested = {"lVer", "rVer"}
        /\ \A j \in 1 .. 9 : s[j].into \in {"nVer", "p", "pVer", "l", "lVer", "r", "rVer", "lh", "rh"}
        /\ \A j \in 2 .. 9 : s[j].into # "nVer"
        /\ \A j \in 4 .. 9 : s[j].into # "pVer"
        /\ \A j \in 8 .. 9 : s[j].into \notin {"lVer", "rVer"}
BY DEF Script, Word

(* The same for the heavy child. *)
LEMMA HeavyScript ==
    LET s == Script["Heavy"]
    IN  /\ Len(s) = 6
        /\ s[4].tested = {"outerVer", "innerVer"}
        /\ \A j \in 1 .. 6 : s[j].into \in {"outer", "outerVer", "inner", "innerVer", "outerH", "innerH"}
        /\ \A j \in 5 .. 6 : s[j].into # "innerVer"
BY DEF Script, Word

(* The same for fixHeight. *)
LEMMA FixHeightScript ==
    LET s == Script["FixHeight"]
    IN  /\ Len(s) = 7
        /\ \A j \in 1 .. 7 : s[j].into \in {"l", "r", "lVer", "lh", "rVer", "rh", "nH"}
BY DEF Script, Word

(* The same for eraseTwoChild. *)
LEMMA EraseTwoChildScript ==
    LET s == Script["EraseTwoChild"]
    IN  /\ Len(s) = 4
        /\ s[2].of = "s" /\ s[4].tested = {"srVer"}
        /\ \A j \in 1 .. 4 : s[j].into \in {"nKey", "sKey", "sr", "srVer"}
BY DEF Script, Word

(* The same for a single rotation. *)
LEMMA RotateScript ==
    LET s == Script["Rotate"]
    IN  /\ Len(s) = 10
        /\ s[3].tested = {"innerVer"}
        /\ \A j \in 1 .. 10 : s[j].into \in {"inner", "innerVer", "innerH", "outer", "outerVer", "outerH",
                                             "lightVer", "lightH", "nH", "cH"}
        /\ \A j \in 4 .. 10 : s[j].into # "innerVer"
BY DEF Script, Word, Child, Light

(* The same for a double rotation. *)
LEMMA RotateTwiceScript ==
    LET s == Script["RotateTwice"]
    IN  /\ Len(s) = 14
        /\ s[3].tested = {"in1Ver"} /\ s[6].tested = {"in2Ver"}
        /\ \A j \in 1 .. 14 : s[j].into \in {"in1", "in1Ver", "in1H", "in2", "in2Ver", "in2H",
                                             "lightVer", "lightH", "outer", "outerVer", "outerH",
                                             "nH", "cH", "innerH"}
        /\ \A j \in 4 .. 14 : s[j].into # "in1Ver"
        /\ \A j \in 7 .. 14 : s[j].into # "in2Ver"
BY DEF Script, Word, Child, Light

-----------------------------------------------------------------------------

(* What makes an update harmless to nodes that are marked: each node that  *)
(* it changes comes with a version, tested not to be marked, and versions  *)
(* grow.                                                                   *)
Tested(update) ==
    \A e \in update : e.n # Null =>
        /\ e.field = "ver" => e.new \in {e.old, e.old + 1, e.old + 2}
        /\ \/ e.new = e.old
           \/ \E b \in update : b.n = e.n /\ b.field = "ver" /\ Free(b.old)

(* What a step may do to a node. *)
Stays(old, new) ==
    /\ new.ver >= old.ver
    /\ IsMarked(old.ver) => new = old

(* One word of a node after an update. *)
LEMMA UpdatedWord ==
    ASSUME NodeInv, NEW update, Applies(update), Tested(update),
           NEW n \in DOMAIN node, NEW f \in Words
    PROVE  /\ IsMarked(node[n].ver) => Updated(update)[n][f] = node[n][f]
           /\ f = "ver" => /\ Updated(update)[n][f] \in Nat
                           /\ Updated(update)[n][f] >= node[n][f]
<1> DEFINE hit == {e \in update : e.n = n /\ e.field = f}
<1>1. n # Null /\ DOMAIN node[n] = Words /\ node[n].ver \in Nat
  <2>1. n \in 1 .. Len(node) /\ Len(node) \in Nat
    BY LenProperties DEF NodeInv
  <2>2. DOMAIN [g \in Words |-> node[n][g]] = Words
    OBVIOUS
  <2> QED BY <2>1, <2>2 DEF NodeInv, Null
<1>2. Updated(update)[n][f] = IF hit = {} THEN node[n][f] ELSE (CHOOSE e \in hit : TRUE).new
  BY <1>1 DEF Updated
<1>3. CASE hit = {}
  BY <1>1, <1>2, <1>3
<1>4. CASE hit # {}
  <2> DEFINE e == CHOOSE x \in hit : TRUE
  <2>1. e \in hit
    BY <1>4
  <2>2. e \in update /\ e.n = n /\ e.field = f /\ Updated(update)[n][f] = e.new
    BY <2>1, <1>2, <1>4
  <2> HIDE DEF e
  <2>3. node[n][f] = e.old
    BY <2>2, <1>1 DEF Applies, Present
  <2>4. IsMarked(node[n].ver) => e.new = e.old
    <3> SUFFICES ASSUME IsMarked(node[n].ver), e.new # e.old PROVE FALSE
      OBVIOUS
    <3>1. PICK b \in update : b.n = n /\ b.field = "ver" /\ Free(b.old)
      BY <2>2, <1>1 DEF Tested
    <3>2. node[n].ver = b.old
      BY <3>1, <1>1 DEF Applies, Present
    <3> QED BY <3>1, <3>2 DEF Free
  <2>5. f = "ver" => e.new \in {e.old, e.old + 1, e.old + 2}
    BY <2>2, <1>1 DEF Tested
  <2> QED BY <2>2, <2>3, <2>4, <2>5, <1>1
<1> QED BY <1>3, <1>4

(* An update that applies leaves the marked nodes alone.                   *)
LEMMA UpdatedInv ==
    ASSUME NodeInv, NEW update, Applies(update), Tested(update)
    PROVE  /\ Updated(update) \in Seq(Range(Updated(update)))
           /\ DOMAIN Updated(update) = DOMAIN node
           /\ \A n \in DOMAIN node :
                /\ Updated(update)[n] = [f \in Words |-> Updated(update)[n][f]]
                /\ Updated(update)[n].ver \in Nat
                /\ Stays(node[n], Updated(update)[n])
<1> DEFINE new == Updated(update)
<1>1. DOMAIN new = 1 .. Len(node) /\ DOMAIN new = DOMAIN node /\ Len(node) \in Nat
  BY LenProperties DEF NodeInv, Updated
<1>2. new \in [1 .. Len(node) -> Range(new)]
  <2>1. new = [n \in 1 .. Len(node) |-> new[n]]
    BY <1>1 DEF Updated
  <2> QED BY <1>1, <2>1 DEF Range
<1>3. new \in Seq(Range(new))
  BY <1>1, <1>2, SeqDef
<1>4. ASSUME NEW n \in DOMAIN node
      PROVE  /\ new[n] = [f \in Words |-> new[n][f]]
             /\ new[n].ver \in Nat
             /\ Stays(node[n], new[n])
  <2>1. node[n] = [f \in Words |-> node[n][f]]
    BY <1>4 DEF NodeInv
  <2>2. DOMAIN node[n] = Words
    <3>1. DOMAIN [f \in Words |-> node[n][f]] = Words
      OBVIOUS
    <3> QED BY <2>1, <3>1
  <2>3. new[n] = [f \in Words |-> new[n][f]]
    BY <2>2 DEF Updated
  <2>4. \A f \in Words : IsMarked(node[n].ver) => new[n][f] = node[n][f]
    BY <1>4, UpdatedWord
  <2>5. new[n].ver \in Nat /\ new[n].ver >= node[n].ver
    <3>1. "ver" \in Words
      BY DEF Words
    <3> QED BY <3>1, <1>4, UpdatedWord
  <2>6. IsMarked(node[n].ver) => new[n] = node[n]
    <3> SUFFICES ASSUME IsMarked(node[n].ver) PROVE new[n] = node[n]
      OBVIOUS
    <3>1. \A f \in Words : new[n][f] = node[n][f]
      BY <2>4
    <3> HIDE DEF new
    <3> QED BY <2>1, <2>3, <3>1
  <2> QED BY <2>3, <2>5, <2>6 DEF Stays
<1> QED BY <1>1, <1>3, <1>4

(* The same with a new node behind the others. *)
LEMMA AppendInv ==
    ASSUME NodeInv, NEW update, Applies(update), Tested(update), NEW k, NEW p,
           node' = Append(Updated(update), NewNode(k, p))
    PROVE  NodeInv' /\ \A n \in DOMAIN node : Stays(node[n], node'[n])
<1> DEFINE new == Updated(update)
           S == Range(new) \cup {NewNode(k, p)}
<1>1. new \in Seq(S)
  <2>1. new \in Seq(Range(new))
    BY UpdatedInv
  <2> QED BY <2>1, SeqMonotonic
<1>2. /\ node' \in Seq(S) /\ Len(node') = Len(new) + 1 /\ Len(new) \in Nat
      /\ \A i \in 1 .. Len(new) : node'[i] = new[i]
      /\ node'[Len(new) + 1] = NewNode(k, p)
  BY <1>1, AppendProperties, LenProperties
<1>3. DOMAIN new = 1 .. Len(new) /\ DOMAIN new = DOMAIN node
  BY <1>1, LenProperties, UpdatedInv
<1>4. /\ NewNode(k, p) = [f \in Words |-> NewNode(k, p)[f]]
      /\ NewNode(k, p).ver \in Nat
  BY DEF NewNode, Words
<1> HIDE DEF new
<1>5. node' \in Seq(Range(node'))
  <2>1. DOMAIN node' = 1 .. Len(node') /\ Len(node') \in Nat
    BY <1>2, LenProperties
  <2>2. node' \in [1 .. Len(node') -> S]
    BY <1>2, LenProperties
  <2>3. node' \in [1 .. Len(node') -> Range(node')]
    BY <2>1, <2>2 DEF Range
  <2> QED BY <2>1, <2>3, SeqDef
<1>6. ASSUME NEW n \in DOMAIN node'
      PROVE  node'[n] = [f \in Words |-> node'[n][f]] /\ node'[n].ver \in Nat
  <2>1. n \in 1 .. Len(new) + 1
    BY <1>2, LenProperties
  <2>2. CASE n \in 1 .. Len(new)
    <3>1. new[n] = [f \in Words |-> new[n][f]] /\ new[n].ver \in Nat
      BY <1>3, <2>2, UpdatedInv DEF new
    <3> QED BY <1>2, <2>2, <3>1
  <2>3. CASE n = Len(new) + 1
    BY <1>2, <1>4, <2>3
  <2> QED BY <1>2, <2>1, <2>2, <2>3
<1>7. ASSUME NEW n \in DOMAIN node PROVE Stays(node[n], node'[n])
  <2>1. node'[n] = new[n]
    BY <1>2, <1>3, <1>7
  <2>2. Stays(node[n], new[n])
    BY <1>7, UpdatedInv DEF new
  <2> QED BY <2>1, <2>2
<1> QED BY <1>5, <1>6, <1>7 DEF NodeInv

-----------------------------------------------------------------------------

(* No step of the code does more to the nodes there are. *)
Harmless == \A n \in DOMAIN node : Stays(node[n], node'[n])

(* A step that writes no node. *)
LEMMA SameNodes == ASSUME NodeInv, UNCHANGED node PROVE NodeInv' /\ Harmless
BY DEF NodeInv, Harmless, Stays

(* A step of one thread. *)
LEMMA Moved ==
    ASSUME LocalInv, NEW t \in All, NEW to, NEW w,
           pc' = [pc EXCEPT ![t] = to], loc' = [loc EXCEPT ![t] = w], Place(to, w)
    PROVE  LocalInv'
BY DEF LocalInv

(* The same for a step that writes no node. *)
LEMMA Stepped ==
    ASSUME Inv, NEW t \in All, NEW to, NEW w, Step(t, to, w), Place(to, w)
    PROVE  Inv' /\ Harmless
BY Moved, SameNodes DEF Inv, Step, Go

(* The fields of the locals. *)
Locals ==
    {"fn", "k", "result", "i", "todo", "path", "vers", "pred", "succ", "n", "nVer", "nH", "nKey",
     "p", "pVer", "a", "aVer", "side", "d", "double", "l", "lVer", "lh", "r", "rVer", "rh",
     "c", "cVer", "cH", "light", "lightVer", "lightH", "outer", "outerVer", "outerH",
     "inner", "innerVer", "innerH", "in1", "in1Ver", "in1H", "in2", "in2Ver", "in2H",
     "s", "sVer", "sKey", "sp", "spVer", "sr", "srVer"}

(* Their names are those of NoLocals. *)
LEMMA LocalsFields == DOMAIN NoLocals = Locals
BY DEF NoLocals, Locals

(* Locals as a function starts with them. *)
Fresh(v) ==
    DOMAIN v = DOMAIN NoLocals /\ v.side \in Sides /\ v.d \in Sides /\ v.i = 1 /\ v.s = Null

(* So are those of a thread that is not in a call. *)
LEMMA NoLocalsFresh == Fresh(NoLocals)
BY DEF Fresh, NoLocals, Sides

(* The locals that Frame leaves are fresh. *)
LEMMA FrameFresh == ASSUME NEW v PROVE Fresh(Frame(v))
<1>1. Fresh([NoLocals EXCEPT !.fn = v.fn, !.k = v.k, !.result = v.result])
  <2> QED BY NoLocalsFresh, LocalsFields DEF Fresh, Locals
<1> QED BY <1>1 DEF Frame

(* The locals that Answer leaves are fresh. *)
LEMMA AnswerFresh == ASSUME NEW v, NEW r PROVE Fresh(Answer(v, r))
<1>1. Fresh([NoLocals EXCEPT !.fn = v.fn, !.k = v.k, !.result = r])
  BY NoLocalsFresh, LocalsFields DEF Fresh, Locals
<1> QED BY <1>1 DEF Answer

(* The locals of a search that begins are fresh. *)
LEMMA RestartFresh == ASSUME NEW v PROVE Fresh(Restart(v))
<1>1. Fresh([Frame(v) EXCEPT !.n = MaxRoot])
  BY FrameFresh, LocalsFields DEF Fresh, Locals
<1> QED BY <1>1 DEF Restart

(* Nothing is known yet of the versions at these places. *)
Anywhere == {"idle", "Return", "SearchVer", "SearchKey", "SearchChild", "ValidatePath", "Recheck", "Climb"}

(* There it is enough that the locals have their types. *)
LEMMA PlaceAnywhere ==
    ASSUME NEW v, DOMAIN v = DOMAIN NoLocals, v.side \in Sides, v.d \in Sides, v.i \in Nat \ {0},
           NEW p \in Anywhere
    PROVE  Place(p, v)
BY DEF Place, Anywhere, Inserting, EraseSimple, GetSuccessor, Rotating

(* Fresh locals will do there, and where rebalance begins with a node. *)
LEMMA FreshAnywhere ==
    ASSUME NEW v, Fresh(v), NEW p \in Anywhere \cup {"Neighbours"}
    PROVE  Place(p, v)
BY DEF Fresh, Place, Anywhere, Inserting, EraseSimple, GetSuccessor, Rotating

(* A call that starts over. *)
LEMMA RetryInv ==
    ASSUME Inv, NEW t \in All, NEW v, Retry(t, v) PROVE Inv' /\ Harmless
<1>1. Place("SearchVer", Restart(v))
  BY RestartFresh, FreshAnywhere DEF Anywhere
<1> QED BY <1>1, Stepped DEF Retry

(* A call that answers. *)
LEMMA AnswerInv ==
    ASSUME Inv, NEW t \in All, NEW v, NEW r, Step(t, "Return", Answer(v, r))
    PROVE  Inv' /\ Harmless
<1>1. Place("Return", Answer(v, r))
  BY AnswerFresh, FreshAnywhere DEF Anywhere
<1> QED BY <1>1, Stepped

(* The next node to rebalance, or the answer. *)
LEMMA GoRebalanceInv ==
    ASSUME LocalInv, NEW t \in All, NEW v, NEW todo, GoRebalance(t, v, todo)
    PROVE  LocalInv'
<1> DEFINE left == SelectSeq(todo, LAMBDA n : n # MinRoot)
           w == [Frame(v) EXCEPT !.todo = left, !.n = Head(left)]
<1>1. Place("Return", Frame(v))
  BY FrameFresh, FreshAnywhere DEF Anywhere
<1>2. Place("Neighbours", w)
  <2> HIDE DEF left
  <2>1. Fresh(w)
    BY FrameFresh, LocalsFields DEF Fresh, Locals
  <2> QED BY <2>1, FreshAnywhere
<1>3. Go(t, "Return", Frame(v)) \/ Go(t, "Neighbours", w)
  BY DEF GoRebalance
<1> HIDE DEF w
<1> QED BY <1>1, <1>2, <1>3, Moved DEF Go

(* rebalance starts over or returns. *)
LEMMA AgainInv ==
    ASSUME Inv, NEW t \in All, NEW v, Again(t, v) \/ Returns(t, v) PROVE Inv' /\ Harmless
BY GoRebalanceInv, SameNodes DEF Inv, Again, Returns

(* The nodes after an update. *)
LEMMA UpdatedNodes ==
    ASSUME NodeInv, NEW update, Applies(update), Tested(update), node' = Updated(update)
    PROVE  NodeInv' /\ Harmless
<1> DEFINE new == Updated(update)
<1>1. /\ new \in Seq(Range(new)) /\ DOMAIN new = DOMAIN node
      /\ \A n \in DOMAIN node :
           /\ new[n] = [f \in Words |-> new[n][f]]
           /\ new[n].ver \in Nat
           /\ Stays(node[n], new[n])
  BY UpdatedInv
<1>2. node' = new
  OBVIOUS
<1> HIDE DEF new
<1>3. Harmless
  BY <1>1, <1>2 DEF Harmless
<1> QED BY <1>1, <1>2, <1>3 DEF NodeInv

(* A thread that has updated the nodes goes on to rebalance. *)
LEMMA UpdateInv ==
    ASSUME Inv, NEW t \in All, NEW v, NEW update, NEW todo,
           Applies(update), Tested(update), node' = Updated(update), GoRebalance(t, v, todo)
    PROVE  Inv' /\ Harmless
<1>1. NodeInv' /\ Harmless
  BY UpdatedNodes DEF Inv
<1> QED BY <1>1, GoRebalanceInv DEF Inv

-----------------------------------------------------------------------------
(* Loads *)

(* A load of a script whose test succeeds. *)
LEMMA LoadPlace ==
    ASSUME NEW p \in DOMAIN Script, NEW v, Place(p, v), v.i <= Len(Script[p]),
           NEW w, w = Script[p][v.i], w.of = "s" => v.s # Null,
           NEW next, DOMAIN next = DOMAIN v, next.i = v.i + 1,
           \A x \in Locals : x \notin {w.into, "i"} => next[x] = v[x],
           \A x \in w.tested : Free(next[x])
    PROVE  Place(p, next)
<1>1. /\ DOMAIN v = DOMAIN NoLocals /\ v.side \in Sides /\ v.d \in Sides
      /\ v.i \in Nat \ {0} /\ v.i <= Len(Script[p])
  BY DEF Place
<1>2. CASE p = "Neighbours"
  <2>1. /\ v.i \in 1 .. Len(Script["Neighbours"]) /\ w = Script["Neighbours"][v.i]
        /\ w.into \in Locals /\ w.into \notin {"i", "side", "d", "s", "double"}
    BY <1>2, <1>1, NeighboursScript DEF Locals
  <2> QED BY <1>2, <1>1, <2>1, NeighboursScript
          DEF Place, Locals, Inserting, EraseSimple, GetSuccessor, Rotating
<1>3. CASE p = "Heavy"
  <2>1. /\ v.i \in 1 .. Len(Script["Heavy"]) /\ w = Script["Heavy"][v.i]
        /\ w.into \in Locals /\ w.into \notin {"i", "side", "d", "s", "double"}
    BY <1>3, <1>1, HeavyScript DEF Locals
  <2> QED BY <1>3, <1>1, <2>1, HeavyScript
          DEF Place, Locals, Inserting, EraseSimple, GetSuccessor, Rotating
<1>4. CASE p = "FixHeight"
  <2>1. /\ v.i \in 1 .. Len(Script["FixHeight"]) /\ w = Script["FixHeight"][v.i]
        /\ w.into \in Locals /\ w.into \notin {"i", "side", "d", "s", "double"}
    BY <1>4, <1>1, FixHeightScript DEF Locals
  <2> QED BY <1>4, <1>1, <2>1, FixHeightScript
          DEF Place, Locals, Inserting, EraseSimple, GetSuccessor, Rotating
<1>5. CASE p = "Rotate"
  <2>1. /\ v.i \in 1 .. Len(Script["Rotate"]) /\ w = Script["Rotate"][v.i]
        /\ w.into \in Locals /\ w.into \notin {"i", "side", "d", "s", "double"}
    BY <1>5, <1>1, RotateScript DEF Locals
  <2> QED BY <1>5, <1>1, <2>1, RotateScript
          DEF Place, Locals, Inserting, EraseSimple, GetSuccessor, Rotating
<1>6. CASE p = "RotateTwice"
  <2>1. /\ v.i \in 1 .. Len(Script["RotateTwice"]) /\ w = Script["RotateTwice"][v.i]
        /\ w.into \in Locals /\ w.into \notin {"i", "side", "d", "s", "double"}
    BY <1>6, <1>1, RotateTwiceScript DEF Locals
  <2> QED BY <1>6, <1>1, <2>1, RotateTwiceScript
          DEF Place, Locals, Inserting, EraseSimple, GetSuccessor, Rotating
<1>7. CASE p = "EraseTwoChild"
  <2>1. /\ v.i \in 1 .. Len(Script["EraseTwoChild"]) /\ w = Script["EraseTwoChild"][v.i]
        /\ w.into \in Locals /\ w.into \notin {"i", "side", "d", "s", "double"}
    BY <1>7, <1>1, EraseTwoChildScript DEF Locals
  <2> QED BY <1>7, <1>1, <2>1, EraseTwoChildScript
          DEF Place, Locals, Inserting, EraseSimple, GetSuccessor, Rotating
<1>8. p \in {"Neighbours", "Heavy", "FixHeight", "Rotate", "RotateTwice", "EraseTwoChild"}
  BY DEF Script
<1> QED BY <1>2, <1>3, <1>4, <1>5, <1>6, <1>7, <1>8

(* What is read goes into a local variable. *)
LEMMA ScriptInto ==
    ASSUME NEW p \in DOMAIN Script, NEW i \in Nat \ {0}, i <= Len(Script[p])
    PROVE  Script[p][i].into \in Locals \ {"i"}
<1>1. p \in {"Neighbours", "Heavy", "FixHeight", "Rotate", "RotateTwice", "EraseTwoChild"}
  BY DEF Script
<1>2. CASE p = "Neighbours"
  BY <1>2, NeighboursScript DEF Locals
<1>3. CASE p = "Heavy"
  BY <1>3, HeavyScript DEF Locals
<1>4. CASE p = "FixHeight"
  BY <1>4, FixHeightScript DEF Locals
<1>5. CASE p = "Rotate"
  BY <1>5, RotateScript DEF Locals
<1>6. CASE p = "RotateTwice"
  BY <1>6, RotateTwiceScript DEF Locals
<1>7. CASE p = "EraseTwoChild"
  BY <1>7, EraseTwoChildScript DEF Locals
<1> QED BY <1>1, <1>2, <1>3, <1>4, <1>5, <1>6, <1>7

(* A load, whether it goes on, gives up, or follows a null pointer. *)
LEMMA LoadInv ==
    ASSUME Inv, NEW t \in All, pc[t] \in DOMAIN Script, loc[t].i <= Len(Script[pc[t]]),
           Load(t, loc[t])
    PROVE  Inv' /\ Harmless
<1> DEFINE v == loc[t]
           w == Script[pc[t]][v.i]
           next == [v EXCEPT ![w.into] = Value(v, w), !.i = @ + 1]
<1>1. CASE Die
  <2>1. UNCHANGED <<node, pc, loc>>
    BY <1>1 DEF Die
  <2> QED BY <2>1, SameNodes DEF Inv, LocalInv
<1>2. CASE Abandon(t, next)
  <2> HIDE DEF next
  <2> QED BY <1>2, RetryInv, AgainInv DEF Abandon
<1>3. ASSUME w.of = "s" => v.s # Null, \A x \in w.tested : Free(next[x]), Step(t, pc[t], next)
      PROVE  Inv' /\ Harmless
  <2>1. Place(pc[t], v)
    BY DEF Inv, LocalInv
  <2>2. /\ DOMAIN v = Locals /\ v.i \in Nat \ {0} /\ w.into \in Locals \ {"i"}
    BY <2>1, LocalsFields, ScriptInto DEF Place
  <2>3. /\ DOMAIN next = DOMAIN v /\ next.i = v.i + 1
        /\ \A x \in Locals : x \notin {w.into, "i"} => next[x] = v[x]
    BY <2>2 DEF Locals
  <2>4. Place(pc[t], next)
    <3> HIDE DEF next
    <3> QED BY <1>3, <2>1, <2>3, LoadPlace
  <2> HIDE DEF next
  <2> QED BY <1>3, <2>4, Stepped
<1>4. \/ Die
      \/ Abandon(t, next)
      \/ /\ w.of = "s" => v.s # Null
         /\ \A x \in w.tested : Free(next[x])
         /\ Step(t, pc[t], next)
  BY DEF Load, Guarded, Free
<1> QED BY <1>1, <1>2, <1>3, <1>4

-----------------------------------------------------------------------------
(* searchHelper *)

(* What is known where a thread stands. *)
LEMMA Here == ASSUME Inv, NEW t \in All PROVE Place(pc[t], loc[t])
BY DEF Inv, LocalInv

(* What each place has in common. *)
LEMMA Common ==
    ASSUME NEW p, NEW v, Place(p, v)
    PROVE  DOMAIN v = Locals /\ DOMAIN v = DOMAIN NoLocals
           /\ v.side \in Sides /\ v.d \in Sides /\ v.i \in Nat \ {0}
BY LocalsFields DEF Place

(* A node is entered: its version goes on the path. *)
LEMMA SearchVerInv ==
    ASSUME Inv, NEW t \in All, SearchVer(t, loc[t]) PROVE Inv' /\ Harmless
<1> DEFINE v == loc[t]
           w == [v EXCEPT !.path = Append(@, v.n), !.vers = Append(@, node[v.n].ver)]
           u == [w EXCEPT !.side = "left"]
<1>1. Place("SearchKey", w) /\ Place("SearchChild", u)
  <2>1. /\ DOMAIN w = DOMAIN NoLocals /\ w.side \in Sides /\ w.d \in Sides /\ w.i \in Nat \ {0}
        /\ DOMAIN u = DOMAIN NoLocals /\ u.side \in Sides /\ u.d \in Sides /\ u.i \in Nat \ {0}
    BY Here, Common DEF Locals, Sides
  <2> HIDE DEF u, w
  <2> QED BY <2>1, PlaceAnywhere DEF Anywhere
<1>2. Step(t, "SearchChild", u) \/ Step(t, "SearchKey", w)
  BY DEF SearchVer
<1> HIDE DEF u, w
<1> QED BY <1>1, <1>2, Stepped

(* The key is found; an erasure goes on with two versions that are not marked. *)
LEMMA FoundInv ==
    ASSUME Inv, NEW t \in All, NEW v, Found(t, v) PROVE Inv' /\ Harmless
<1> DEFINE sz == Len(v.path)
           w == [Frame(v) EXCEPT !.n = v.path[sz], !.nVer = v.vers[sz],
                                 !.p = v.path[sz - 1], !.pVer = v.vers[sz - 1]]
<1>1. ASSUME Free(w.pVer), Free(w.nVer), Step(t, "EraseLeft", w)
      PROVE  Inv' /\ Harmless
  <2>1. Fresh(w)
    BY FrameFresh, LocalsFields DEF Fresh, Locals
  <2> HIDE DEF w
  <2>2. Place("EraseLeft", w)
    BY <1>1, <2>1 DEF Place, Fresh, Inserting, EraseSimple, GetSuccessor, Rotating
  <2> QED BY <1>1, <2>2, Stepped
<1> QED BY <1>1, AnswerInv, RetryInv DEF Found, Free

(* The key decides where to go. *)
LEMMA SearchKeyInv ==
    ASSUME Inv, NEW t \in All, SearchKey(t, loc[t]) PROVE Inv' /\ Harmless
<1> DEFINE v == loc[t]
           right == [v EXCEPT !.pred = Len(v.path), !.side = "right"]
           left == [v EXCEPT !.succ = Len(v.path), !.side = "left"]
<1>1. Place("SearchChild", right) /\ Place("SearchChild", left)
  <2>1. /\ DOMAIN right = DOMAIN NoLocals /\ right.side \in Sides /\ right.d \in Sides
        /\ right.i \in Nat \ {0}
        /\ DOMAIN left = DOMAIN NoLocals /\ left.side \in Sides /\ left.d \in Sides
        /\ left.i \in Nat \ {0}
    BY Here, Common DEF Locals, Sides
  <2> HIDE DEF left, right
  <2> QED BY <2>1, PlaceAnywhere DEF Anywhere
<1>2. Step(t, "SearchChild", right) \/ Step(t, "SearchChild", left) \/ Found(t, v)
  BY DEF SearchKey
<1> HIDE DEF left, right
<1> QED BY <1>1, <1>2, Stepped, FoundInv

(* The child is followed, or the path ends. *)
LEMMA SearchChildInv ==
    ASSUME Inv, NEW t \in All, SearchChild(t, loc[t]) PROVE Inv' /\ Harmless
<1> DEFINE v == loc[t]
           w == [v EXCEPT !.n = node[v.n][v.side]]
<1>1. Place("ValidatePath", w) /\ Place("SearchVer", w)
  <2>1. DOMAIN w = DOMAIN NoLocals /\ w.side \in Sides /\ w.d \in Sides /\ w.i \in Nat \ {0}
    BY Here, Common DEF Locals, Sides
  <2> HIDE DEF w
  <2> QED BY <2>1, PlaceAnywhere DEF Anywhere
<1>2. Step(t, "ValidatePath", w) \/ Step(t, "SearchVer", w)
  BY DEF SearchChild
<1> HIDE DEF w
<1> QED BY <1>1, <1>2, Stepped

(* The path is tested; an insertion goes on with the tested version of its end. *)
LEMMA ValidatePathInv ==
    ASSUME Inv, NEW t \in All, ValidatePath(t, loc[t]) PROVE Inv' /\ Harmless
<1> DEFINE v == loc[t]
           sz == Len(v.path)
           a == Min2(v.pred, v.succ)
           w == [Frame(v) EXCEPT !.a = v.path[a], !.aVer = v.vers[a],
                                 !.p = v.path[sz], !.pVer = v.vers[sz]]
           next == [v EXCEPT !.i = @ + 1]
<1>1. CASE Retry(t, v)
  BY <1>1, RetryInv
<1>2. ASSUME Free(v.vers[sz]), NotFound(t, v) PROVE Inv' /\ Harmless
  <2>1. CASE Step(t, "InsertRight", w)
    <3>1. Fresh(w) /\ w.pVer = v.vers[sz]
      <4> HIDE DEF a, sz
      <4> QED BY FrameFresh, LocalsFields DEF Fresh, Locals
    <3> HIDE DEF w
    <3>2. Place("InsertRight", w)
      BY <1>2, <3>1 DEF Place, Fresh, Inserting, EraseSimple, GetSuccessor, Rotating
    <3> QED BY <2>1, <3>2, Stepped
  <2>2. CASE Step(t, "Return", Answer(v, FALSE))
    BY <2>2, AnswerInv
  <2> QED BY <1>2, <2>1, <2>2 DEF NotFound
<1>3. CASE Step(t, "ValidatePath", next)
  <2>1. /\ DOMAIN next = DOMAIN NoLocals /\ next.side \in Sides /\ next.d \in Sides
        /\ next.i \in Nat \ {0}
    BY Here, Common DEF Locals, Sides
  <2> HIDE DEF next
  <2> QED BY <1>3, <2>1, PlaceAnywhere, Stepped DEF Anywhere
<1> QED BY <1>1, <1>2, <1>3 DEF ValidatePath, Free

-----------------------------------------------------------------------------
(* insertIfAbsent *)

(* insertIfAbsent looks for the side. *)
LEMMA InsertLookInv ==
    ASSUME Inv, NEW t \in All,
           \/ At(t, "InsertRight") /\ InsertRight(t, loc[t])
           \/ At(t, "InsertLeft") /\ InsertLeft(t, loc[t])
    PROVE  Inv' /\ Harmless
<1> DEFINE v == loc[t]
           right == [v EXCEPT !.side = "right"]
           left == [v EXCEPT !.side = "left"]
<1>1. Place(pc[t], v) /\ pc[t] \in {"InsertRight", "InsertLeft"}
  BY Here DEF At
<1>2. Free(v.pVer)
  BY <1>1 DEF Place, Inserting
<1>3. Place("InsertLeft", v)
  BY <1>1, <1>2 DEF Place, Inserting, EraseSimple, GetSuccessor, Rotating
<1>4. Place("InsertExecute", right) /\ Place("InsertExecute", left)
  <2>1. /\ DOMAIN right = DOMAIN NoLocals /\ right.side \in Sides /\ right.d \in Sides
        /\ right.i \in Nat \ {0} /\ right.pVer = v.pVer
        /\ DOMAIN left = DOMAIN NoLocals /\ left.side \in Sides /\ left.d \in Sides
        /\ left.i \in Nat \ {0} /\ left.pVer = v.pVer
    BY <1>1, Common DEF Locals, Sides
  <2> HIDE DEF left, right
  <2> QED BY <1>2, <2>1 DEF Place, Inserting, EraseSimple, GetSuccessor, Rotating
<1>5. \/ Step(t, "InsertExecute", right) \/ Step(t, "InsertExecute", left)
      \/ Step(t, "InsertLeft", v) \/ Retry(t, v)
  BY DEF InsertRight, InsertLeft
<1> HIDE DEF left, right
<1> QED BY <1>3, <1>4, <1>5, Stepped, RetryInv

(* The update of insertIfAbsent. *)
LEMMA InsertExecuteInv ==
    ASSUME Inv, NEW t \in All, At(t, "InsertExecute"), InsertExecute(t, loc[t])
    PROVE  Inv' /\ Harmless
<1> DEFINE v == loc[t]
           update == InsertUpdate(v, Len(node) + 1)
           w == [v EXCEPT !.result = TRUE]
<1>1. Tested(update)
  <2>1. Free(v.pVer) /\ v.side \in Sides
    BY Here DEF At, Place, Inserting
  <2> QED BY <2>1 DEF Tested, InsertUpdate, Entry, Keep, Bump, Sides
<1>2. CASE Applies(update)
  <2>1. node' = Append(Updated(update), NewNode(v.k, v.p)) /\ GoRebalance(t, w, <<v.p>>)
    BY <1>2 DEF InsertExecute
  <2> HIDE DEF update, w
  <2>2. NodeInv' /\ Harmless
    BY <1>1, <1>2, <2>1, AppendInv DEF Inv, Harmless
  <2> QED BY <2>1, <2>2, GoRebalanceInv DEF Inv
<1>3. CASE ~Applies(update)
  BY <1>3, RetryInv DEF InsertExecute
<1> QED BY <1>2, <1>3

-----------------------------------------------------------------------------
(* erase *)

Erasing == EraseSimple \cup GetSuccessor

(* A step while the update of an erasure is prepared: the versions of n    *)
(* and p stay as they were tested.                                         *)
LEMMA ErasingPlace ==
    ASSUME NEW p \in Erasing, NEW v, Place(p, v),
           NEW q \in Erasing \cup {"EraseTwoChild", "EraseLink"}, NEW w,
           DOMAIN w = DOMAIN v, w.side \in Sides, w.d \in Sides, w.i = v.i,
           w.nVer = v.nVer, w.pVer = v.pVer,
           q \in EraseSimple => w.s = Null,
           q = "EraseTwoChild" /\ w.s # Null => Free(w.sVer) /\ Free(w.spVer),
           q = "EraseLink" => w.s = Null /\ (w.r = Null \/ Free(w.rVer))
    PROVE  Place(q, w)
BY DEF Place, Erasing, Inserting, EraseSimple, GetSuccessor, Rotating

(* erase looks for children, and eraseSimple prepares its update. *)
LEMMA EraseSimpleInv ==
    ASSUME Inv, NEW t \in All,
           \/ At(t, "EraseLeft") /\ EraseLeft(t, loc[t])
           \/ At(t, "EraseRight") /\ EraseRight(t, loc[t])
           \/ At(t, "SimpleTest") /\ SimpleTest(t, loc[t])
           \/ At(t, "SimpleChild") /\ SimpleChild(t, loc[t])
           \/ At(t, "SimpleVer") /\ SimpleVer(t, loc[t])
    PROVE  Inv' /\ Harmless
<1> DEFINE v == loc[t]
<1>1. /\ pc[t] \in Erasing /\ pc[t] \in EraseSimple /\ Place(pc[t], v) /\ v.s = Null
      /\ DOMAIN v = Locals /\ v.side \in Sides /\ v.d \in Sides
  BY Here, Common DEF At, Place, Erasing, EraseSimple
<1>2. CASE EraseLeft(t, v)
  <2> DEFINE w == [v EXCEPT !.l = node[v.n].left]
  <2>1. Place("EraseRight", w)
    BY <1>1, ErasingPlace DEF Erasing, EraseSimple, Locals
  <2> QED BY <1>2, <2>1, Stepped DEF EraseLeft
<1>3. CASE EraseRight(t, v)
  <2> DEFINE w == [v EXCEPT !.l = Null, !.side = "left"]
             u == [v EXCEPT !.l = Null]
  <2>1. Place("SimpleTest", w)
    <3>1. /\ DOMAIN w = DOMAIN v /\ w.side \in Sides /\ w.d \in Sides /\ w.i = v.i
        /\ w.nVer = v.nVer /\ w.pVer = v.pVer /\ w.s = Null
      BY <1>1 DEF Locals, Sides
    <3> HIDE DEF w
    <3> QED BY <1>1, <3>1, ErasingPlace DEF Erasing, EraseSimple
  <2>2. Place("Successor", u)
    BY <1>1, ErasingPlace DEF Erasing, EraseSimple, GetSuccessor, Locals
  <2>3. Step(t, "SimpleTest", w) \/ Step(t, "Successor", u)
    BY <1>3 DEF EraseRight
  <2> HIDE DEF w, u
  <2> QED BY <2>1, <2>2, <2>3, Stepped
<1>4. CASE SimpleTest(t, v)
  <2> DEFINE w == [v EXCEPT !.side = "right"]
             u == [v EXCEPT !.r = Null]
  <2>1. Place("SimpleChild", v)
    BY <1>1, ErasingPlace DEF Erasing, EraseSimple
  <2>2. Place("SimpleTest", w)
    <3>1. /\ DOMAIN w = DOMAIN v /\ w.side \in Sides /\ w.d \in Sides /\ w.i = v.i
        /\ w.nVer = v.nVer /\ w.pVer = v.pVer /\ w.s = Null
      BY <1>1 DEF Locals, Sides
    <3> HIDE DEF w
    <3> QED BY <1>1, <3>1, ErasingPlace DEF Erasing, EraseSimple
  <2>3. Place("EraseLink", u)
    BY <1>1, ErasingPlace DEF Erasing, EraseSimple, GetSuccessor, Locals
  <2>4. Step(t, "SimpleChild", v) \/ Step(t, "SimpleTest", w) \/ Step(t, "EraseLink", u)
    BY <1>4 DEF SimpleTest
  <2> HIDE DEF w, u
  <2> QED BY <2>1, <2>2, <2>3, <2>4, Stepped
<1>5. CASE SimpleChild(t, v)
  <2> DEFINE r == node[v.n][v.side]
             w == [v EXCEPT !.r = r]
  <2>1. r = Null => Place("EraseLink", w)
    BY <1>1, ErasingPlace DEF Erasing, EraseSimple, GetSuccessor, Locals
  <2>2. Place("SimpleVer", w)
    BY <1>1, ErasingPlace DEF Erasing, EraseSimple, Locals
  <2>3. (r = Null /\ Step(t, "EraseLink", w)) \/ Step(t, "SimpleVer", w)
    BY <1>5 DEF SimpleChild
  <2> HIDE DEF w, r
  <2> QED BY <2>1, <2>2, <2>3, Stepped
<1>6. CASE SimpleVer(t, v)
  <2> DEFINE ver == node[v.r].ver
             w == [v EXCEPT !.rVer = ver]
  <2>1. Free(ver) => Place("EraseLink", w)
    BY <1>1, ErasingPlace DEF Erasing, EraseSimple, GetSuccessor, Locals
  <2>2. Retry(t, v) \/ (Free(ver) /\ Step(t, "EraseLink", w))
    BY <1>6 DEF SimpleVer, Free
  <2> HIDE DEF w, ver
  <2> QED BY <2>1, <2>2, Stepped, RetryInv
<1> QED BY <1>2, <1>3, <1>4, <1>5, <1>6

(* getSuccessor: it returns two versions that are not marked, or null. *)
LEMMA SuccessorInv ==
    ASSUME Inv, NEW t \in All,
           \/ At(t, "Successor") /\ Successor(t, loc[t])
           \/ At(t, "SuccessorParent") /\ SuccessorParent(t, loc[t])
           \/ At(t, "SuccessorVer") /\ SuccessorVer(t, loc[t])
           \/ At(t, "SuccessorLeft") /\ SuccessorLeft(t, loc[t])
           \/ At(t, "SuccessorDown") /\ SuccessorDown(t, loc[t])
    PROVE  Inv' /\ Harmless
<1> DEFINE v == loc[t]
<1>1. /\ pc[t] \in Erasing /\ Place(pc[t], v)
      /\ DOMAIN v = Locals /\ v.side \in Sides /\ v.d \in Sides
  BY Here, Common DEF At, Erasing, GetSuccessor
<1>2. CASE Successor(t, v)
  <2> DEFINE s == node[v.n].right
             w == [v EXCEPT !.s = s, !.sp = v.n]
  <2>1. Place("SuccessorParent", w) /\ (s = Null => Place("EraseTwoChild", w))
    <3>1. /\ DOMAIN w = DOMAIN v /\ w.side \in Sides /\ w.d \in Sides /\ w.i = v.i
        /\ w.nVer = v.nVer /\ w.pVer = v.pVer /\ w.s = s
      <4> HIDE DEF s
      <4> QED BY <1>1 DEF Locals
    <3> HIDE DEF w, s
    <3> QED BY <1>1, <3>1, ErasingPlace DEF Erasing, EraseSimple, GetSuccessor
  <2>2. Step(t, IF s = Null THEN "EraseTwoChild" ELSE "SuccessorParent", w)
    BY <1>2 DEF Successor
  <2> HIDE DEF w, s
  <2> QED BY <2>1, <2>2, Stepped
<1>3. CASE SuccessorParent(t, v)
  <2> DEFINE w == [v EXCEPT !.spVer = node[v.n].ver]
  <2>1. Place("SuccessorVer", w)
    BY <1>1, ErasingPlace DEF Erasing, EraseSimple, GetSuccessor, Locals
  <2> QED BY <1>3, <2>1, Stepped DEF SuccessorParent
<1>4. CASE SuccessorVer(t, v)
  <2> DEFINE w == [v EXCEPT !.sVer = node[v.s].ver]
  <2>1. Place("SuccessorLeft", w)
    BY <1>1, ErasingPlace DEF Erasing, EraseSimple, GetSuccessor, Locals
  <2>2. CASE Die
    <3>1. UNCHANGED <<node, pc, loc>>
      BY <2>2 DEF Die
    <3> QED BY <3>1, SameNodes DEF Inv, LocalInv
  <2>3. CASE Step(t, "SuccessorLeft", w)
    <3> HIDE DEF w
    <3> QED BY <2>1, <2>3, Stepped
  <2> QED BY <1>4, <2>2, <2>3 DEF SuccessorVer
<1>5. CASE SuccessorLeft(t, v)
  <2> DEFINE w == [v EXCEPT !.s = Null]
  <2>1. Place("SuccessorDown", v)
    BY <1>1, ErasingPlace DEF Erasing, EraseSimple, GetSuccessor
  <2>2. Place("EraseTwoChild", w)
    BY <1>1, ErasingPlace DEF Erasing, EraseSimple, GetSuccessor, Locals
  <2>3. Free(v.sVer) /\ Free(v.spVer) => Place("EraseTwoChild", v)
    BY <1>1, ErasingPlace DEF Erasing, EraseSimple, GetSuccessor
  <2>4. \/ Step(t, "SuccessorDown", v)
        \/ Step(t, "EraseTwoChild", w)
        \/ Free(v.sVer) /\ Free(v.spVer) /\ Step(t, "EraseTwoChild", v)
    BY <1>5 DEF SuccessorLeft, Free
  <2> HIDE DEF w
  <2> QED BY <2>1, <2>2, <2>3, <2>4, Stepped
<1>6. CASE SuccessorDown(t, v)
  <2> DEFINE s == node[v.s].left
             w == [v EXCEPT !.sp = v.s, !.spVer = v.sVer, !.s = s]
  <2>1. Place("SuccessorVer", w)
    <3>1. /\ DOMAIN w = DOMAIN v /\ w.side \in Sides /\ w.d \in Sides /\ w.i = v.i
        /\ w.nVer = v.nVer /\ w.pVer = v.pVer
      <4> HIDE DEF s
      <4> QED BY <1>1 DEF Locals
    <3> HIDE DEF w
    <3> QED BY <1>1, <3>1, ErasingPlace DEF Erasing, EraseSimple, GetSuccessor
  <2> QED BY <1>6, <2>1, Stepped DEF SuccessorDown
<1> QED BY <1>2, <1>3, <1>4, <1>5, <1>6

(* eraseTwoChild has loaded all it needs. *)
LEMMA EraseReadyInv ==
    ASSUME Inv, NEW t \in All, Done(t, "EraseTwoChild"),
           Step(t, "EraseLink", [loc[t] EXCEPT !.i = 1])
    PROVE  Inv' /\ Harmless
<1> DEFINE v == loc[t]
           w == [v EXCEPT !.i = 1]
<1>1. /\ Place("EraseTwoChild", v) /\ v.i > 4
      /\ DOMAIN v = Locals /\ v.side \in Sides /\ v.d \in Sides /\ v.i \in Nat \ {0}
  BY Here, Common, EraseTwoChildScript DEF Done, At
<1>2. /\ Free(v.nVer) /\ Free(v.pVer) /\ v.s # Null
      /\ Free(v.sVer) /\ Free(v.spVer) /\ Free(v.srVer)
  BY <1>1 DEF Place
<1>3. /\ DOMAIN w = DOMAIN NoLocals /\ w.i = 1
      /\ \A x \in Locals \ {"i"} : w[x] = v[x]
  BY <1>1, LocalsFields DEF Locals
<1> HIDE DEF w
<1>4. Place("EraseLink", w)
  <2>1. /\ w.nVer = v.nVer /\ w.pVer = v.pVer /\ w.s = v.s /\ w.sVer = v.sVer
        /\ w.spVer = v.spVer /\ w.srVer = v.srVer /\ w.side = v.side /\ w.d = v.d
    BY <1>3 DEF Locals
  <2>2. w.side \in Sides /\ w.d \in Sides /\ w.i \in Nat \ {0}
    BY <1>1, <1>3, <2>1
  <2>3. /\ Free(w.nVer) /\ Free(w.pVer) /\ w.s # Null
        /\ Free(w.sVer) /\ Free(w.spVer) /\ Free(w.srVer)
    BY <1>2, <2>1
  <2>4. DOMAIN w = DOMAIN NoLocals
    BY <1>3
  <2> QED BY <2>2, <2>3, <2>4
          DEF Place, Inserting, EraseSimple, GetSuccessor, Rotating
<1> QED BY <1>4, Stepped DEF w

(* The updates of eraseSimple and eraseTwoChild. *)
LEMMA EraseExecuteInv ==
    ASSUME Inv, NEW t \in All, At(t, "EraseExecute"), EraseExecute(t, loc[t])
    PROVE  Inv' /\ Harmless
<1> DEFINE v == loc[t]
           update == IF v.s # Null THEN TwoChildUpdate(v) ELSE SimpleUpdate(v)
           w == [v EXCEPT !.result = TRUE]
           todo == <<IF v.s # Null THEN v.sp ELSE v.p>>
<1>1. Tested(update)
  <2>1. /\ Free(v.nVer) /\ Free(v.pVer) /\ v.side \in Sides
        /\ v.s = Null => v.r = Null \/ Free(v.rVer)
        /\ v.s # Null => Free(v.sVer) /\ Free(v.spVer) /\ Free(v.srVer)
    BY Here DEF At, Place
  <2>2. CASE v.s = Null
    BY <2>1, <2>2 DEF Tested, SimpleUpdate, Entry, Keep, Bump, Mark, Sides
  <2>3. CASE v.s # Null
    <3>1. \A e \in update : e.n # Null =>
             /\ e.field = "ver" => e.new \in {e.old, e.old + 1, e.old + 2}
      BY <2>1, <2>3 DEF TwoChildUpdate, Entry, Bump, Mark, Sides
    <3>2. /\ Bump(v.sr, v.srVer) \in update /\ Bump(v.sp, v.spVer) \in update
          /\ Mark(v.s, v.sVer) \in update
          /\ v.sp # v.n => Bump(v.n, v.nVer) \in update
      BY <2>3 DEF TwoChildUpdate
    <3>3. \A e \in update : e.n \in {v.sr, v.sp, v.s, v.n}
      BY <2>3 DEF TwoChildUpdate, Entry, Bump, Mark
    <3> HIDE DEF update
    <3>4. \A n \in {v.sr, v.sp, v.s, v.n} :
             \E b \in update : b.n = n /\ b.field = "ver" /\ Free(b.old)
      BY <2>1, <2>3, <3>2 DEF Entry, Bump, Mark
    <3> QED BY <3>1, <3>3, <3>4 DEF Tested
  <2> QED BY <2>2, <2>3
<1>2. CASE Applies(update)
  <2>1. node' = Updated(update) /\ GoRebalance(t, w, todo)
    BY <1>2 DEF EraseExecute
  <2> HIDE DEF update, w, todo
  <2> QED BY <1>1, <1>2, <2>1, UpdateInv
<1>3. CASE ~Applies(update)
  BY <1>3, RetryInv DEF EraseExecute
<1> QED BY <1>2, <1>3

-----------------------------------------------------------------------------
(* The test of a link, before an erasure or a rotation. *)

(* The link is on one side, on the other, or gone. *)
LEMMA LinkInv ==
    ASSUME Inv, NEW t \in All, At(t, "EraseLink") \/ At(t, "RotateLink"), Link(t, loc[t])
    PROVE  Inv' /\ Harmless
<1> DEFINE v == loc[t]
           found(side) == [v EXCEPT !.side = side, !.i = 1]
           other == [v EXCEPT !.i = 2]
<1>1. /\ Place(pc[t], v) /\ pc[t] \in {"EraseLink", "RotateLink"}
      /\ DOMAIN v = Locals /\ v.side \in Sides /\ v.d \in Sides /\ Other(v.d) \in Sides
  BY Here, Common DEF At, Other, Sides
<1>2. /\ Free(v.nVer) /\ Free(v.pVer)
      /\ pc[t] = "EraseLink" =>
           /\ v.s = Null => v.r = Null \/ Free(v.rVer)
           /\ v.s # Null => Free(v.sVer) /\ Free(v.spVer) /\ Free(v.srVer)
      /\ pc[t] = "RotateLink" => Free(v.cVer) /\ Free(v.innerVer)
  BY <1>1 DEF Place, Rotating
<1>3. ASSUME NEW side \in Sides
      PROVE  /\ DOMAIN found(side) = DOMAIN NoLocals /\ found(side).side = side
             /\ found(side).i = 1
             /\ \A x \in Locals \ {"i", "side"} : found(side)[x] = v[x]
  BY <1>1, LocalsFields DEF Locals
<1>4. /\ DOMAIN other = DOMAIN NoLocals /\ other.i = 2
      /\ \A x \in Locals \ {"i"} : other[x] = v[x]
  BY <1>1, LocalsFields DEF Locals
<1>5. ASSUME NEW side \in Sides, Step(t, AfterLink(t, v), found(side))
      PROVE  Inv' /\ Harmless
  <2> DEFINE w == found(side)
  <2>1. /\ DOMAIN w = DOMAIN NoLocals /\ w.side = side /\ w.i = 1
        /\ \A x \in Locals \ {"i", "side"} : w[x] = v[x]
    BY <1>3
  <2> HIDE DEF w
  <2>2. /\ w.d = v.d /\ w.nVer = v.nVer /\ w.pVer = v.pVer /\ w.s = v.s /\ w.r = v.r
        /\ w.rVer = v.rVer /\ w.sVer = v.sVer /\ w.spVer = v.spVer /\ w.srVer = v.srVer
        /\ w.cVer = v.cVer /\ w.innerVer = v.innerVer /\ w.double = v.double
    BY <2>1 DEF Locals
  <2>3. w.side \in Sides /\ w.d \in Sides /\ w.i \in Nat \ {0}
    BY <1>1, <2>1, <2>2
  <2>4. CASE pc[t] = "EraseLink"
    <3>1. Place("EraseExecute", w)
      BY <1>2, <2>1, <2>2, <2>3, <2>4 DEF Place, Inserting, EraseSimple, GetSuccessor, Rotating
    <3>2. AfterLink(t, v) = "EraseExecute"
      BY <2>4 DEF AfterLink
    <3>3. Step(t, AfterLink(t, v), w)
      BY <1>5 DEF w
    <3> QED BY <3>1, <3>2, <3>3, Stepped
  <2>5. CASE pc[t] = "RotateLink"
    <3>1. v.double => Place("RotateTwice", w)
      BY <1>2, <2>1, <2>2, <2>3, <2>5 DEF Place, Inserting, EraseSimple, GetSuccessor, Rotating
    <3>2. ~v.double => Place("Rotate", w)
      BY <1>2, <2>1, <2>2, <2>3, <2>5 DEF Place, Inserting, EraseSimple, GetSuccessor, Rotating
    <3>3. (v.double /\ AfterLink(t, v) = "RotateTwice") \/ (~v.double /\ AfterLink(t, v) = "Rotate")
      BY <2>5 DEF AfterLink
    <3>4. Step(t, AfterLink(t, v), w)
      BY <1>5 DEF w
    <3>5. Place(AfterLink(t, v), w)
      BY <3>1, <3>2, <3>3
    <3> QED BY <3>4, <3>5, Stepped
  <2> QED BY <1>1, <2>4, <2>5
<1>6. CASE Step(t, pc[t], other)
  <2> HIDE DEF other
  <2>1. /\ other.side = v.side /\ other.d = v.d /\ other.nVer = v.nVer /\ other.pVer = v.pVer
        /\ other.s = v.s /\ other.r = v.r /\ other.rVer = v.rVer /\ other.sVer = v.sVer
        /\ other.spVer = v.spVer /\ other.srVer = v.srVer
        /\ other.cVer = v.cVer /\ other.innerVer = v.innerVer
    BY <1>4 DEF Locals
  <2>2. other.side \in Sides /\ other.d \in Sides /\ other.i \in Nat \ {0}
    BY <1>1, <1>4, <2>1
  <2>3. Place(pc[t], other)
    <3>1. CASE pc[t] = "EraseLink"
      BY <1>2, <1>4, <2>1, <2>2, <3>1 DEF Place, Inserting, EraseSimple, GetSuccessor, Rotating
    <3>2. CASE pc[t] = "RotateLink"
      BY <1>2, <1>4, <2>1, <2>2, <3>2 DEF Place, Inserting, EraseSimple, GetSuccessor, Rotating
    <3> QED BY <1>1, <3>1, <3>2
  <2> QED BY <1>6, <2>3, Stepped
<1>7. \/ Step(t, AfterLink(t, v), found(Other(v.d))) \/ Step(t, AfterLink(t, v), found(v.d))
      \/ Step(t, pc[t], other) \/ Retry(t, v) \/ Again(t, v)
  BY DEF Link
<1> HIDE DEF found, other
<1> QED BY <1>1, <1>5, <1>6, <1>7, RetryInv, AgainInv

-----------------------------------------------------------------------------
(* rebalance *)

(* rebalance has seen n, its parent and its children, none of them marked. *)
LEMMA NeighboursInv ==
    ASSUME Inv, NEW t \in All, Done(t, "Neighbours"), Neighbours(t, loc[t])
    PROVE  Inv' /\ Harmless
<1> DEFINE v == loc[t]
           again == [v EXCEPT !.i = 1]
<1>1. /\ Place("Neighbours", v) /\ v.i > 9 /\ v.i \in Nat
      /\ DOMAIN v = Locals /\ v.side \in Sides /\ v.d \in Sides
  BY Here, Common, NeighboursScript DEF Done, At
<1>2. Free(v.nVer) /\ Free(v.pVer) /\ Free(v.lVer) /\ Free(v.rVer)
  BY <1>1 DEF Place
<1>3. ASSUME NEW d \in Sides PROVE Place("Heavy", Lean(v, d))
  <2> DEFINE c == IF d = "left" THEN v.l ELSE v.r
             cVer == IF d = "left" THEN v.lVer ELSE v.rVer
             light == IF d = "left" THEN v.r ELSE v.l
             w == [v EXCEPT !.d = d, !.i = 1, !.c = c, !.cVer = cVer, !.light = light]
  <2>1. Free(cVer)
    BY <1>2
  <2>2. /\ DOMAIN w = DOMAIN NoLocals /\ w.side \in Sides /\ w.d \in Sides /\ w.i = 1
        /\ w.nVer = v.nVer /\ w.pVer = v.pVer /\ w.cVer = cVer
    <3> HIDE DEF c, cVer, light
    <3> QED BY <1>1, LocalsFields DEF Locals
  <2>3. Lean(v, d) = w
    BY DEF Lean
  <2> HIDE DEF c, cVer, light, w
  <2> QED BY <1>2, <2>1, <2>2, <2>3 DEF Place, Inserting, EraseSimple, GetSuccessor, Rotating
<1>4. Place("FixHeight", again)
  <2>1. /\ DOMAIN again = DOMAIN NoLocals /\ again.side \in Sides /\ again.d \in Sides /\ again.i = 1
        /\ again.nVer = v.nVer /\ again.pVer = v.pVer
    BY <1>1, LocalsFields DEF Locals
  <2> HIDE DEF again
  <2> QED BY <1>2, <2>1 DEF Place, Inserting, EraseSimple, GetSuccessor, Rotating
<1>5. \/ Step(t, "Heavy", Lean(v, "left")) \/ Step(t, "Heavy", Lean(v, "right"))
      \/ Step(t, "FixHeight", again)
  BY DEF Neighbours
<1>6. Place("Heavy", Lean(v, "left")) /\ Place("Heavy", Lean(v, "right"))
  BY <1>3 DEF Sides
<1> HIDE DEF again
<1> QED BY <1>4, <1>5, <1>6, Stepped

(* rebalance has seen the children of the heavy child. *)
LEMMA HeavyInv ==
    ASSUME Inv, NEW t \in All, Done(t, "Heavy"), Heavy(t, loc[t])
    PROVE  Inv' /\ Harmless
<1> DEFINE v == loc[t]
           double == v.outerH < v.innerH
           w == [v EXCEPT !.double = double, !.i = 1]
<1>1. /\ Place("Heavy", v) /\ v.i > 6 /\ v.i \in Nat
      /\ DOMAIN v = Locals /\ v.side \in Sides /\ v.d \in Sides
  BY Here, Common, HeavyScript DEF Done, At
<1>2. Free(v.nVer) /\ Free(v.pVer) /\ Free(v.cVer) /\ Free(v.innerVer)
  BY <1>1 DEF Place, Rotating
<1>3. /\ DOMAIN w = DOMAIN NoLocals /\ w.side \in Sides /\ w.d \in Sides /\ w.i = 1
      /\ w.nVer = v.nVer /\ w.pVer = v.pVer /\ w.cVer = v.cVer /\ w.innerVer = v.innerVer
  <2> HIDE DEF double
  <2> QED BY <1>1, LocalsFields DEF Locals
<1> HIDE DEF w
<1>4. Place("RotateLink", w)
  BY <1>2, <1>3 DEF Place, Inserting, EraseSimple, GetSuccessor, Rotating
<1> QED BY <1>4, Stepped DEF Heavy, w

(* The update of fixHeight, or nothing to do. *)
LEMMA FixHeightInv ==
    ASSUME Inv, NEW t \in All, Done(t, "FixHeight"), FixHeight(t, loc[t])
    PROVE  Inv' /\ Harmless
<1> DEFINE v == loc[t]
           newHeight == 1 + Max2(v.lh, v.rh)
           update == {Keep(v.l, v.lVer), Keep(v.r, v.rVer),
                      Entry(v.n, "height", v.nH, newHeight), Bump(v.n, v.nVer)}
           w == [v EXCEPT !.i = 1]
<1>1. /\ Place("FixHeight", v)
      /\ DOMAIN v = Locals /\ v.side \in Sides /\ v.d \in Sides
      /\ v.i \in Nat \ {0} /\ DOMAIN v = DOMAIN NoLocals
  BY Here, Common DEF Done, At
<1>2. Tested(update)
  <2>1. Free(v.nVer)
    BY <1>1 DEF Place
  <2> HIDE DEF newHeight
  <2> QED BY <2>1 DEF Tested, Entry, Keep, Bump
<1>3. Place("Recheck", w)
  <2>1. /\ DOMAIN w = DOMAIN NoLocals /\ w.side \in Sides /\ w.d \in Sides /\ w.i \in Nat \ {0}
    BY <1>1, LocalsFields DEF Locals
  <2> HIDE DEF w
  <2> QED BY <2>1, PlaceAnywhere DEF Anywhere
<1>4. Place("Climb", v)
  BY <1>1, PlaceAnywhere DEF Anywhere
<1>5. CASE Applies(update) /\ node' = Updated(update) /\ Go(t, "Climb", v)
  <2> HIDE DEF update
  <2>1. NodeInv' /\ Harmless
    BY <1>2, <1>5, UpdatedNodes DEF Inv
  <2> QED BY <1>4, <1>5, <2>1, Moved DEF Inv, Go
<1>6. \/ Step(t, "Recheck", w)
      \/ Applies(update) /\ node' = Updated(update) /\ Go(t, "Climb", v)
      \/ Again(t, v)
  BY DEF FixHeight
<1> HIDE DEF w, update
<1> QED BY <1>3, <1>5, <1>6, Stepped, AgainInv

(* fixHeight tests what it had loaded. *)
LEMMA RecheckInv ==
    ASSUME Inv, NEW t \in All, Recheck(t, loc[t]) PROVE Inv' /\ Harmless
<1> DEFINE v == loc[t]
           w == [v EXCEPT !.i = @ + 1]
<1>1. Place("Recheck", w)
  <2>1. /\ DOMAIN w = DOMAIN NoLocals /\ w.side \in Sides /\ w.d \in Sides /\ w.i \in Nat \ {0}
    BY Here, Common DEF Locals
  <2> HIDE DEF w
  <2> QED BY <2>1, PlaceAnywhere DEF Anywhere
<1>2. Again(t, v) \/ Returns(t, v) \/ Step(t, "Recheck", w)
  BY DEF Recheck
<1> HIDE DEF w
<1> QED BY <1>1, <1>2, Stepped, AgainInv

(* rebalance goes on with the parent. *)
LEMMA ClimbInv ==
    ASSUME Inv, NEW t \in All, Climb(t, loc[t]) PROVE Inv' /\ Harmless
BY GoRebalanceInv, SameNodes DEF Inv, Climb

(* The nodes that a rotation writes are among those whose version it bumps. *)
LEMMA RotateTested ==
    ASSUME NEW v, Free(v.nVer), Free(v.pVer), Free(v.cVer), Free(v.innerVer),
           v.side \in Sides, v.d \in Sides
    PROVE  Tested(RotateUpdate(v))
<1> DEFINE update == RotateUpdate(v)
           bumped == {v.n, v.p, v.c, v.inner}
<1>1. \A e \in update : e.field = "ver" => e.new \in {e.old, e.old + 1, e.old + 2}
  BY DEF RotateUpdate, Lift, Entry, Bump, Keep, Sides, Other
<1>2. \A e \in update : e.new = e.old \/ e.n \in bumped
  BY DEF RotateUpdate, Lift, Entry, Bump, Keep
<1>3. /\ Bump(v.n, v.nVer) \in update /\ Bump(v.p, v.pVer) \in update
      /\ Bump(v.c, v.cVer) \in update /\ Bump(v.inner, v.innerVer) \in update
  BY DEF RotateUpdate, Lift
<1> HIDE DEF update
<1>4. \A n \in bumped : \E b \in update : b.n = n /\ b.field = "ver" /\ Free(b.old)
  BY <1>3 DEF Bump, Entry
<1> QED BY <1>1, <1>2, <1>4 DEF Tested, update

(* The same for a double rotation. *)
LEMMA RotateTwiceTested ==
    ASSUME NEW v, Free(v.nVer), Free(v.pVer), Free(v.cVer), Free(v.innerVer),
           Free(v.in1Ver), Free(v.in2Ver), v.side \in Sides, v.d \in Sides
    PROVE  Tested(RotateTwiceUpdate(v))
<1> DEFINE update == RotateTwiceUpdate(v)
           bumped == {v.n, v.p, v.c, v.inner, v.in1, v.in2}
<1>1. \A e \in update : e.field = "ver" => e.new \in {e.old, e.old + 1, e.old + 2}
  BY DEF RotateTwiceUpdate, Lift, Entry, Bump, Keep, Sides, Other
<1>2. \A e \in update : e.new = e.old \/ e.n \in bumped
  BY DEF RotateTwiceUpdate, Lift, Entry, Bump, Keep
<1>3. /\ Bump(v.n, v.nVer) \in update /\ Bump(v.p, v.pVer) \in update
      /\ Bump(v.c, v.cVer) \in update /\ Bump(v.inner, v.innerVer) \in update
      /\ Bump(v.in1, v.in1Ver) \in update /\ Bump(v.in2, v.in2Ver) \in update
  BY DEF RotateTwiceUpdate, Lift
<1> HIDE DEF update
<1>4. \A n \in bumped : \E b \in update : b.n = n /\ b.field = "ver" /\ Free(b.old)
  BY <1>3 DEF Bump, Entry
<1> QED BY <1>1, <1>2, <1>4 DEF Tested, update

(* The update of a rotation. *)
LEMMA RotateInv ==
    ASSUME Inv, NEW t \in All, Done(t, "Rotate") \/ Done(t, "RotateTwice"), Rotate(t, loc[t])
    PROVE  Inv' /\ Harmless
<1> DEFINE v == loc[t]
           update == IF v.double THEN RotateTwiceUpdate(v) ELSE RotateUpdate(v)
           next == IF v.double THEN <<v.n, v.c, v.inner, v.p>> ELSE <<v.n, v.c, v.p>>
<1>1. Tested(update)
  <2>1. CASE Done(t, "Rotate")
    <3>1. /\ Place("Rotate", v) /\ v.i > 10 /\ v.i \in Nat
          /\ v.side \in Sides /\ v.d \in Sides
      BY <2>1, Here, Common, RotateScript DEF Done, At
    <3>2. Free(v.nVer) /\ Free(v.pVer) /\ Free(v.cVer) /\ Free(v.innerVer) /\ ~v.double
      BY <3>1 DEF Place, Rotating
    <3> QED BY <3>1, <3>2, RotateTested
  <2>2. CASE Done(t, "RotateTwice")
    <3>1. /\ Place("RotateTwice", v) /\ v.i > 14 /\ v.i \in Nat
          /\ v.side \in Sides /\ v.d \in Sides
      BY <2>2, Here, Common, RotateTwiceScript DEF Done, At
    <3>2. /\ Free(v.nVer) /\ Free(v.pVer) /\ Free(v.cVer) /\ Free(v.innerVer)
          /\ Free(v.in1Ver) /\ Free(v.in2Ver) /\ v.double
      BY <3>1 DEF Place, Rotating
    <3> QED BY <3>1, <3>2, RotateTwiceTested
  <2> QED BY <2>1, <2>2
<1>2. CASE Applies(update)
  <2>1. node' = Updated(update) /\ GoRebalance(t, v, next \o Tail(v.todo))
    BY <1>2 DEF Rotate
  <2> HIDE DEF update, next
  <2> QED BY <1>1, <1>2, <2>1, UpdateInv
<1>3. CASE ~Applies(update)
  BY <1>3, AgainInv DEF Rotate
<1> QED BY <1>2, <1>3

-----------------------------------------------------------------------------

(* The tree with its sentinels. *)
LEMMA InitInv == ASSUME Init PROVE Inv
<1> DEFINE max == [NewNode(100000000, Null) EXCEPT !.left = MinRoot]
           min == NewNode(0, MaxRoot)
<1>1. node = <<max, min>>
  BY DEF Init
<1>2. /\ max = [f \in Words |-> max[f]] /\ max.ver \in Nat
      /\ min = [f \in Words |-> min[f]] /\ min.ver \in Nat
  BY DEF NewNode, Words
<1> HIDE DEF max, min
<1>3. node \in Seq(Range(node)) /\ DOMAIN node = 1 .. 2
  <2>1. node \in Seq({max, min}) /\ Len(node) = 2
    BY <1>1
  <2>2. DOMAIN node = 1 .. 2 /\ node \in [1 .. 2 -> {max, min}]
    BY <2>1, LenProperties
  <2>3. node \in [1 .. 2 -> Range(node)]
    BY <2>2 DEF Range
  <2> QED BY <2>2, <2>3, SeqDef
<1>4. NodeInv
  BY <1>1, <1>2, <1>3 DEF NodeInv
<1>5. Place("idle", NoLocals)
  BY NoLocalsFresh, FreshAnywhere DEF Anywhere
<1>6. LocalInv
  BY <1>5 DEF Init, LocalInv
<1> QED BY <1>4, <1>6 DEF Inv

(* A call begins. *)
LEMMA EnterInv ==
    ASSUME Inv, NEW t \in All, NEW fn, NEW k, Enter(t, fn, k) PROVE Inv' /\ Harmless
<1> DEFINE w == Restart([NoLocals EXCEPT !.fn = fn, !.k = k])
<1>1. Place("SearchVer", w)
  BY RestartFresh, FreshAnywhere DEF Anywhere
<1>2. /\ pc' = [pc EXCEPT ![t] = "SearchVer"] /\ loc' = [loc EXCEPT ![t] = w]
      /\ UNCHANGED node
  BY DEF Enter
<1> HIDE DEF w
<1> QED BY <1>1, <1>2, Moved, SameNodes DEF Inv

(* A call is over. *)
LEMMA ReturnInv ==
    ASSUME Inv, NEW t \in All, Return(t) PROVE Inv' /\ Harmless
<1>1. Place("idle", NoLocals)
  BY NoLocalsFresh, FreshAnywhere DEF Anywhere
<1> QED BY <1>1, Stepped DEF Return

(* Any step of a thread in a call. *)
LEMMA WorkInv ==
    ASSUME Inv, NEW t \in All, Work(t) PROVE Inv' /\ Harmless
<1> DEFINE v == loc[t]
<1>1. CASE pc[t] \in DOMAIN Script /\ v.i <= Len(Script[pc[t]]) /\ Load(t, v)
  BY <1>1, LoadInv
<1>2. CASE Search(t, v)
  BY <1>2, SearchVerInv, SearchKeyInv, SearchChildInv, ValidatePathInv DEF Search
<1>3. CASE Insert(t, v)
  BY <1>3, InsertLookInv, InsertExecuteInv DEF Insert
<1>4. CASE Erase(t, v)
  BY <1>4, EraseSimpleInv, SuccessorInv, EraseReadyInv, LinkInv, EraseExecuteInv DEF Erase
<1>5. CASE Balance(t, v)
  BY <1>5, NeighboursInv, HeavyInv, FixHeightInv, RecheckInv, ClimbInv, LinkInv, RotateInv
     DEF Balance
<1>6. CASE Return(t)
  BY <1>6, ReturnInv
<1> QED BY <1>1, <1>2, <1>3, <1>4, <1>5, <1>6 DEF Work

(* Any step. *)
LEMMA NextInv == ASSUME Inv, [Next]_vars PROVE Inv' /\ Harmless
<1>1. CASE Fill
  BY <1>1, EnterInv DEF Fill, All
<1>2. ASSUME NEW t \in Threads, NEW r \in Requests[t], Call(t, r[1], r[2])
      PROVE  Inv' /\ Harmless
  BY <1>2, EnterInv DEF Call, All
<1>3. ASSUME NEW t \in All, Work(t) PROVE Inv' /\ Harmless
  BY <1>3, WorkInv
<1>4. CASE UNCHANGED vars
  BY <1>4, SameNodes DEF vars, Inv, LocalInv
<1> QED BY <1>1, <1>2, <1>3, <1>4 DEF Next

(* A node that is taken out is never written again, and the versions of    *)
(* nodes only grow, for any number of threads, keys and calls: every       *)
(* update holds, for each node it writes, a version tested not to be       *)
(* marked (lockfree2.cpp:115-121, 163, 183, 188, 222-224, 276, 294-346).   *)
THEOREM RemovedStay == Spec => RemovedNodesStay
<1>1. Init => Inv
  BY InitInv
<1>2. Inv /\ [Next]_vars => Inv'
  BY NextInv
<1>3. Inv /\ [Next]_vars =>
        [\A n \in DOMAIN node :
           /\ node'[n].ver >= node[n].ver
           /\ IsMarked(node[n].ver) => node'[n] = node[n]]_vars
  BY NextInv DEF Harmless, Stays
<1> QED BY <1>1, <1>2, <1>3, PTL DEF Spec, RemovedNodesStay
=============================================================================
