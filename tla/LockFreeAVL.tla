----------------------------- MODULE LockFreeAVL -----------------------------
(***************************************************************************)
(* AVLTree (src/lockfree2.cpp): an internal AVL tree whose words are read  *)
(* one by one and changed several at a time, by KCAS.  A node has a        *)
(* version: it grows by 2 whenever the node changes and becomes odd, which *)
(* marks the node, when it leaves the tree.  Updates are prepared from     *)
(* plain loads and name the versions these loads relied on.                *)
(*                                                                         *)
(* A load of a word and a KCAS are one step each, as AtomicWords promises  *)
(* and KCAS keeps.  An execute that fails is the step at which one of its  *)
(* words differed; the code's may also fail when it met the tag of another *)
(* update, and starts over as after any failure.  val is left out: it is   *)
(* always 0.                                                               *)
(*                                                                         *)
(* A node gets its number when the KCAS that links it succeeds; it is      *)
(* never freed.  Following a null pointer kills the process.               *)
(***************************************************************************)
EXTENDS Integers, Sequences

CONSTANTS
    Threads,    \* the threads launched on the tree
    Main,       \* the thread that fills the tree before they are launched
    Requests,   \* Requests[t]: the calls t may make, pairs <<function, key>>
    Fills,      \* what Main may insert first: sequences of keys
    MaxCalls    \* calls each thread makes (bound)

ASSUME LAAssumption ==
    /\ Main \notin Threads
    /\ \A t \in Threads : Requests[t] \subseteq {"insert", "delete", "search"} \X Nat
    /\ Fills \subseteq Seq(Nat)
    /\ MaxCalls \in Nat

VARIABLES
    node,   \* node[n]: the words of node n
    pc,     \* pc[t]: what thread t does next
    loc,    \* loc[t]: its local variables
    calls,  \* calls[t]: the calls t has made
    fill,   \* the keys Main has still to insert
    alive   \* the process has not followed a null pointer

vars == <<node, pc, loc, calls, fill, alive>>

All == Threads \cup {Main}

Null    == 0
MaxRoot == 1
MinRoot == 2

NewNode(k, p) ==
    [ver |-> 0, key |-> k, left |-> Null, right |-> Null, parent |-> p, height |-> 1]

IsMarked(version) == version % 2 = 1

Other(side) == IF side = "left" THEN "right" ELSE "left"

Max2(a, b) == IF a > b THEN a ELSE b
Min2(a, b) == IF a < b THEN a ELSE b

(* path, vers, pred, succ belong to searchHelper and a, n, p to what it    *)
(* returns.  A rotation has n below p, its heavy child c on side d, c's    *)
(* children outer and inner, n's other child light, inner's children in1   *)
(* (on side d) and in2; side is where the upper node holds the lower one.  *)
(* s is a successor below sp, with right child sr.  todo lists the nodes   *)
(* that remain to be rebalanced, the current one first: rebalance calls    *)
(* itself and then goes on with p, and its callers only return.            *)
NoLocals ==
    [fn |-> "none", k |-> 0, result |-> FALSE, i |-> 1, todo |-> <<>>,
     path |-> <<>>, vers |-> <<>>, pred |-> 0, succ |-> 1,
     n |-> Null, nVer |-> 0, nH |-> 0, nKey |-> 0, p |-> Null, pVer |-> 0,
     a |-> Null, aVer |-> 0, side |-> "left", d |-> "left", double |-> FALSE,
     l |-> Null, lVer |-> 0, lh |-> 0, r |-> Null, rVer |-> 0, rh |-> 0,
     c |-> Null, cVer |-> 0, cH |-> 0, light |-> Null, lightVer |-> 0, lightH |-> 0,
     outer |-> Null, outerVer |-> 0, outerH |-> 0,
     inner |-> Null, innerVer |-> 0, innerH |-> 0,
     in1 |-> Null, in1Ver |-> 0, in1H |-> 0, in2 |-> Null, in2Ver |-> 0, in2H |-> 0,
     s |-> Null, sVer |-> 0, sKey |-> 0, sp |-> Null, spVer |-> 0,
     sr |-> Null, srVer |-> 0]

(* 64-73 *)
Init ==
    /\ node = << [NewNode(100000000, Null) EXCEPT !.left = MinRoot],
                 NewNode(0, MaxRoot) >>
    /\ pc = [t \in All |-> "idle"]
    /\ loc = [t \in All |-> NoLocals]
    /\ calls = [t \in Threads |-> 0]
    /\ fill \in Fills
    /\ alive = TRUE

-----------------------------------------------------------------------------
(* Control flow.  v stands for the locals of t. *)

Go(t, to, v) ==
    /\ pc' = [pc EXCEPT ![t] = to]
    /\ loc' = [loc EXCEPT ![t] = v]
    /\ UNCHANGED <<calls, fill, alive>>

Step(t, to, v) == Go(t, to, v) /\ UNCHANGED node

Die == alive' = FALSE /\ UNCHANGED <<node, pc, loc, calls, fill>>

Frame(v) == [NoLocals EXCEPT !.fn = v.fn, !.k = v.k, !.result = v.result]

Answer(v, r) == [NoLocals EXCEPT !.fn = v.fn, !.k = v.k, !.result = r]

(* searchHelper from the top: also the next round of insert and erase. *)
Restart(v) == [Frame(v) EXCEPT !.n = MaxRoot]
Retry(t, v) == Step(t, "SearchVer", Restart(v))

(* rebalance what is left in todo; at minRoot its loop ends (293). *)
GoRebalance(t, v, todo) ==
    LET left == SelectSeq(todo, LAMBDA n : n # MinRoot)
    IN  IF left = <<>> THEN Go(t, "Return", Frame(v))
        ELSE Go(t, "Neighbours", [Frame(v) EXCEPT !.todo = left, !.n = Head(left)])

(* The loop of rebalance for the same node again. *)
Again(t, v) == GoRebalance(t, v, v.todo) /\ UNCHANGED node

(* rebalance returns. *)
Returns(t, v) == GoRebalance(t, v, Tail(v.todo)) /\ UNCHANGED node

-----------------------------------------------------------------------------
(* Loads.  A function of the tree reads the words around it in a fixed     *)
(* order; a word of a node that is not there counts as 0.  Field "d" is    *)
(* the child on side v.d, "o" the other child.  After a load the versions  *)
(* in tested must not be marked.                                           *)

Word(of, field, into, tested) ==
    [of |-> of, field |-> field, into |-> into, tested |-> tested]

(* A child with its version and height, as rotations read it. *)
Child(of, field, into, ver, height) ==
    << Word(of, field, into, {}), Word(into, "ver", ver, {}),
       Word(into, "height", height, {ver}) >>

Light == << Word("light", "ver", "lightVer", {}), Word("light", "height", "lightH", {}) >>

Script ==
    [Neighbours |->     \* 294-308
        << Word("n", "ver", "nVer", {"nVer"}),
           Word("n", "parent", "p", {}), Word("p", "ver", "pVer", {"pVer"}),
           Word("n", "left", "l", {}), Word("l", "ver", "lVer", {}),
           Word("n", "right", "r", {}), Word("r", "ver", "rVer", {"lVer", "rVer"}),
           Word("l", "height", "lh", {}), Word("r", "height", "rh", {}) >>,
     Heavy |->          \* 311-318 and 333-340
        << Word("c", "d", "outer", {}), Word("outer", "ver", "outerVer", {}),
           Word("c", "o", "inner", {}), Word("inner", "ver", "innerVer", {"outerVer", "innerVer"}),
           Word("outer", "height", "outerH", {}), Word("inner", "height", "innerH", {}) >>,
     FixHeight |->      \* 368-384
        << Word("n", "left", "l", {}), Word("n", "right", "r", {}),
           Word("l", "ver", "lVer", {}), Word("l", "height", "lh", {}),
           Word("r", "ver", "rVer", {}), Word("r", "height", "rh", {}),
           Word("n", "height", "nH", {}) >>,
     Rotate |->         \* 407-433 and 458-484
        Child("c", "o", "inner", "innerVer", "innerH")
        \o Child("c", "d", "outer", "outerVer", "outerH")
        \o Light
        \o << Word("n", "height", "nH", {}), Word("c", "height", "cH", {}) >>,
     RotateTwice |->    \* 509-546 and 577-614
        Child("inner", "d", "in1", "in1Ver", "in1H")
        \o Child("inner", "o", "in2", "in2Ver", "in2H")
        \o Light
        \o Child("c", "d", "outer", "outerVer", "outerH")
        \o << Word("n", "height", "nH", {}), Word("c", "height", "cH", {}),
              Word("inner", "height", "innerH", {}) >>,
     EraseTwoChild |->  \* 181-188
        << Word("n", "key", "nKey", {}), Word("s", "key", "sKey", {}),
           Word("s", "right", "sr", {}), Word("sr", "ver", "srVer", {"srVer"}) >>]

Field(v, field) ==
    CASE field = "d" -> v.d [] field = "o" -> Other(v.d) [] OTHER -> field

(* The pointers that the code tests before it follows them. *)
Guarded_AllButSr == {"l", "r", "outer", "inner", "in1", "in2", "light"}

Guarded == {"l", "r", "outer", "inner", "in1", "in2", "light", "sr"}

Value(v, w) == IF v[w.of] = Null THEN 0 ELSE node[v[w.of]][Field(v, w.field)]

(* A marked version: rebalance gives up when it is n's own and starts      *)
(* over when it is a neighbour's; an update starts over.                   *)
Abandon_AlwaysAgain(t, v) ==
    \/ pc[t] = "EraseTwoChild" /\ Retry(t, v)
    \/ pc[t] # "EraseTwoChild" /\ Again(t, v)

Abandon(t, v) ==
    \/ pc[t] = "EraseTwoChild" /\ Retry(t, v)
    \/ pc[t] # "EraseTwoChild" /\ IsMarked(v.nVer) /\ Returns(t, v)
    \/ pc[t] # "EraseTwoChild" /\ ~IsMarked(v.nVer) /\ Again(t, v)

Load_TestsNothing(t, v) ==
    LET w == Script[pc[t]][v.i]
        next == [v EXCEPT ![w.into] = Value(v, w), !.i = @ + 1]
    IN  IF v[w.of] = Null /\ w.of \notin Guarded THEN Die
        ELSE Step(t, pc[t], next)

Load(t, v) ==
    LET w == Script[pc[t]][v.i]
        next == [v EXCEPT ![w.into] = Value(v, w), !.i = @ + 1]
    IN  IF v[w.of] = Null /\ w.of \notin Guarded THEN Die
        ELSE IF \E x \in w.tested : IsMarked(next[x]) THEN Abandon(t, next)
        ELSE Step(t, pc[t], next)

-----------------------------------------------------------------------------
(* KCAS.  An update is a set of entries; those for a child that is not     *)
(* there are not added.                                                    *)

Entry(n, field, old, new) == [n |-> n, field |-> field, old |-> old, new |-> new]
Bump(n, ver) == Entry(n, "ver", ver, ver + 2)
Keep(n, ver) == Entry(n, "ver", ver, ver)
Mark(n, ver) == Entry(n, "ver", ver, ver + 1)

Present(update) == {e \in update : e.n # Null}

Applies(update) == \A e \in Present(update) : node[e.n][e.field] = e.old

Updated(update) ==
    [n \in DOMAIN node |->
       [f \in DOMAIN node[n] |->
          LET hit == {e \in update : e.n = n /\ e.field = f}
          IN  IF hit = {} THEN node[n][f] ELSE (CHOOSE e \in hit : TRUE).new]]

-----------------------------------------------------------------------------
(* Calls *)

Enter(t, fn, k) ==
    /\ alive
    /\ pc[t] = "idle"
    /\ pc' = [pc EXCEPT ![t] = "SearchVer"]
    /\ loc' = [loc EXCEPT ![t] = Restart([NoLocals EXCEPT !.fn = fn, !.k = k])]
    /\ UNCHANGED <<node, alive>>

(* Main inserts its keys one after the other, then launches the threads. *)
Fill ==
    /\ fill # <<>>
    /\ Enter(Main, "insert", Head(fill))
    /\ fill' = Tail(fill)
    /\ UNCHANGED calls

Call(t, fn, k) ==
    /\ fill = <<>> /\ pc[Main] = "idle"
    /\ calls[t] < MaxCalls
    /\ Enter(t, fn, k)
    /\ calls' = [calls EXCEPT ![t] = @ + 1]
    /\ UNCHANGED fill

Return(t) == Step(t, "idle", NoLocals)

-----------------------------------------------------------------------------
(* searchHelper *)

(* 86, 100: the version is read before the key and the child.  maxRoot is  *)
(* left for its left child without a look at its key (87).                 *)
SearchVer(t, v) ==
    LET w == [v EXCEPT !.path = Append(@, v.n), !.vers = Append(@, node[v.n].ver)]
    IN  IF v.n = MaxRoot THEN Step(t, "SearchChild", [w EXCEPT !.side = "left"])
        ELSE Step(t, "SearchKey", w)

(* What follows searchHelper: 78, 130, 161-164. *)
Found(t, v) ==
    LET sz == Len(v.path)
        w == [Frame(v) EXCEPT !.n = v.path[sz], !.nVer = v.vers[sz],
                              !.p = v.path[sz - 1], !.pVer = v.vers[sz - 1]]
    IN  \/ v.fn = "search" /\ Step(t, "Return", Answer(v, TRUE))
        \/ v.fn = "insert" /\ Step(t, "Return", Answer(v, FALSE))
        \/ v.fn = "delete" /\ IF IsMarked(w.pVer) \/ IsMarked(w.nVer)
                              THEN Retry(t, v) ELSE Step(t, "EraseLeft", w)

NotFound(t, v) ==
    LET sz == Len(v.path)
        a == Min2(v.pred, v.succ)
        w == [Frame(v) EXCEPT !.a = v.path[a], !.aVer = v.vers[a],
                              !.p = v.path[sz], !.pVer = v.vers[sz]]
    IN  IF v.fn = "insert" THEN Step(t, "InsertRight", w)
        ELSE Step(t, "Return", Answer(v, FALSE))

(* 101-110 *)
SearchKey(t, v) ==
    LET key == node[v.n].key
        here == Len(v.path)
    IN  \/ v.k > key /\ Step(t, "SearchChild", [v EXCEPT !.pred = here, !.side = "right"])
        \/ v.k < key /\ Step(t, "SearchChild", [v EXCEPT !.succ = here, !.side = "left"])
        \/ v.k = key /\ Found(t, v)

SearchChild(t, v) ==
    LET child == node[v.n][v.side]
    IN  Step(t, IF child = Null THEN "ValidatePath" ELSE "SearchVer", [v EXCEPT !.n = child])

(* 115-121: the path as it was loaded, all at once. *)
ValidatePath_Omitted(t, v) == NotFound(t, v)

ValidatePath(t, v) ==
    IF node[v.path[v.i]].ver # v.vers[v.i] \/ IsMarked(v.vers[v.i]) THEN Retry(t, v)
    ELSE IF v.i = Len(v.path) THEN NotFound(t, v)
    ELSE Step(t, "ValidatePath", [v EXCEPT !.i = @ + 1])

-----------------------------------------------------------------------------
(* insertIfAbsent *)

(* 134-139: the key of p is loaded once or twice. *)
InsertRight(t, v) ==
    IF v.k > node[v.p].key THEN Step(t, "InsertExecute", [v EXCEPT !.side = "right"])
    ELSE Step(t, "InsertLeft", v)

InsertLeft(t, v) ==
    IF v.k < node[v.p].key THEN Step(t, "InsertExecute", [v EXCEPT !.side = "left"])
    ELSE Retry(t, v)

(* 135-142 *)
InsertUpdate(v, new) ==
    {Entry(v.p, v.side, Null, new), Keep(v.a, v.aVer), Bump(v.p, v.pVer)}

(* 132-146 *)
InsertExecute(t, v) ==
    LET update == InsertUpdate(v, Len(node) + 1)
    IN  IF Applies(update)
        THEN /\ node' = Append(Updated(update), NewNode(v.k, v.p))
             /\ GoRebalance(t, [v EXCEPT !.result = TRUE], <<v.p>>)
        ELSE Retry(t, v)

-----------------------------------------------------------------------------
(* erase *)

(* 165-170 *)
EraseLeft(t, v) == Step(t, "EraseRight", [v EXCEPT !.l = node[v.n].left])

EraseRight(t, v) ==
    IF v.l = Null \/ node[v.n].right = Null
    THEN Step(t, "SimpleTest", [v EXCEPT !.l = Null, !.side = "left"])
    ELSE Step(t, "Successor", [v EXCEPT !.l = Null])

(* 215-220: each child is tested and then loaded again. *)
SimpleTest(t, v) ==
    IF node[v.n][v.side] # Null THEN Step(t, "SimpleChild", v)
    ELSE IF v.side = "left" THEN Step(t, "SimpleTest", [v EXCEPT !.side = "right"])
    ELSE Step(t, "EraseLink", [v EXCEPT !.r = Null])

SimpleChild(t, v) ==
    LET r == node[v.n][v.side]
    IN  Step(t, IF r = Null THEN "EraseLink" ELSE "SimpleVer", [v EXCEPT !.r = r])

(* 222-224 *)
SimpleVer(t, v) ==
    LET ver == node[v.r].ver
    IN  IF IsMarked(ver) THEN Retry(t, v)
        ELSE Step(t, "EraseLink", [v EXCEPT !.rVer = ver])

(* 266-268: n may have lost its right child. *)
Successor(t, v) ==
    LET s == node[v.n].right
    IN  Step(t, IF s = Null THEN "EraseTwoChild" ELSE "SuccessorParent",
             [v EXCEPT !.s = s, !.sp = v.n])

SuccessorParent(t, v) == Step(t, "SuccessorVer", [v EXCEPT !.spVer = node[v.n].ver])

(* 269, 274 *)
SuccessorVer(t, v) ==
    IF v.s = Null THEN Die
    ELSE Step(t, "SuccessorLeft", [v EXCEPT !.sVer = node[v.s].ver])

(* 270, 276-279: marked versions make getSuccessor return null, too. *)
SuccessorLeft(t, v) ==
    IF node[v.s].left # Null THEN Step(t, "SuccessorDown", v)
    ELSE IF IsMarked(v.sVer) \/ IsMarked(v.spVer)
    THEN Step(t, "EraseTwoChild", [v EXCEPT !.s = Null])
    ELSE Step(t, "EraseTwoChild", v)

(* 271-273 *)
SuccessorDown(t, v) ==
    Step(t, "SuccessorVer",
         [v EXCEPT !.sp = v.s, !.spVer = v.sVer, !.s = node[v.s].left])

(* 190-204: s gives its key to n and goes; sp takes the child of s. *)
TwoChildUpdate_VerForgotten(v) ==
    {Entry(v.sr, "parent", v.s, v.sp), Bump(v.sr, v.srVer),
     Entry(v.sp, v.side, v.s, v.sr), Entry(v.n, "key", v.nKey, v.sKey),
     Mark(v.s, v.sVer), Bump(v.sp, v.spVer)}

TwoChildUpdate(v) ==
    {Entry(v.sr, "parent", v.s, v.sp), Bump(v.sr, v.srVer),
     Entry(v.sp, v.side, v.s, v.sr), Entry(v.n, "key", v.nKey, v.sKey),
     Mark(v.s, v.sVer), Bump(v.sp, v.spVer)}
    \cup (IF v.sp = v.n THEN {} ELSE {Bump(v.n, v.nVer)})

(* 225-235: p takes the only child of n. *)
SimpleUpdate_ParentForgotten(v) ==
    {Bump(v.r, v.rVer),
     Entry(v.p, v.side, v.n, v.r), Bump(v.p, v.pVer), Mark(v.n, v.nVer)}

SimpleUpdate(v) ==
    {Entry(v.r, "parent", v.n, v.p), Bump(v.r, v.rVer),
     Entry(v.p, v.side, v.n, v.r), Bump(v.p, v.pVer), Mark(v.n, v.nVer)}

(* 205-209, 236-240: with a successor it is eraseTwoChild. *)
EraseExecute(t, v) ==
    LET two_child == v.s # Null
        update == IF two_child THEN TwoChildUpdate(v) ELSE SimpleUpdate(v)
    IN  IF Applies(update)
        THEN /\ node' = Updated(update)
             /\ GoRebalance(t, [v EXCEPT !.result = TRUE],
                            <<IF two_child THEN v.sp ELSE v.p>>)
        ELSE Retry(t, v)

-----------------------------------------------------------------------------
(* Which child of upper is lower?  Erasing asks for the right one first    *)
(* (193-198, 228-233), a rotation for the light side (401-406 and the like *)
(* in the other three).                                                    *)

AfterLink(t, v) ==
    IF pc[t] = "EraseLink" THEN "EraseExecute"
    ELSE IF v.double THEN "RotateTwice"
    ELSE "Rotate"

Link(t, v) ==
    LET erasing == pc[t] = "EraseLink"
        upper == IF erasing /\ v.s # Null THEN v.sp ELSE v.p
        lower == IF erasing /\ v.s # Null THEN v.s ELSE v.n
        side == IF v.i = 1 THEN Other(v.d) ELSE v.d
    IN  IF node[upper][side] = lower
        THEN Step(t, AfterLink(t, v), [v EXCEPT !.side = side, !.i = 1])
        ELSE IF v.i = 1 THEN Step(t, pc[t], [v EXCEPT !.i = 2])
        ELSE IF erasing THEN Retry(t, v) ELSE Again(t, v)

-----------------------------------------------------------------------------
(* rebalance, when the loads of its scripts are done *)

Lean(v, d) ==
    [v EXCEPT !.d = d, !.i = 1,
              !.c = IF d = "left" THEN v.l ELSE v.r,
              !.cVer = IF d = "left" THEN v.lVer ELSE v.rVer,
              !.light = IF d = "left" THEN v.r ELSE v.l]

(* 309-310, 332, 355 *)
Neighbours(t, v) ==
    LET balance == v.lh - v.rh
    IN  \/ balance >= 2 /\ Step(t, "Heavy", Lean(v, "left"))
        \/ balance <= -2 /\ Step(t, "Heavy", Lean(v, "right"))
        \/ balance \in -1 .. 1 /\ Step(t, "FixHeight", [v EXCEPT !.i = 1])

(* 319-321, 341-343 *)
Heavy(t, v) ==
    Step(t, "RotateLink", [v EXCEPT !.double = v.outerH < v.innerH, !.i = 1])

(* 385-396 *)
FixHeight(t, v) ==
    LET newHeight == 1 + Max2(v.lh, v.rh)
        update == {Keep(v.l, v.lVer), Keep(v.r, v.rVer),
                   Entry(v.n, "height", v.nH, newHeight), Bump(v.n, v.nVer)}
    IN  IF v.nH = newHeight THEN Step(t, "Recheck", [v EXCEPT !.i = 1])
        ELSE IF Applies(update)
        THEN node' = Updated(update) /\ Go(t, "Climb", v)
        ELSE Again(t, v)

(* 387: nothing to do, if that is still so. *)
Recheck(t, v) ==
    LET seen == << <<v.n, v.nVer>>, <<v.l, v.lVer>>, <<v.r, v.rVer>> >>[v.i]
    IN  IF seen[1] # Null /\ node[seen[1]].ver # seen[2] THEN Again(t, v)
        ELSE IF v.i = 3 THEN Returns(t, v)
        ELSE Step(t, "Recheck", [v EXCEPT !.i = @ + 1])

(* 359 *)
Climb_Stops(t, v) == Returns(t, v)

Climb(t, v) == GoRebalance(t, v, <<node[v.n].parent>> \o Tail(v.todo)) /\ UNCHANGED node

(* The entries both rotations share: x is the node that comes up. *)
Lift(v, x, ver) ==
    {Entry(v.p, v.side, v.n, x), Entry(v.n, "parent", v.p, x), Bump(x, ver),
     Bump(v.p, v.pVer), Bump(v.n, v.nVer), Keep(v.outer, v.outerVer),
     Keep(v.light, v.lightVer)}

(* 399-448, 450-499: c comes up, inner changes sides. *)
RotateUpdate(v) ==
    LET nHeight == 1 + Max2(v.innerH, v.lightH)
        cHeight == 1 + Max2(v.outerH, nHeight)
    IN  Lift(v, v.c, v.cVer) \cup
        {Entry(v.inner, "parent", v.c, v.n), Bump(v.inner, v.innerVer),
         Entry(v.c, "parent", v.n, v.p),
         Entry(v.n, v.d, v.c, v.inner), Entry(v.c, Other(v.d), v.inner, v.n),
         Entry(v.n, "height", v.nH, nHeight), Entry(v.c, "height", v.cH, cHeight)}

(* 501-567, 569-635: inner comes up between c and n. *)
RotateTwiceUpdate(v) ==
    LET nHeight == 1 + Max2(v.in2H, v.lightH)
        cHeight == 1 + Max2(v.outerH, v.in1H)
        innerHeight == 1 + Max2(nHeight, cHeight)
    IN  Lift(v, v.inner, v.innerVer) \cup
        {Entry(v.in1, "parent", v.inner, v.c), Bump(v.in1, v.in1Ver),
         Entry(v.in2, "parent", v.inner, v.n), Bump(v.in2, v.in2Ver),
         Entry(v.inner, "parent", v.c, v.p), Entry(v.c, "parent", v.n, v.inner),
         Entry(v.inner, v.d, v.in1, v.c), Entry(v.inner, Other(v.d), v.in2, v.n),
         Entry(v.c, Other(v.d), v.inner, v.in1), Entry(v.n, v.d, v.c, v.in2),
         Entry(v.n, "height", v.nH, nHeight), Entry(v.c, "height", v.cH, cHeight),
         Entry(v.inner, "height", v.innerH, innerHeight), Bump(v.c, v.cVer)}

(* 321-331, 343-353 *)
Rotate(t, v) ==
    LET update == IF v.double THEN RotateTwiceUpdate(v) ELSE RotateUpdate(v)
        next == IF v.double THEN <<v.n, v.c, v.inner, v.p>> ELSE <<v.n, v.c, v.p>>
    IN  IF Applies(update)
        THEN node' = Updated(update) /\ GoRebalance(t, v, next \o Tail(v.todo))
        ELSE Again(t, v)

-----------------------------------------------------------------------------

At(t, label) == pc[t] = label

(* The loads of the script are done. *)
Done(t, label) == At(t, label) /\ loc[t].i > Len(Script[label])

Search(t, v) ==
    \/ At(t, "SearchVer")    /\ SearchVer(t, v)
    \/ At(t, "SearchKey")    /\ SearchKey(t, v)
    \/ At(t, "SearchChild")  /\ SearchChild(t, v)
    \/ At(t, "ValidatePath") /\ ValidatePath(t, v)

Insert(t, v) ==
    \/ At(t, "InsertRight")   /\ InsertRight(t, v)
    \/ At(t, "InsertLeft")    /\ InsertLeft(t, v)
    \/ At(t, "InsertExecute") /\ InsertExecute(t, v)

Erase(t, v) ==
    \/ At(t, "EraseLeft")       /\ EraseLeft(t, v)
    \/ At(t, "EraseRight")      /\ EraseRight(t, v)
    \/ At(t, "SimpleTest")      /\ SimpleTest(t, v)
    \/ At(t, "SimpleChild")     /\ SimpleChild(t, v)
    \/ At(t, "SimpleVer")       /\ SimpleVer(t, v)
    \/ At(t, "Successor")       /\ Successor(t, v)
    \/ At(t, "SuccessorParent") /\ SuccessorParent(t, v)
    \/ At(t, "SuccessorVer")    /\ SuccessorVer(t, v)
    \/ At(t, "SuccessorLeft")   /\ SuccessorLeft(t, v)
    \/ At(t, "SuccessorDown")   /\ SuccessorDown(t, v)
    \/ Done(t, "EraseTwoChild") /\ Step(t, "EraseLink", [v EXCEPT !.i = 1])
    \/ At(t, "EraseLink")       /\ Link(t, v)
    \/ At(t, "EraseExecute")    /\ EraseExecute(t, v)

Balance(t, v) ==
    \/ Done(t, "Neighbours")  /\ Neighbours(t, v)
    \/ Done(t, "Heavy")       /\ Heavy(t, v)
    \/ Done(t, "FixHeight")   /\ FixHeight(t, v)
    \/ At(t, "Recheck")       /\ Recheck(t, v)
    \/ At(t, "Climb")         /\ Climb(t, v)
    \/ At(t, "RotateLink")    /\ Link(t, v)
    \/ (Done(t, "Rotate") \/ Done(t, "RotateTwice")) /\ Rotate(t, v)

Work(t) ==
    LET v == loc[t]
    IN  /\ alive
        /\ \/ pc[t] \in DOMAIN Script /\ v.i <= Len(Script[pc[t]]) /\ Load(t, v)
           \/ Search(t, v) \/ Insert(t, v) \/ Erase(t, v) \/ Balance(t, v)
           \/ At(t, "Return") /\ Return(t)

Next ==
    \/ Fill
    \/ \E t \in Threads : \E r \in Requests[t] : Call(t, r[1], r[2])
    \/ \E t \in All : Work(t)

Spec == Init /\ [][Next]_vars

-----------------------------------------------------------------------------

(* A version never goes back, and a node that is taken out is never        *)
(* written again, however old the loads are that an update was made from:  *)
(* each function tests the versions of the nodes it is going to write, all *)
(* in its own order (lockfree2.cpp:115-121, 163, 183, 188, 222, 276,       *)
(* 297-318, 338-340).                                                      *)
RemovedNodesStay ==
    [][\A n \in DOMAIN node :
         /\ node'[n].ver >= node[n].ver
         /\ IsMarked(node[n].ver) => node'[n] = node[n]]_vars
=============================================================================
