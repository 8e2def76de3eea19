--------------------------- MODULE BronsonAVL_proofs ---------------------------
(***************************************************************************)
(* Proofs about BronsonAVL for any number of threads, keys and calls: the  *)
(* descents of finegrainedBronson.cpp are never reached.                   *)
(***************************************************************************)
EXTENDS BronsonAVL, SequenceTheorems, TLAPS

Made == 1 .. Len(node)

Nodes == [key : Int, version : Int, height : Int, value : {"INT", "REM"},
          left : Nat, right : Nat, parent : Nat]

Locals == [fn : {"none", "insert", "delete", "search"}, k : Nat, root : Nat, result : BOOLEAN]

(* A node as the constructor leaves it, except for what the holder's two   *)
(* fields become.                                                          *)
Fresh(n) ==
    /\ node[n].version = 0 /\ node[n].value = "INT"
    /\ node[n].left = Null /\ node[n].parent = Null
    /\ n # RootHolder => node[n].right = Null

NodeInv ==
    /\ node \in Seq(Nodes)
    /\ Len(node) > 0
    /\ \A n \in Made : Fresh(n)
    /\ node[RootHolder].right \in Made \cup {Null}

(* The root a thread has loaded, in the places where it looks at it. *)
Looks == {"LoadVersion", "WaitUntilNotChanging", "RemoveNode"}

LocalInv ==
    /\ pc \in [Threads -> {"idle", "LoadRoot", "LockHolder", "InsertRoot", "LoadVersion",
                           "WaitUntilNotChanging", "RemoveNode", "Unlink", "Return"}]
    /\ loc \in [Threads -> Locals]
    /\ \A t \in Threads :
         /\ pc[t] \in Looks => loc[t].root \in Made
         /\ pc[t] = "LockHolder" /\ loc[t].fn # "insert" => loc[t].root \in Made
         /\ pc[t] = "InsertRoot" => loc[t].fn = "insert"
         /\ pc[t] = "RemoveNode" => loc[t].fn = "delete"
         /\ pc[t] = "Unlink" => loc[t].root \in Made
         /\ pc[t] = "Return" /\ loc[t].fn = "delete" => ~loc[t].result

Inv == NodeInv /\ LocalInv

-----------------------------------------------------------------------------

(* Before the first call there is the holder, and nobody runs. *)
LEMMA InitInv == Init => Inv
<1> SUFFICES ASSUME Init PROVE Inv
  OBVIOUS
<1>1. /\ Len(node) = 1 /\ node[1] = NodeFG(-1)
      /\ node \in Seq(Nodes)
  BY DEF Init, Nodes, NodeFG, Null
<1>2. NodeInv
  BY <1>1 DEF NodeInv, Made, Fresh, NodeFG, RootHolder, Null
<1>3. LocalInv
  BY DEF Init, LocalInv, Locals, NoLocals, Looks, Null
<1> QED BY <1>2, <1>3 DEF Inv

(* What a thread's step does to its own place and locals is all that the   *)
(* invariant about them needs, as long as no node goes away.               *)
LEMMA StepInv ==
    ASSUME LocalInv, NEW t \in Threads, NEW to, NEW l, Go(t, to, l),
           Len(node) \in Nat, Len(node') \in Nat, Len(node) <= Len(node'),
           to \in {"idle", "LoadRoot", "LockHolder", "InsertRoot", "LoadVersion",
                   "WaitUntilNotChanging", "RemoveNode", "Unlink", "Return"},
           l \in Locals,
           to \in Looks => l.root \in Made,
           to = "LockHolder" /\ l.fn # "insert" => l.root \in Made,
           to = "InsertRoot" => l.fn = "insert",
           to = "RemoveNode" => l.fn = "delete",
           to = "Unlink" => l.root \in Made,
           to = "Return" /\ l.fn = "delete" => ~l.result
    PROVE  LocalInv'
<1>1. \A r \in Made : r \in Made'
  BY DEF Made
<1>2. /\ pc' \in [Threads -> {"idle", "LoadRoot", "LockHolder", "InsertRoot", "LoadVersion",
                              "WaitUntilNotChanging", "RemoveNode", "Unlink", "Return"}]
      /\ loc' \in [Threads -> Locals]
  BY DEF Go, LocalInv
<1>3. ASSUME NEW u \in Threads
      PROVE  /\ u = t => pc'[u] = to /\ loc'[u] = l
             /\ u # t => pc'[u] = pc[u] /\ loc'[u] = loc[u]
  BY DEF Go, LocalInv
<1> QED BY <1>1, <1>2, <1>3 DEF LocalInv

(* Steps that leave the nodes alone leave their invariant alone. *)
LEMMA SameNodes == ASSUME NodeInv, UNCHANGED node PROVE NodeInv'
BY DEF NodeInv, Made, Fresh

(* The two fields that an insertion sets in the holder, in a node as the   *)
(* constructor leaves it, ...                                              *)
LEMMA SetFields ==
    ASSUME NEW k, NEW r, NEW h
    PROVE  [NodeFG(k) EXCEPT !.right = r, !.height = h]
             = [key |-> k, version |-> 0, height |-> h, value |-> "INT",
                left |-> Null, right |-> r, parent |-> Null]
<1>1. [NodeFG(k) EXCEPT !.right = r]
        = [key |-> k, version |-> 0, height |-> 1, value |-> "INT",
           left |-> Null, right |-> r, parent |-> Null]
  BY DEF NodeFG
<1>2. [NodeFG(k) EXCEPT !.right = r, !.height = h] = [[NodeFG(k) EXCEPT !.right = r] EXCEPT !.height = h]
  BY DEF NodeFG
<1>3. [[key |-> k, version |-> 0, height |-> 1, value |-> "INT",
        left |-> Null, right |-> r, parent |-> Null] EXCEPT !.height = h]
        = [key |-> k, version |-> 0, height |-> h, value |-> "INT",
           left |-> Null, right |-> r, parent |-> Null]
  OBVIOUS
<1> QED BY <1>1, <1>2, <1>3, Zenon

(* ... and in any node. *)
LEMMA SetFieldsType ==
    ASSUME NEW x \in Nodes, NEW r \in Nat, NEW h \in Int
    PROVE  [x EXCEPT !.right = r, !.height = h] \in Nodes
BY DEF Nodes

(* The nodes after a first insertion: the holder with its two fields set,  *)
(* the others as they were, and one more.                                  *)
LEMMA OneNodeMore ==
    ASSUME NodeInv, NEW t \in Threads, NEW l \in Locals, InsertRoot(t, l)
    PROVE  /\ node' \in Seq(Nodes)
           /\ Len(node') = Len(node) + 1
           /\ node'[Len(node) + 1] = NodeFG(l.k)
           /\ node'[1] = [node[1] EXCEPT !.right = Len(node) + 1, !.height = 2]
           /\ \A n \in 2 .. Len(node) : node'[n] = node[n]
<1> DEFINE a == Len(node) + 1
           x == [node[1] EXCEPT !.right = a, !.height = 2]
           held == [node EXCEPT ![1] = x]
<1>1. node \in Seq(Nodes) /\ Len(node) \in Nat /\ 1 \in 1 .. Len(node)
  <2>1. node \in Seq(Nodes) /\ Len(node) > 0
    BY DEF NodeInv
  <2> QED BY <2>1, LenProperties
<1>2. node[1] \in Nodes
  BY <1>1, ElementOfSeq
<1>3. x \in Nodes
  <2>1. \A h \in Int : [node[1] EXCEPT !.right = a, !.height = h] \in Nodes
    <3>1. a \in Nat
      BY <1>1
    <3> QED BY <1>2, <3>1, SetFieldsType
  <2>2. 2 \in Int
    OBVIOUS
  <2> QED BY <2>1, <2>2, Zenon
<1>4. NodeFG(l.k) \in Nodes
  <2>1. l.k \in Int
    BY DEF Locals
  <2> QED BY <2>1 DEF NodeFG, Nodes, Null
<1>5. node' = Append(held, NodeFG(l.k))
  <2>1. [node EXCEPT ![1].right = a, ![1].height = 2] = held
    BY <1>1, <1>2
  <2>2. node' = Append([node EXCEPT ![1].right = a, ![1].height = 2], NodeFG(l.k))
    BY DEF InsertRoot, RootHolder
  <2> QED BY <2>1, <2>2, Zenon
<1> HIDE DEF x
<1>6. /\ held \in Seq(Nodes)
      /\ Len(held) = Len(node)
      /\ \A j \in 1 .. Len(node) : held[j] = IF j = 1 THEN x ELSE node[j]
  BY <1>1, <1>3, ExceptSeq
<1> HIDE DEF held
<1>7. /\ node' \in Seq(Nodes)
      /\ Len(node') = Len(held) + 1
      /\ \A i \in 1 .. Len(held) : node'[i] = held[i]
      /\ node'[Len(held) + 1] = NodeFG(l.k)
  <2>1. ASSUME NEW q \in Seq(Nodes), NEW e \in Nodes, NEW z, z = Append(q, e)
        PROVE  /\ z \in Seq(Nodes)
               /\ Len(z) = Len(q) + 1
               /\ \A i \in 1 .. Len(q) : z[i] = q[i]
               /\ z[Len(q) + 1] = e
    BY <2>1, AppendProperties
  <2> QED BY <1>4, <1>5, <1>6, <2>1
<1>8. node'[1] = x
  BY <1>1, <1>6, <1>7
<1>9. \A n \in 2 .. Len(node) : node'[n] = node[n]
  BY <1>1, <1>6, <1>7
<1> QED BY <1>6, <1>7, <1>8, <1>9 DEF x

(* The first insertion makes a fresh node, whatever was the root before. *)
LEMMA InsertRootInv ==
    ASSUME Inv, NEW t \in Threads, pc[t] = "InsertRoot", InsertRoot(t, loc[t]) PROVE Inv'
<1> DEFINE l == loc[t]
           m == [l EXCEPT !.result = TRUE]
<1>1. /\ NodeInv /\ LocalInv
      /\ l \in Locals /\ l.fn = "insert"
  BY DEF Inv, LocalInv
<1>2. Len(node) \in Nat /\ Len(node) > 0 /\ node \in Seq(Nodes)
  <2>1. node \in Seq(Nodes) /\ Len(node) > 0
    BY <1>1 DEF NodeInv
  <2> QED BY <2>1, LenProperties
<1>3. /\ node' \in Seq(Nodes)
      /\ Len(node') = Len(node) + 1
      /\ node'[Len(node) + 1] = NodeFG(l.k)
      /\ node'[1] = [node[1] EXCEPT !.right = Len(node) + 1, !.height = 2]
      /\ \A n \in 2 .. Len(node) : node'[n] = node[n]
  <2> HIDE DEF l
  <2>1. InsertRoot(t, l)
    BY DEF l
  <2> QED BY <1>1, <2>1, OneNodeMore
<1>4. node[1] \in Nodes
  BY <1>2, ElementOfSeq
<1>5. ASSUME NEW n \in Made' PROVE Fresh(n)'
  <2>1. CASE n = Len(node) + 1
    BY <2>1, <1>3 DEF Fresh, NodeFG, Null
  <2>2. CASE n \in 2 .. Len(node)
    <3>1. Fresh(n) /\ node'[n] = node[n]
      BY <2>2, <1>1, <1>2, <1>3 DEF NodeInv, Made
    <3> QED BY <3>1 DEF Fresh
  <2>3. CASE n = 1
    <3>1. Fresh(1)
      BY <1>1, <1>2 DEF NodeInv, Made
    <3>2. /\ node'[1].version = node[1].version /\ node'[1].value = node[1].value
          /\ node'[1].left = node[1].left /\ node'[1].parent = node[1].parent
      BY <1>3, <1>4 DEF Nodes
    <3> QED BY <3>1, <3>2, <2>3 DEF Fresh, RootHolder
  <2> QED BY <2>1, <2>2, <2>3, <1>2, <1>3 DEF Made
<1>6. node'[1].right = Len(node) + 1
  BY <1>3, <1>4 DEF Nodes
<1>7. NodeInv'
  BY <1>2, <1>3, <1>5, <1>6 DEF NodeInv, Made, RootHolder
<1>8. m \in Locals /\ m.fn # "delete"
  BY <1>1 DEF Locals
<1>9. Go(t, "Return", m)
  BY DEF InsertRoot, Answer
<1>10. LocalInv'
  <2>1. Len(node) \in Nat /\ Len(node') \in Nat /\ Len(node) <= Len(node')
    BY <1>2, <1>3
  <2> HIDE DEF m
  <2> QED BY <2>1, <1>1, <1>8, <1>9, StepInv DEF Looks
<1> QED BY <1>7, <1>10 DEF Inv

(* A step of a thread that is in a call. *)
LEMMA WorkInv == ASSUME Inv, NEW t \in Threads, Work(t, loc[t]) PROVE Inv'
<1> DEFINE l == loc[t]
<1>0. NodeInv /\ LocalInv /\ Len(node) \in Nat
  <2>1. NodeInv /\ LocalInv
    BY DEF Inv
  <2> QED BY <2>1, LenProperties DEF NodeInv
<1>1. /\ l \in Locals
      /\ pc[t] \in Looks => l.root \in Made
      /\ pc[t] = "LockHolder" /\ l.fn # "insert" => l.root \in Made
      /\ pc[t] = "RemoveNode" => l.fn = "delete"
      /\ pc[t] = "Unlink" => l.root \in Made
  BY <1>0 DEF LocalInv
<1>2. ASSUME NEW to, NEW m \in Locals, Go(t, to, m), UNCHANGED node,
             to \in {"idle", "LoadRoot", "LockHolder", "InsertRoot", "LoadVersion",
                     "WaitUntilNotChanging", "RemoveNode", "Unlink", "Return"},
             to \in Looks => m.root \in Made,
             to = "LockHolder" /\ m.fn # "insert" => m.root \in Made,
             to = "InsertRoot" => m.fn = "insert",
             to = "RemoveNode" => m.fn = "delete",
             to = "Unlink" => m.root \in Made,
             to = "Return" /\ m.fn = "delete" => ~m.result
      PROVE  Inv'
  BY <1>0, <1>1, <1>2, SameNodes, StepInv DEF Inv
<1>3. CASE At(t, "LoadRoot") /\ LoadRoot(t, l)
  <2> DEFINE r == node[RootHolder].right
             seen == [l EXCEPT !.root = r]
  <2>1. /\ r \in Made \cup {Null} /\ r \in Nat
        /\ seen \in Locals /\ seen.fn = l.fn /\ seen.root = r
        /\ \A b \in BOOLEAN : [seen EXCEPT !.result = b] \in Locals
        /\ \A b \in BOOLEAN : [seen EXCEPT !.result = b].fn = l.fn
        /\ \A b \in BOOLEAN : [seen EXCEPT !.result = b].result = b
    <3>1. r \in Made \cup {Null} /\ r \in Nat
      <4>1. r \in Made \cup {Null}
        BY <1>0 DEF NodeInv
      <4> HIDE DEF r
      <4> QED BY <4>1, <1>0 DEF Made, Null
    <3>2. seen \in Locals /\ seen.fn = l.fn /\ seen.root = r
      BY <3>1, <1>1 DEF Locals
    <3>3. ASSUME NEW b \in BOOLEAN
          PROVE  /\ [seen EXCEPT !.result = b] \in Locals
                 /\ [seen EXCEPT !.result = b].fn = l.fn
                 /\ [seen EXCEPT !.result = b].result = b
      <4> HIDE DEF seen
      <4> QED BY <3>2 DEF Locals
    <3> QED BY <3>1, <3>2, <3>3
  <2>2. CASE r = Null /\ l.fn = "insert" /\ Step(t, "LockHolder", seen)
    <3> HIDE DEF seen
    <3> QED BY <2>1, <2>2, <1>2 DEF Step, Looks
  <2>3. CASE r = Null /\ l.fn # "insert" /\ Answer(t, seen, FALSE) /\ UNCHANGED node
    <3> HIDE DEF seen
    <3> QED BY <2>1, <2>3, <1>2 DEF Answer, Looks
  <2>4. CASE r # Null /\ l.fn = "delete" /\ Step(t, "RemoveNode", seen)
    <3> HIDE DEF seen
    <3> QED BY <2>1, <2>4, <1>2 DEF Step, Looks
  <2>5. CASE l.fn # "delete" /\ Answer(t, seen, l.fn = "search") /\ UNCHANGED node
    <3>1. (l.fn = "search") \in BOOLEAN
      OBVIOUS
    <3> HIDE DEF seen
    <3> QED BY <3>1, <2>1, <2>5, <1>2 DEF Answer, Looks
  <2>6. CASE r # Null /\ Step(t, "LoadVersion", seen)
    <3> HIDE DEF seen
    <3> QED BY <2>1, <2>6, <1>2 DEF Step, Looks
  <2> QED BY <1>3, <2>2, <2>3, <2>4, <2>5, <2>6 DEF LoadRoot
<1>4. CASE At(t, "LockHolder") /\ LockHolder(t, l)
  <2>1. CASE l.fn = "insert"
    BY <2>1, <1>1, <1>2, <1>4 DEF LockHolder, Looks
  <2>2. CASE l.fn # "insert"
    BY <2>2, <1>0, <1>1, <1>2, <1>4 DEF LockHolder, Looks, At
  <2> QED BY <2>1, <2>2
<1>5. CASE At(t, "InsertRoot") /\ InsertRoot(t, l)
  BY <1>5, InsertRootInv DEF At
<1>6. CASE At(t, "LoadVersion") /\ LoadVersion(t, l)
  <2>1. l.root \in Made /\ node[l.root].version = 0
    BY <1>0, <1>1, <1>6 DEF At, Looks, NodeInv, Fresh
  <2>2. Step(t, "WaitUntilNotChanging", l)
    BY <2>1, <1>6 DEF LoadVersion, Unlinked
  <2> QED BY <2>1, <2>2, <1>0, <1>1, <1>2 DEF Step, Looks
<1>7. CASE At(t, "WaitUntilNotChanging") /\ WaitUntilNotChanging(t, l)
  BY <1>0, <1>1, <1>2, <1>7 DEF WaitUntilNotChanging, Step, Looks
<1>8. CASE At(t, "RemoveNode") /\ RemoveNode(t, l)
  <2>1. l.root \in Made /\ node[l.root].value = "INT"
    BY <1>0, <1>1, <1>8 DEF At, Looks, NodeInv, Fresh
  <2>2. Step(t, "LockHolder", l)
    BY <2>1, <1>8 DEF RemoveNode
  <2> QED BY <2>1, <2>2, <1>0, <1>1, <1>2 DEF Step, Looks
<1>9. CASE At(t, "Unlink") /\ Unlink(t, l)
  <2>1. node[l.root].parent = Null
    BY <1>0, <1>1, <1>9 DEF At, NodeInv, Fresh
  <2>2. UNCHANGED node /\ Answer(t, l, FALSE)
    <3>1. node[l.root].parent # RootHolder
      BY <2>1 DEF Null, RootHolder
    <3> HIDE DEF l
    <3> QED BY <3>1, <1>9, Zenon DEF Unlink
  <2>3. [l EXCEPT !.result = FALSE] \in Locals /\ ~[l EXCEPT !.result = FALSE].result
    BY <1>1 DEF Locals
  <2> QED BY <2>2, <2>3, <1>2 DEF Answer, Looks
<1>10. CASE At(t, "Return") /\ Return(t)
  <2>1. NoLocals \in Locals
    BY DEF NoLocals, Locals, Null
  <2> QED BY <2>1, <1>2, <1>10 DEF Return, Step, Looks
<1> QED BY <1>3, <1>4, <1>5, <1>6, <1>7, <1>8, <1>9, <1>10 DEF Work

(* Every step preserves the invariant. *)
LEMMA NextInv == Inv /\ [Next]_vars => Inv'
<1> SUFFICES ASSUME Inv, [Next]_vars PROVE Inv'
  OBVIOUS
<1>1. CASE UNCHANGED vars
  BY <1>1 DEF Inv, NodeInv, LocalInv, Made, Fresh, Looks, vars
<1>2. ASSUME NEW t \in Threads, NEW fn \in {"insert", "delete", "search"}, NEW k \in Keys,
             Call(t, fn, k)
      PROVE  Inv'
  <2> DEFINE l == [NoLocals EXCEPT !.fn = fn, !.k = k]
  <2>1. /\ Go(t, "LoadRoot", l) /\ UNCHANGED node
        /\ l \in Locals
    BY <1>2, BronsonAssumption DEF Call, NoLocals, Locals, Null
  <2>2. NodeInv /\ LocalInv /\ Len(node) \in Nat
    BY DEF Inv, NodeInv
  <2> HIDE DEF l
  <2> QED BY <2>1, <2>2, SameNodes, StepInv DEF Inv, Looks
<1>3. ASSUME NEW t \in Threads, Work(t, loc[t]) PROVE Inv'
  BY <1>3, WorkInv
<1> QED BY <1>1, <1>2, <1>3 DEF Next

(* Whatever the threads do, no descent below the root is begun, every node *)
(* but the holder stays as it was made, and no deletion answers true       *)
(* (finegrainedBronson.cpp:557, 653, 767, 887).                            *)
THEOREM OnlyTheRoot == Spec => []NeverBelowRoot
<1>1. Inv => NeverBelowRoot
  <2> SUFFICES ASSUME Inv PROVE NeverBelowRoot
    OBVIOUS
  <2>1. ASSUME NEW n \in 1 .. Len(node)
        PROVE  /\ node[n] = [NodeFG(node[n].key) EXCEPT !.right = node[n].right,
                                                        !.height = node[n].height]
               /\ n # RootHolder => node[n].right = Null
    <3>1. Fresh(n) /\ node \in Seq(Nodes)
      BY DEF Inv, NodeInv, Made
    <3>2. node[n] \in Nodes
      BY <3>1, ElementOfSeq
    <3>3. node[n] = [key |-> node[n].key, version |-> 0, height |-> node[n].height, value |-> "INT",
                     left |-> Null, right |-> node[n].right, parent |-> Null]
      BY <3>1, <3>2 DEF Fresh, Nodes
    <3>4. [NodeFG(node[n].key) EXCEPT !.right = node[n].right, !.height = node[n].height]
            = [key |-> node[n].key, version |-> 0, height |-> node[n].height, value |-> "INT",
               left |-> Null, right |-> node[n].right, parent |-> Null]
      BY SetFields
    <3> QED BY <3>1, <3>3, <3>4 DEF Fresh
  <2>2. ASSUME NEW t \in Threads
        PROVE  /\ pc[t] # "attempt"
               /\ pc[t] = "Return" /\ loc[t].fn = "delete" => ~loc[t].result
    BY DEF Inv, LocalInv
  <2> QED BY <2>1, <2>2 DEF NeverBelowRoot
<1> QED BY <1>1, InitInv, NextInv, PTL DEF Spec
=============================================================================
