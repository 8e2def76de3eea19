----------------------------- MODULE LockFreeSet -----------------------------
(***************************************************************************)
(* What the non-blocking tree of LockFreeBST stands for, and its           *)
(* properties.  The set is read off the heap: an operation counts as done  *)
(* from the CAS that makes it irrevocable, although its pointers and keys  *)
(* follow later, by any thread.                                            *)
(***************************************************************************)
EXTENDS LockFreeBST, FiniteSets

VARIABLES       \* history variables
    contents,   \* the set the heap stands for
    seen        \* seen[t]: the presence of t's key at each moment of its call

svars == <<key, op, child, desc, pc, loc, calls, fill, contents, seen>>

(* The nodes in the tree: those in reach, and those that an operation      *)
(* published in reach is about to link.                                    *)
InTree ==
    LET found == Reachable
    IN  {n \in Nodes \ {Root} :
            \/ n \in found
            \/ \E m \in found : op[m].flag = "CHILDCAS" /\ desc[op[m].op].update = Ptr(n)}

FinalKey(n) == IF Receives(n) THEN desc[op[n].op].key_to_put ELSE key[n]

KeySet == {FinalKey(n) : n \in {m \in InTree : ~Leaves(m)}}

-----------------------------------------------------------------------------
(* The history variables. *)

(* The call of t can no longer fail, whoever finishes it. *)
Effective(t) ==
    /\ loc[t].then = "answer"
    /\ \/ pc[t] \in {"ChildCAS", "ChildCASDone", "MarkedSide", "MarkedCAS"}
       \/ pc[t] \notin {"ChildCAS", "ChildCASDone", "MarkedSide", "MarkedCAS"}
          /\ Committed(loc[t].helped)

InCall(t) == pc[t] # "idle"

LInit ==
    /\ Init
    /\ contents = KeySet
    /\ seen = [t \in All |-> {}]

Observed ==
    /\ contents' = KeySet'
    /\ seen' = [t \in All |->
                  IF ~InCall(t)' THEN {}
                  ELSE seen[t] \cup {loc'[t].k \in contents'}]

LNext == Next /\ Observed

LSpec == LInit /\ [][LNext]_svars

-----------------------------------------------------------------------------
(* Properties *)

AbstractCall(t) ==
    IF ~InCall(t) THEN [state |-> "idle"]
    ELSE IF pc[t] = "Return" \/ Effective(t)
    THEN [state |-> "answered", fn |-> loc[t].fn, k |-> loc[t].k,
          result |-> pc[t] = "Return" => loc[t].result]
    ELSE [state |-> "pending", fn |-> loc[t].fn, k |-> loc[t].k, seen |-> seen[t]]

Abstract == INSTANCE ConcurrentSet WITH
    Threads <- All, Keys <- AllKeys, set <- contents, call <- [t \in All |-> AbstractCall(t)]

(* insert, deleteNode and search answer as a set would at some moment      *)
(* between call and return, and an update changes the set at most once,    *)
(* however many threads help it (lockfree.cpp:122-172).                    *)
ImplementsConcurrentSet == Abstract!CSpec

=============================================================================
