------------------------------ MODULE AtomicSet ------------------------------
(***************************************************************************)
(* What every tree of the repository promises its clients: a set of keys   *)
(* whose operations take effect atomically at one instant between the call *)
(* and the return.  Insert, delete and search are the three operations     *)
(* that correctness.cpp drives through flexInsert, flexDelete and          *)
(* flexSearch; the Boolean they return is part of the specification.       *)
(*                                                                         *)
(* DeleteReport(present), a set of Booleans, says which answers a delete   *)
(* may give when its key was present and when it was not: the trees do not *)
(* agree on that, see README.md.                                           *)
(***************************************************************************)

CONSTANTS Threads, Keys, DeleteReport(_)

VARIABLES
    set,    \* the keys in the set
    call    \* call[t]: what thread t is doing, and its answer once decided

avars == <<set, call>>

SetOps == {"insert", "delete", "search"}

NoCall  == [state |-> "idle"]
Pending == [state : {"pending"}, op : SetOps, key : Keys]
Decided == [state : {"decided"}, op : SetOps, key : Keys, result : BOOLEAN]

ATypeOK ==
    /\ set \subseteq Keys
    /\ call \in [Threads -> {NoCall} \cup Pending \cup Decided]

AInit ==
    /\ set = {}
    /\ call = [t \in Threads |-> NoCall]

Call(t, op, k) ==
    /\ call[t] = NoCall
    /\ call' = [call EXCEPT ![t] = [state |-> "pending", op |-> op, key |-> k]]
    /\ UNCHANGED set

(* The answers operation op on key k may give when the set is s. *)
Answers(s, op, k) ==
    IF op = "delete" THEN DeleteReport(k \in s)
    ELSE {IF op = "insert" THEN k \notin s ELSE k \in s}

(* The set after operation op on key k. *)
After(s, op, k) ==
    IF op = "insert" THEN s \cup {k}
    ELSE IF op = "delete" THEN s \ {k}
    ELSE s

(* The instant at which the pending operation of t takes effect. *)
Decide(t) ==
    /\ call[t].state = "pending"
    /\ \E r \in Answers(set, call[t].op, call[t].key) :
          call' = [call EXCEPT ![t] = [state |-> "decided", op |-> call[t].op,
                                       key |-> call[t].key, result |-> r]]
    /\ set' = After(set, call[t].op, call[t].key)

Return(t) ==
    /\ call[t].state = "decided"
    /\ call' = [call EXCEPT ![t] = NoCall]
    /\ UNCHANGED set

ANext ==
    \E t \in Threads :
        \/ \E op \in SetOps, k \in Keys : Call(t, op, k)
        \/ Decide(t)
        \/ Return(t)

ASpec == AInit /\ [][ANext]_avars
=============================================================================
