---------------------------- MODULE ConcurrentSet ----------------------------
(***************************************************************************)
(* A linearizable set, stated without fixing the instant at which an       *)
(* operation that changes nothing takes effect.  While a call is pending,  *)
(* seen collects whether its key was in the set at each moment since it    *)
(* began; a search may answer anything it has seen, an insert may fail if  *)
(* the key was there at some moment and a delete if it was not.  An insert *)
(* or delete that succeeds changes the set at one instant, possibly by the *)
(* hand of another thread.  AtomicSet fixes the instant for all calls.     *)
(***************************************************************************)
CONSTANTS Threads, Keys

VARIABLES set, call

cvars == <<set, call>>

Idle == [state |-> "idle"]

CInit ==
    /\ set = {}
    /\ call = [t \in Threads |-> Idle]

Call(t, fn, k) ==
    /\ call[t] = Idle
    /\ call' = [call EXCEPT ![t] = [state |-> "pending", fn |-> fn, k |-> k,
                                    seen |-> {(k \in set)}]]
    /\ UNCHANGED set

Answered(t, r) ==
    [state |-> "answered", fn |-> call[t].fn, k |-> call[t].k, result |-> r]

(* The update of t takes effect, and every other pending call sees the new *)
(* set.                                                                    *)
Effect(t) ==
    /\ call[t].state = "pending"
    /\ LET k == call[t].k
       IN  \/ call[t].fn = "insert" /\ k \notin set /\ set' = set \cup {k}
           \/ call[t].fn = "delete" /\ k \in set /\ set' = set \ {k}
    /\ call' = [u \in Threads |->
                  IF u = t THEN Answered(t, TRUE)
                  ELSE IF call[u].state = "pending"
                  THEN [call[u] EXCEPT !.seen = @ \cup {(call[u].k \in set')}]
                  ELSE call[u]]

(* The answers that leave the set alone. *)
Observe(t) ==
    /\ call[t].state = "pending"
    /\ \/ \E r \in call[t].seen :
             /\ call[t].fn = "search"
             /\ call' = [call EXCEPT ![t] = Answered(t, r)]
       \/ /\ \/ call[t].fn = "insert" /\ TRUE \in call[t].seen
             \/ call[t].fn = "delete" /\ FALSE \in call[t].seen
          /\ call' = [call EXCEPT ![t] = Answered(t, FALSE)]
    /\ UNCHANGED set

Return(t) ==
    /\ call[t].state = "answered"
    /\ call' = [call EXCEPT ![t] = Idle]
    /\ UNCHANGED set

CNext ==
    \E t \in Threads :
        \/ \E fn \in {"insert", "delete", "search"}, k \in Keys : Call(t, fn, k)
        \/ Effect(t) \/ Observe(t) \/ Return(t)

CSpec == CInit /\ [][CNext]_cvars
=============================================================================
