----------------------------- MODULE AtomicWords -----------------------------
(***************************************************************************)
(* What k-word compare-and-swap promises: shared words, loads of one, and  *)
(* updates of several at one instant.  An update may also fail when every  *)
(* word is as expected: the caller retries in any case.                    *)
(***************************************************************************)
CONSTANTS
    Threads, Addrs,
    Initial,    \* the words at the start
    Reads,      \* the addresses threads load
    Requests    \* Requests[t]: the updates t asks for, sequences of entries

VARIABLES word, call

avars == <<word, call>>

Idle == [state |-> "idle"]

AInit ==
    /\ word = Initial
    /\ call = [t \in Threads |-> Idle]

Read(t, a) ==
    /\ call[t] = Idle
    /\ call' = [call EXCEPT ![t] = [state |-> "reading", addr |-> a]]
    /\ UNCHANGED word

Execute(t, r) ==
    /\ call[t] = Idle
    /\ call' = [call EXCEPT ![t] = [state |-> "updating", request |-> r]]
    /\ UNCHANGED word

Answer(t, result) == call' = [call EXCEPT ![t] = [state |-> "answered", result |-> result]]

Load(t) ==
    /\ call[t].state = "reading"
    /\ Answer(t, word[call[t].addr])
    /\ UNCHANGED word

(* Every word was as expected, and all change together. *)
Update(t) ==
    /\ call[t].state = "updating"
    /\ LET r == call[t].request
       IN  /\ \A i \in DOMAIN r : word[r[i].addr] = r[i].old
           /\ word' = [a \in Addrs |->
                         IF \E i \in DOMAIN r : r[i].addr = a
                         THEN r[CHOOSE i \in DOMAIN r : r[i].addr = a].new
                         ELSE word[a]]
    /\ Answer(t, TRUE)

Fail(t) ==
    /\ call[t].state = "updating"
    /\ Answer(t, FALSE)
    /\ UNCHANGED word

Return(t) ==
    /\ call[t].state = "answered"
    /\ call' = [call EXCEPT ![t] = Idle]
    /\ UNCHANGED word

ANext ==
    \E t \in Threads :
        \/ \E a \in Reads : Read(t, a)
        \/ \E r \in Requests[t] : Execute(t, r)
        \/ Load(t) \/ Update(t) \/ Fail(t) \/ Return(t)

ASpec == AInit /\ [][ANext]_avars
=============================================================================
