------------------------------- MODULE MCKCAS -------------------------------
(* KCASWords for TLC. *)
EXTENDS KCASWords, FiniteSets, TLC

Entry(a, old, new) == [addr |-> a, old |-> old, new |-> new]

CONSTANTS
    Lone,   \* the thread that goes on running while the other may stop
    Other   \* the thread that meets its tags

MCInitial == <<0, 1>>

SetBoth == <<Entry(2, 0, 1), Entry(1, 0, 1)>>
Swap == <<Entry(2, 1, 0), Entry(1, 0, 1)>>
ClearFirst == <<Entry(1, 1, 0)>>
ClearSecond == <<Entry(2, 1, 0)>>

(* Updates[t][n]: what t may ask for in its n-th call (bound).  Lone tries *)
(* to set both words, against the order of their addresses, and then uses  *)
(* its descriptor again, Other makes that possible or not.  Any last call  *)
(* may be a load instead.  The later updates leave the second word alone:  *)
(* one that met a tag left behind there would fill its rdcss descriptor    *)
(* for ever, with ever larger numbers.                                     *)
Updates ==
    [t \in Threads |-> IF t = Lone THEN <<{SetBoth}, {ClearFirst}, {}>>
                       ELSE <<{ClearSecond, Swap}, {ClearFirst}>>]

MCRequests == [t \in Threads |-> UNION Range(Updates[t])]
MCMaxCalls == [t \in Threads |-> Len(Updates[t])]

AsPlanned ==
    \A t \in {u \in Threads : pc[u] # "idle"} :
        IF loc[t].fn = "read" THEN calls[t] = MaxCalls[t]
        ELSE loc[t].request \in Updates[t][calls[t]]

Planned == HInit /\ [][HNext /\ AsPlanned']_hvars

(* The numbers the design means: one for each thread. *)
OwnSlots == [t \in Threads |-> t]

(* The numbers the code gives: each thread's TIDGenerator looks for a free *)
(* entry in a table of its own (kcas_reuse_htm_impl.h:184-201,             *)
(* lockfree2.cpp:6).                                                       *)
CodeSlots == [t \in Threads |-> TIDGenerator([i \in 0 .. Cardinality(Threads) |-> FALSE])]

One == [t \in Threads |-> 1]

LoneRun == Planned /\ WF_vars(Work(Lone, loc[Lone]))

(* The tag in the word at a is of an update whose descriptor has gone on.  *)
LeftBehind(a) == mem[a].tag = "kcas" /\ kdesc[mem[a].slot].seq # mem[a].seq

(* The word at a is the one that l is about to load or to tag. *)
Meets(l, a) ==
    IF l.help = <<>> THEN l.fn = "read" /\ l.addr = a
    ELSE Top(l).i \in DOMAIN Top(l).entries /\ Top(l).entries[Top(l).i].addr = a

(* Reads and updates are lock-free but for one case: whatever instant the  *)
(* other thread stops at, a call that keeps running returns, for it        *)
(* finishes what it meets; unless the very word it needs is for ever under *)
(* a tag that was left behind (kcas_reuse_htm_impl.h:350-360, 411-428,     *)
(* 505-513).                                                               *)
ReturnsUnlessTagLeft ==
    (pc[Lone] # "idle") ~>
        (pc[Lone] = "idle" \/ \E a \in Addrs : [](LeftBehind(a) /\ Meets(loc[Lone], a)))
=============================================================================
