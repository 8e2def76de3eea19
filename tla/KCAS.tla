-------------------------------- MODULE KCAS --------------------------------
(***************************************************************************)
(* KCASHTM (src/kcas_reuse_htm_impl.h and the same text in src/lockfree2.h *)
(* with src/lockfree2.cpp): k-word compare-and-swap with descriptors that  *)
(* are used again.  execute tries hardware transactions first and falls    *)
(* back on help: install a tag in each word (with rdcss, a swap that takes *)
(* back its effect if the operation has been decided), decide the state,   *)
(* replace the tags.  Whoever meets a tag finishes the operation behind it.*)
(*                                                                         *)
(* An action is one access to a shared word or field, with two exceptions: *)
(* a descriptor is filled, and copied with the check of its sequence       *)
(* number, in one step, for a copy counts only if the number has stood     *)
(* still.  The two increments around the filling are one in rdcss.         *)
(***************************************************************************)
EXTENDS Integers, Sequences, SequencesExt

CONSTANTS
    Threads,
    Addrs,      \* the addresses of the shared words: numbers
    Initial,    \* their values at the start
    Reads,      \* the addresses threads load
    Requests,   \* Requests[t]: the updates t asks for, sequences of entries
    Slot,       \* Slot[t]: kcas_tid of thread t
    MaxCalls    \* MaxCalls[t]: the calls t makes (bound)

Entries == [addr : Addrs, old : Int, new : Int]

ASSUME KCASAssumption ==
    /\ Addrs \subseteq Nat
    /\ Initial \in [Addrs -> Int]
    /\ \A t \in Threads : Requests[t] \subseteq Seq(Entries)
    /\ \A t \in Threads : \A r \in Requests[t] :    \* some words, each of them once
         r # <<>> /\ \A i, j \in DOMAIN r : r[i].addr = r[j].addr => i = j
    /\ Reads \subseteq Addrs
    /\ MaxCalls \in [Threads -> Nat]

VARIABLES
    mem,    \* mem[a]: a value or a tag
    kdesc,  \* kdesc[s]: kcasDescriptors[s]
    rdesc,  \* rdesc[s]: rdcssDescriptors[s]
    pc, loc,
    calls   \* calls[t]: the calls t has made

vars == <<mem, kdesc, rdesc, pc, loc, calls>>

(* 184-201: the first entry that is not taken in the table of the thread. *)
TIDGenerator(thread_ids) ==
    CHOOSE i \in DOMAIN thread_ids :
        ~thread_ids[i] /\ \A j \in DOMAIN thread_ids : j < i => thread_ids[j]

Slots == {Slot[t] : t \in Threads}

Value(v) == [tag |-> "none", v |-> v]
KTag(s, seq) == [tag |-> "kcas", slot |-> s, seq |-> seq]
RTag(s, seq) == [tag |-> "rdcss", slot |-> s, seq |-> seq]

HelpFrame_FromSecond(tag, entries, helpingOther) ==
    [tag |-> tag, entries |-> entries, i |-> 2, newstate |-> "SUCCEEDED"]

(* One run of help: the operation behind tag, its entries, the entry it is *)
(* at, and the state it is going to set.                                   *)
HelpFrame(tag, entries, helpingOther) ==
    [tag |-> tag, entries |-> entries,
     i |-> IF helpingOther THEN 2 ELSE 1, newstate |-> "SUCCEEDED"]

(* todo is what add has still to add; help the stack of runs; met the tag  *)
(* just met; snapshot a copy of an rdcss descriptor, v the state it leads  *)
(* to, then where the thread goes on after it.                             *)
NoLocals ==
    [fn |-> "none", addr |-> 0, request |-> <<>>, todo |-> <<>>,
     help |-> <<>>, met |-> Value(0), snapshot |-> [seq |-> 0],
     v |-> "UNDECIDED", then |-> "none", result |-> FALSE]

Init ==
    /\ mem = [a \in Addrs |-> Value(Initial[a])]
    /\ kdesc = [s \in Slots |-> [seq |-> 1, state |-> "UNDECIDED", entries |-> <<>>]]
    /\ rdesc = [s \in Slots |-> [seq |-> 1]]
    /\ pc = [t \in Threads |-> "idle"]
    /\ loc = [t \in Threads |-> NoLocals]
    /\ calls = [t \in Threads |-> 0]

-----------------------------------------------------------------------------

Step(t, to, l) ==
    /\ pc' = [pc EXCEPT ![t] = to]
    /\ loc' = [loc EXCEPT ![t] = l]
    /\ UNCHANGED calls

Answer(t, l, r) == Step(t, "Return", [l EXCEPT !.result = r])

(* CAS of the word at a. *)
CASWord(a, old, new) ==
    /\ mem' = IF mem[a] = old THEN [mem EXCEPT ![a] = new] ELSE mem
    /\ UNCHANGED <<kdesc, rdesc>>

(* The state of the operation behind tag, or GONE when its descriptor      *)
(* serves another one (DESC_READ_FIELD).                                   *)
StateOf(tag) ==
    IF kdesc[tag.slot].seq = tag.seq THEN kdesc[tag.slot].state ELSE "GONE"

Top(l) == Last(l.help)
WithTop(l, f) == [l EXCEPT !.help = Append(Front(@), f)]

NextEntry(l) == WithTop(l, [Top(l) EXCEPT !.i = @ + 1])

(* Where the thread goes on when a tag that stood in its way is dealt      *)
(* with: it loads again (366-370, 507-512), tries its rdcss again (353) or *)
(* its entry (425).                                                        *)
AfterRdcss(l) == IF l.help = <<>> THEN "Load" ELSE "RdcssCAS"
AfterHelp(l) == IF l.help = <<>> THEN "Load" ELSE "Prepare"

-----------------------------------------------------------------------------
(* Calls *)

Call(t, l) ==
    /\ pc[t] = "idle"
    /\ calls[t] < MaxCalls[t]
    /\ calls' = [calls EXCEPT ![t] = @ + 1]
    /\ loc' = [loc EXCEPT ![t] = l]
    /\ pc' = [pc EXCEPT ![t] = IF l.fn = "read" THEN "Load" ELSE "Start"]
    /\ UNCHANGED <<mem, kdesc, rdesc>>

Read(t, a) == Call(t, [NoLocals EXCEPT !.fn = "read", !.addr = a])
Execute(t, r) == Call(t, [NoLocals EXCEPT !.fn = "execute", !.request = r, !.todo = r])

Return(t) == Step(t, "idle", NoLocals)

(* 505-513: readPtr, and rdcssRead within *)
Load(t, l) ==
    LET r == mem[l.addr]
    IN  \/ r.tag = "none" /\ Answer(t, l, r.v)
        \/ r.tag = "rdcss" /\ Step(t, "RdcssSnapshot", [l EXCEPT !.met = r])
        \/ r.tag = "kcas" /\ Step(t, "KcasSnapshot", [l EXCEPT !.met = r])

Start_SameNumber(t, l) ==
    /\ kdesc' = [kdesc EXCEPT ![Slot[t]].state = "UNDECIDED", ![Slot[t]].entries = <<>>]
    /\ Step(t, "Add", l)
    /\ UNCHANGED <<mem, rdesc>>

(* 532-536 *)
Start(t, l) ==
    /\ kdesc' = [kdesc EXCEPT ![Slot[t]] =
                   [seq |-> @.seq + 1, state |-> "UNDECIDED", entries |-> <<>>]]
    /\ Step(t, "Add", l)
    /\ UNCHANGED <<mem, rdesc>>

(* 250-264, 611-622: the next entry of the request *)
Add(t, l) ==
    /\ kdesc' = [kdesc EXCEPT ![Slot[t]].entries = Append(@, Head(l.todo))]
    /\ Step(t, IF Len(l.todo) = 1 THEN "Initialized" ELSE "Add",
            [l EXCEPT !.todo = Tail(@)])
    /\ UNCHANGED <<mem, rdesc>>

(* 475-476: the sequence number of the tag is that of the descriptor now. *)
Initialized(t, l) ==
    LET s == Slot[t]
    IN  /\ kdesc' = [kdesc EXCEPT ![s].seq = @ + 1]
        /\ Step(t, "Transaction", [l EXCEPT !.met = KTag(s, kdesc[s].seq + 1)])
        /\ UNCHANGED <<mem, rdesc>>

(* 454-466: the same entries in the order of their addresses. *)
Sortings(entries) ==
    {s \in [DOMAIN entries -> Range(entries)] :
        /\ Range(s) = Range(entries)
        /\ \A i, j \in DOMAIN s : i < j => s[i].addr <= s[j].addr}

(* The words m with the new values of the entries. *)
Written(m, entries) ==
    [a \in DOMAIN m |->
        IF \E e \in Range(entries) : e.addr = a
        THEN Value((CHOOSE e \in Range(entries) : e.addr = a).new)
        ELSE m[a]]

Transaction_Unsorted(t, l) ==
    /\ Step(t, "HelpState",
            [l EXCEPT !.help = <<HelpFrame(l.met, kdesc[Slot[t]].entries, FALSE)>>])
    /\ UNCHANGED <<mem, kdesc, rdesc>>

(* 478-500: a transaction commits, or aborts on a word that is not as      *)
(* expected (a tag never is); or none gets through, and the entries are    *)
(* sorted for help.                                                        *)
Transaction(t, l) ==
    LET d == kdesc[Slot[t]]
        matches == \A i \in DOMAIN d.entries :
                     mem[d.entries[i].addr] = Value(d.entries[i].old)
    IN  \/ /\ matches
           /\ mem' = Written(mem, d.entries)
           /\ Answer(t, l, TRUE)
           /\ UNCHANGED <<kdesc, rdesc>>
        \/ /\ ~matches
           /\ Answer(t, l, FALSE)
           /\ UNCHANGED <<mem, kdesc, rdesc>>
        \/ \E sorted \in Sortings(d.entries) :
              /\ kdesc' = [kdesc EXCEPT ![Slot[t]].entries = sorted]
              /\ Step(t, "HelpState",
                      [l EXCEPT !.help = <<HelpFrame(l.met, sorted, FALSE)>>])
              /\ UNCHANGED <<mem, rdesc>>

-----------------------------------------------------------------------------
(* help *)

(* 381-388: a snapshot of the descriptor behind the tag met. *)
KcasSnapshot(t, l) ==
    LET d == kdesc[l.met.slot]
    IN  IF d.seq = l.met.seq
        THEN Step(t, "HelpState",
                  [l EXCEPT !.help = Append(@, HelpFrame(l.met, d.entries, TRUE))])
        ELSE Step(t, AfterHelp(l), l)

(* This run of help is over with result r. *)
HelpReturns(t, l, r) ==
    LET rest == [l EXCEPT !.help = Front(@)]
    IN  IF rest.help = <<>> /\ l.fn = "execute" THEN Answer(t, rest, r)
        ELSE Step(t, AfterHelp(rest), rest)

(* 395-405 *)
HelpState(t, l) ==
    LET state == StateOf(Top(l).tag)
    IN  \/ state = "GONE" /\ HelpReturns(t, l, FALSE)
        \/ state = "UNDECIDED" /\ Step(t, "Prepare", l)
        \/ state \in {"SUCCEEDED", "FAILED"} /\ Step(t, "Outcome", l)

(* 406-418: fill this thread's rdcss descriptor for the entry. *)
Prepare(t, l) ==
    LET f == Top(l)
        s == Slot[t]
    IN  IF f.i > Len(f.entries)
        THEN Step(t, "Decide", l) /\ UNCHANGED <<mem, kdesc, rdesc>>
        ELSE /\ rdesc' = [rdesc EXCEPT ![s] =
                            [seq |-> @.seq + 1, tag |-> f.tag,
                             addr |-> f.entries[f.i].addr,
                             old |-> Value(f.entries[f.i].old)]]
             /\ Step(t, "RdcssCAS", l)
             /\ UNCHANGED <<mem, kdesc>>

(* 353-358, 421-432 *)
RdcssCAS(t, l) ==
    LET d == rdesc[Slot[t]]
        tag == RTag(Slot[t], d.seq)
        r == mem[d.addr]
    IN  /\ CASWord(d.addr, d.old, tag)
        /\ \/ /\ r = d.old
              /\ Step(t, "RdcssRead", [NextEntry(l) EXCEPT !.met = tag, !.snapshot = d,
                                                       !.then = "Prepare"])
           \/ /\ r # d.old /\ r.tag = "rdcss"
              /\ Step(t, "RdcssSnapshot", [l EXCEPT !.met = r])
           \/ /\ r # d.old /\ r = Top(l).tag
              /\ Step(t, "Prepare", NextEntry(l))
           \/ /\ r # d.old /\ r.tag = "kcas" /\ r # Top(l).tag
              /\ Step(t, "KcasSnapshot", [l EXCEPT !.met = r])
           \/ /\ r # d.old /\ r.tag = "none"
              /\ Step(t, "Decide", WithTop(l, [Top(l) EXCEPT !.newstate = "FAILED"]))

(* 341-347 *)
RdcssSnapshot(t, l) ==
    LET d == rdesc[l.met.slot]
    IN  IF d.seq = l.met.seq
        THEN Step(t, "RdcssRead", [l EXCEPT !.snapshot = d, !.then = AfterRdcss(l)])
        ELSE Step(t, AfterRdcss(l), l)

(* 329-330 *)
RdcssRead(t, l) == Step(t, "RdcssFinish", [l EXCEPT !.v = StateOf(l.snapshot.tag)])

RdcssFinish_LeavesTag(t, l) ==
    /\ IF l.v = "GONE" THEN UNCHANGED <<mem, kdesc, rdesc>>
       ELSE CASWord(l.snapshot.addr, l.met,
                    IF l.v = "UNDECIDED" THEN l.snapshot.tag ELSE l.snapshot.old)
    /\ Step(t, l.then, l)

(* 332-337: this thread's own rdcss, or that of another. *)
RdcssFinish(t, l) ==
    /\ CASWord(l.snapshot.addr, l.met,
               IF l.v = "UNDECIDED" THEN l.snapshot.tag ELSE l.snapshot.old)
    /\ Step(t, l.then, l)

(* 434-437 *)
Decide(t, l) ==
    LET f == Top(l)
    IN  /\ kdesc' = IF StateOf(f.tag) = "UNDECIDED"
                    THEN [kdesc EXCEPT ![f.tag.slot].state = f.newstate] ELSE kdesc
        /\ Step(t, "Outcome", l)
        /\ UNCHANGED <<mem, rdesc>>

(* 440-445 *)
Outcome(t, l) ==
    LET state == StateOf(Top(l).tag)
    IN  IF state = "GONE" THEN HelpReturns(t, l, FALSE)
        ELSE Step(t, "Replace", WithTop(l, [Top(l) EXCEPT !.i = 1, !.newstate = state]))

Replace_SkipsLast(t, l) ==
    LET f == Top(l)
        e == f.entries[f.i]
        succeeded == f.newstate = "SUCCEEDED"
    IN  /\ CASWord(e.addr, f.tag, Value(IF succeeded THEN e.new ELSE e.old))
        /\ IF f.i + 1 >= Len(f.entries) THEN HelpReturns(t, l, succeeded)
           ELSE Step(t, "Replace", NextEntry(l))

(* 445-450 *)
Replace(t, l) ==
    LET f == Top(l)
        e == f.entries[f.i]
        succeeded == f.newstate = "SUCCEEDED"
    IN  /\ CASWord(e.addr, f.tag, Value(IF succeeded THEN e.new ELSE e.old))
        /\ IF f.i = Len(f.entries) THEN HelpReturns(t, l, succeeded)
           ELSE Step(t, "Replace", NextEntry(l))

-----------------------------------------------------------------------------

At(t, label) == pc[t] = label

Work(t, l) ==
    \/ /\ \/ At(t, "Load")          /\ Load(t, l)
          \/ At(t, "KcasSnapshot")  /\ KcasSnapshot(t, l)
          \/ At(t, "HelpState")     /\ HelpState(t, l)
          \/ At(t, "RdcssSnapshot") /\ RdcssSnapshot(t, l)
          \/ At(t, "RdcssRead")     /\ RdcssRead(t, l)
          \/ At(t, "Outcome")       /\ Outcome(t, l)
          \/ At(t, "Return")        /\ Return(t)
       /\ UNCHANGED <<mem, kdesc, rdesc>>
    \/ At(t, "Start")       /\ Start(t, l)
    \/ At(t, "Add")         /\ Add(t, l)
    \/ At(t, "Initialized") /\ Initialized(t, l)
    \/ At(t, "Transaction") /\ Transaction(t, l)
    \/ At(t, "Prepare")     /\ Prepare(t, l)
    \/ At(t, "RdcssCAS")    /\ RdcssCAS(t, l)
    \/ At(t, "RdcssFinish") /\ RdcssFinish(t, l)
    \/ At(t, "Decide")      /\ Decide(t, l)
    \/ At(t, "Replace")     /\ Replace(t, l)

Next ==
    \/ \E t \in Threads, a \in Reads : Read(t, a)
    \/ \E t \in Threads : \E r \in Requests[t] : Execute(t, r)
    \/ \E t \in Threads : Work(t, loc[t])

Spec == Init /\ [][Next]_vars
=============================================================================
