--------------------------- MODULE KCASWords_proofs ---------------------------
(***************************************************************************)
(* KCAS implements AtomicWords, for any number of threads, words and       *)
(* requests, as long as each thread has a descriptor of its own.           *)
(*                                                                         *)
(* The invariant says what the history holds of each update, that every    *)
(* tag in a word, in a run of help and in an rdcss descriptor is of an     *)
(* update that is remembered, and that no thread still puts the tag of an  *)
(* update that has succeeded.  Given that, one lemma per action says which *)
(* step of AtomicWords it is: a load of a word without tag, a transaction, *)
(* the decision of an update (a step of its owner, whoever decides), the   *)
(* start and the end of a call; every other action changes nothing that    *)
(* the words stand for.                                                    *)
(*                                                                         *)
(* The last part says what may be left in a word: only the tag of an       *)
(* update that failed, for the owner of one that succeeded has passed      *)
(* every word before it goes on.                                           *)
(***************************************************************************)
EXTENDS KCAS_proofs

(* The word at a belongs to the update with the tag w. *)
Covers(w, a) ==
    w \in DOMAIN done /\ \E i \in DOMAIN done[w].entries : done[w].entries[i].addr = a

(* The rdcss with the descriptor d is for an entry of an update. *)
Serves(d) ==
    /\ d.tag \in DOMAIN done
    /\ \E i \in DOMAIN done[d.tag].entries :
         /\ done[d.tag].entries[i].addr = d.addr
         /\ d.old = Value(done[d.tag].entries[i].old)

OneEach(es) == \A i, j \in DOMAIN es : es[i].addr = es[j].addr => es[i] = es[j]

Decided(w) == done[w].state # "UNDECIDED"

(* The own update of t is in the hands of help. *)
Updating(t) == loc[t].fn = "execute" /\ loc[t].help # <<>>

(* What is remembered of an update. *)
Memory(w) ==
    /\ w \in IssuedK
    /\ done[w] \in KDescs /\ done[w].entries # <<>> /\ OneEach(done[w].entries)
    /\ kdesc[w.slot].seq = w.seq => done[w] = kdesc[w.slot]
    /\ ~Decided(w) => /\ kdesc[w.slot].seq = w.seq
                      /\ \E t \in Threads : Slot[t] = w.slot /\ Updating(t)

MemoryInv == \A w \in DOMAIN done : Memory(w)

CoverInv == \A a \in Addrs : mem[a].tag = "kcas" => Covers(mem[a], a)

ServesInv == \A s \in Slots : rdesc[s] # Unused => Serves(rdesc[s])

(* The runs of help that go by what is remembered. *)
DoneRuns == {f \in Runs : f.tag \in DOMAIN done /\ f.entries = done[f.tag].entries}

(* What a thread at p with the locals l works from. *)
Position(p, l) ==
    /\ l.help \in Seq(DoneRuns)
    /\ p = "KcasSnapshot" => l.met \in DOMAIN done
    /\ p \in {"RdcssRead", "RdcssFinish"} => Serves(l.snapshot)
    /\ p = "Replace" => Decided(Top(l).tag) /\ Top(l).newstate = done[Top(l).tag].state

(* A descriptor with the entries es has still to get those in todo. *)
Filled(es, todo, r) ==
    /\ Len(r) = Len(es) + Len(todo)
    /\ \A i \in DOMAIN es : es[i] = r[i]
    /\ \A i \in DOMAIN todo : todo[i] = r[Len(es) + i]

(* What a thread t at p with the locals l has been asked for. *)
Errand(t, p, l) ==
    /\ p \in {"idle", "Start", "Return"} \cup Fillers => l.help = <<>>
    /\ p \in {"Start"} \cup Fillers => l.fn = "execute"
    /\ l.fn = "execute" => l.request \in Requests[t]
    /\ p = "Start" => l.todo = l.request
    /\ p = "Add" => Filled(kdesc[Slot[t]].entries, l.todo, l.request)
    /\ p \in {"Initialized", "Transaction"} => kdesc[Slot[t]].entries = l.request
    /\ l.fn = "execute" /\ l.help # <<>> =>
         /\ l.help[1].tag = KTag(Slot[t], kdesc[Slot[t]].seq)
         /\ Range(l.help[1].entries) = Range(l.request)

(* Who has read that an update is undecided, and puts its tag in a word    *)
(* later, does not do so when it has succeeded ...                         *)
LateInv ==
    \A t \in Threads :
        pc[t] = "RdcssFinish" /\ loc[t].v = "UNDECIDED" /\ mem[loc[t].snapshot.addr] = loc[t].met =>
            done[loc[t].snapshot.tag].state # "SUCCEEDED"

(* ... for the tag of an rdcss is in a word once: nobody has met it before *)
(* it is there.                                                            *)
FreshInv ==
    \A t, u \in Threads :
        Intends(pc[u], loc[u]) /\ pc[t] \in {"RdcssSnapshot", "RdcssRead", "RdcssFinish"} =>
            loc[t].met # RTag(Slot[u], rdesc[Slot[u]].seq)

HistoryInv ==
    /\ MemoryInv /\ CoverInv /\ ServesInv /\ LateInv /\ FreshInv
    /\ \A t \in Threads : Position(pc[t], loc[t]) /\ Errand(t, pc[t], loc[t])

-----------------------------------------------------------------------------

(* What a step does to the updates whose tags are about. *)
Kept ==
    \A w \in IssuedK :
        /\ w \in IssuedK'
        /\ kdesc'[w.slot].seq = w.seq =>
             /\ kdesc[w.slot].seq = w.seq
             /\ kdesc'[w.slot] \in KDescs
             /\ kdesc'[w.slot].entries = kdesc[w.slot].entries
             /\ kdesc'[w.slot].state = kdesc[w.slot].state \/ kdesc[w.slot].state = "UNDECIDED"

(* Moves(t, to, m): t goes to the place to with the locals m. *)
Moves(t, to, m) == pc' = [pc EXCEPT ![t] = to] /\ loc' = [loc EXCEPT ![t] = m]

LEMMA Moved ==
    ASSUME Inv, NEW t \in Threads, NEW to, NEW m, Moves(t, to, m)
    PROVE  /\ pc'[t] = to /\ loc'[t] = m
           /\ \A u \in Threads \ {t} : pc'[u] = pc[u] /\ loc'[u] = loc[u]
BY DEF Moves, Inv, LocalInv

LEMMA SameKept ==
    ASSUME Inv, UNCHANGED kdesc, NEW t \in Threads, NEW to, NEW m, Moves(t, to, m), to \notin Fillers
    PROVE  Kept
<1>1. Filling' \subseteq Filling
  BY FillingStep DEF Inv, LocalInv, Moves
<1>2. kdesc \in [Slots -> KDescs]
  BY DEF Inv, KDescInv
<1> QED BY <1>1, <1>2 DEF Kept, IssuedK, KTags

(* The owner fills its descriptor, which is behind no tag. *)
LEMMA FillKept ==
    ASSUME DistinctSlots, Inv, NEW t \in Threads, NEW to, NEW m, Moves(t, to, m),
           pc[t] \in {"Start"} \cup Fillers,
           \A s \in Slots \ {Slot[t]} : kdesc'[s] = kdesc[s],
           kdesc'[Slot[t]].seq \in Nat,
           pc[t] # "Start" => kdesc'[Slot[t]].seq >= kdesc[Slot[t]].seq,
           pc[t] = "Start" => kdesc'[Slot[t]].seq > kdesc[Slot[t]].seq
    PROVE  Kept
<1>1. Slot[t] \in Slots /\ \A s \in Slots : kdesc[s] \in KDescs /\ kdesc[s].seq \in Nat
  BY Here DEF Inv, KDescInv, KDescs
<1>2. Filling' \subseteq Filling \cup {Slot[t]}
  BY FillingStep DEF Inv, LocalInv, Moves
<1> SUFFICES ASSUME NEW w \in IssuedK
             PROVE  /\ w \in IssuedK'
                    /\ kdesc'[w.slot].seq = w.seq =>
                         /\ kdesc[w.slot].seq = w.seq
                         /\ kdesc'[w.slot] \in KDescs
                         /\ kdesc'[w.slot].entries = kdesc[w.slot].entries
                         /\ kdesc'[w.slot].state = kdesc[w.slot].state
  BY DEF Kept
<1>3. /\ w \in KTags /\ 1 < w.seq
      /\ w.slot \in Slots /\ w.seq \in Nat /\ w.seq <= kdesc[w.slot].seq
      /\ w.slot \in Filling => w.seq < kdesc[w.slot].seq
  BY DEF IssuedK, KTags
<1>4. CASE w.slot # Slot[t]
  BY <1>1, <1>2, <1>3, <1>4 DEF IssuedK
<1>5. CASE w.slot = Slot[t]
  <2>1. w.seq < kdesc'[w.slot].seq
    <3>1. CASE pc[t] = "Start"
      BY <1>1, <1>3, <1>5, <3>1
    <3>2. CASE pc[t] # "Start"
      <4>1. Slot[t] \in Filling
        BY <3>2 DEF Filling
      <4> QED BY <1>1, <1>3, <1>5, <3>2, <4>1
    <3> QED BY <3>1, <3>2
  <2> QED BY <1>1, <1>3, <1>5, <2>1 DEF IssuedK
<1> QED BY <1>4, <1>5

LEMMA DecideKept ==
    ASSUME Inv, NEW t \in Threads, NEW to, NEW m, Moves(t, to, m), to \notin Fillers,
           NEW w \in KTags, NEW state \in States,
           kdesc' = IF StateOf(w) = "UNDECIDED" THEN [kdesc EXCEPT ![w.slot].state = state] ELSE kdesc
    PROVE  Kept
<1>1. w.slot \in Slots /\ kdesc \in [Slots -> KDescs]
  BY DEF KTags, Inv, KDescInv
<1>2. CASE StateOf(w) # "UNDECIDED"
  BY <1>2, SameKept
<1>3. CASE StateOf(w) = "UNDECIDED"
  <2>1. kdesc[w.slot].state = "UNDECIDED"
    BY <1>3 DEF StateOf
  <2>2. PICK d : d = [kdesc[w.slot] EXCEPT !.state = state]
    OBVIOUS
  <2>3. /\ d \in KDescs /\ d.seq = kdesc[w.slot].seq /\ d.entries = kdesc[w.slot].entries
    BY <1>1, <2>2 DEF KDescs
  <2>4. kdesc'[w.slot] = d /\ \A s \in Slots \ {w.slot} : kdesc'[s] = kdesc[s]
    BY <1>1, <1>3, <2>2
  <2>5. Filling' \subseteq Filling
    BY FillingStep DEF Inv, LocalInv, Moves
  <2> SUFFICES ASSUME NEW x \in IssuedK
               PROVE  /\ x \in IssuedK'
                      /\ kdesc'[x.slot].seq = x.seq =>
                           /\ kdesc[x.slot].seq = x.seq
                           /\ kdesc'[x.slot] \in KDescs
                           /\ kdesc'[x.slot].entries = kdesc[x.slot].entries
                           /\ kdesc'[x.slot].state = kdesc[x.slot].state
                              \/ kdesc[x.slot].state = "UNDECIDED"
    BY DEF Kept
  <2>6. x.slot \in Slots
    BY DEF IssuedK, KTags
  <2>7. CASE x.slot = w.slot
    BY <2>1, <2>3, <2>4, <2>5, <2>6, <2>7 DEF IssuedK
  <2>8. CASE x.slot # w.slot
    BY <1>1, <2>4, <2>5, <2>6, <2>8 DEF IssuedK
  <2> QED BY <2>7, <2>8
<1> QED BY <1>2, <1>3

(* The history only grows, and what was decided stays so. *)
Grown ==
    \A w \in DOMAIN done :
        /\ w \in DOMAIN done'
        /\ done'[w].entries = done[w].entries
        /\ Decided(w) => done'[w] = done[w]

LEMMA KeptGrown ==
    ASSUME Inv, MemoryInv, Kept, Remembered
    PROVE  Grown
<1> SUFFICES ASSUME NEW w \in DOMAIN done
             PROVE  /\ w \in DOMAIN done'
                    /\ done'[w].entries = done[w].entries
                    /\ Decided(w) => done'[w] = done[w]
  BY DEF Grown
<1>1. Memory(w)
  BY DEF MemoryInv
<1>2. /\ w \in DOMAIN done'
      /\ done'[w] = IF kdesc'[w.slot].seq = w.seq THEN kdesc'[w.slot] ELSE done[w]
  BY DEF Remembered
<1>3. CASE kdesc'[w.slot].seq # w.seq
  BY <1>2, <1>3
<1>4. CASE kdesc'[w.slot].seq = w.seq
  <2>1. PICK d, e : d = kdesc[w.slot] /\ e = kdesc'[w.slot]
    OBVIOUS
  <2>2. /\ done[w] = d /\ done'[w] = e /\ e.entries = d.entries /\ e \in KDescs /\ d \in KDescs
        /\ e.seq = w.seq /\ d.seq = w.seq
        /\ e.state = d.state \/ d.state = "UNDECIDED"
    BY <1>1, <1>2, <1>4, <2>1 DEF Memory, Kept
  <2>3. ASSUME e.state = d.state PROVE e = d
    BY <2>2, <2>3 DEF KDescs
  <2> QED BY <1>2, <2>2, <2>3 DEF Decided
<1> QED BY <1>3, <1>4

(* All that is remembered is as it was. *)
Still == \A w \in DOMAIN done : w \in DOMAIN done' /\ done'[w] = done[w]

LEMMA SameStill == ASSUME MemoryInv, UNCHANGED kdesc, Remembered PROVE Still
BY DEF Still, MemoryInv, Memory, Remembered

LEMMA FillStill ==
    ASSUME DistinctSlots, Inv, MemoryInv, Remembered, NEW t \in Threads,
           pc[t] \in {"Start"} \cup Fillers,
           \A s \in Slots \ {Slot[t]} : kdesc'[s] = kdesc[s],
           kdesc'[Slot[t]].seq \in Nat,
           pc[t] # "Start" => kdesc'[Slot[t]].seq >= kdesc[Slot[t]].seq,
           pc[t] = "Start" => kdesc'[Slot[t]].seq > kdesc[Slot[t]].seq
    PROVE  Still
<1> SUFFICES ASSUME NEW w \in DOMAIN done PROVE w \in DOMAIN done' /\ done'[w] = done[w]
  BY DEF Still
<1>1. Slot[t] \in Slots /\ \A s \in Slots : kdesc[s] \in KDescs /\ kdesc[s].seq \in Nat
  BY Here DEF Inv, KDescInv, KDescs
<1>2. /\ w \in DOMAIN done'
      /\ done'[w] = IF kdesc'[w.slot].seq = w.seq THEN kdesc'[w.slot] ELSE done[w]
  BY DEF Remembered
<1>3. Memory(w)
  BY DEF MemoryInv
<1>4. /\ w.slot \in Slots /\ w.seq \in Nat /\ w.seq <= kdesc[w.slot].seq
      /\ w.slot \in Filling => w.seq < kdesc[w.slot].seq
  BY <1>3 DEF Memory, IssuedK, KTags
<1>5. CASE w.slot # Slot[t]
  BY <1>2, <1>3, <1>4, <1>5 DEF Memory
<1>6. CASE w.slot = Slot[t]
  <2>1. w.seq < kdesc'[w.slot].seq
    <3>1. CASE pc[t] = "Start"
      BY <1>1, <1>4, <1>6, <3>1
    <3>2. CASE pc[t] # "Start"
      <4>1. Slot[t] \in Filling
        BY <3>2 DEF Filling
      <4> QED BY <1>1, <1>4, <1>6, <3>2, <4>1
    <3> QED BY <3>1, <3>2
  <2>2. kdesc'[w.slot].seq # w.seq
    BY <1>1, <1>4, <1>6, <2>1
  <2> QED BY <1>2, <2>2
<1> QED BY <1>5, <1>6

(* The run at the bottom of a stack stays there. *)
LEMMA BottomPush ==
    ASSUME NEW S, NEW h \in Seq(S), h # <<>>, NEW f \in S
    PROVE  Append(h, f)[1] = h[1]
<1>1. 1 \in 1 .. Len(h)
  BY EmptySeq
<1> QED BY <1>1, AppendProperties

LEMMA BottomFront ==
    ASSUME NEW S, NEW h \in Seq(S), h # <<>>
    PROVE  /\ Front(h) # <<>> => Front(h)[1] = h[1]
           /\ Front(h) = <<>> => Last(h) = h[1]
<1>1. PICK n \in Nat : n + 1 = Len(h)
  <2>1. Len(h) \in Nat \ {0}
    BY EmptySeq
  <2>2. \A k \in Nat \ {0} : k - 1 \in Nat /\ k - 1 + 1 = k
    OBVIOUS
  <2> QED BY <2>1, <2>2
<1>2. Len(h) - 1 = n /\ \A i \in 1 .. n : h[i] \in S
  BY <1>1, ElementOfSeq
<1>3. Front(h) = SubSeq(h, 1, n)
  BY <1>2 DEF Front
<1>4. /\ Front(h) \in Seq(S)
      /\ Len(Front(h)) = IF 1 <= n THEN n - 1 + 1 ELSE 0
      /\ \A i \in 1 .. n - 1 + 1 : Front(h)[i] = h[1 + i - 1]
  BY <1>2, <1>3, SubSeqProperties
<1>5. CASE n = 0
  <2>1. Len(h) = 1
    BY <1>1, <1>5
  <2>2. Front(h) = <<>>
    <3>1. Len(Front(h)) = 0
      BY <1>4, <1>5
    <3> QED BY <1>4, <3>1, EmptySeq
  <2> QED BY <2>1, <2>2 DEF Last
<1>6. CASE n # 0
  <2>1. 1 \in 1 .. n - 1 + 1 /\ 1 + 1 - 1 = 1 /\ Len(Front(h)) # 0
    BY <1>4, <1>6
  <2>2. Front(h)[1] = h[1] /\ Front(h) # <<>>
    BY <1>4, <2>1, EmptySeq
  <2> QED BY <2>2
<1> QED BY <1>5, <1>6

LEMMA BottomSwap ==
    ASSUME NEW S, NEW h \in Seq(S), h # <<>>, NEW f \in S
    PROVE  Append(Front(h), f)[1] = IF Front(h) = <<>> THEN f ELSE h[1]
<1>1. Front(h) \in Seq(S)
  <2>1. Len(h) \in Nat \ {0}
    BY EmptySeq
  <2>2. Last(h) \in S
    BY <2>1, ElementOfSeq DEF Last
  <2> QED BY <2>2, Stack
<1>2. CASE Front(h) = <<>>
  <2>1. Len(Append(Front(h), f)) = 1 /\ Append(Front(h), f)[0 + 1] = f
    <3>1. Len(Front(h)) = 0
      BY <1>2, EmptySeq
    <3> QED BY <1>1, <3>1, AppendProperties
  <2> QED BY <1>2, <2>1
<1>3. CASE Front(h) # <<>>
  BY <1>1, <1>3, BottomPush, BottomFront
<1> QED BY <1>2, <1>3

(* The thread goes on with the same call, and with the same update of its  *)
(* own.                                                                    *)
Continues(l, m) ==
    /\ m.fn = l.fn /\ m.addr = l.addr /\ m.request = l.request
    /\ l.fn = "execute" =>
         /\ l.help = <<>> <=> m.help = <<>>
         /\ l.help # <<>> => /\ m.help[1].tag = l.help[1].tag
                             /\ m.help[1].entries = l.help[1].entries

LEMMA GoOnErrand ==
    ASSUME NEW t \in Threads, NEW p, NEW l, Errand(t, p, l), NEW to, NEW m, Continues(l, m),
           to \notin {"idle", "Start", "Return"} \cup Fillers,
           kdesc'[Slot[t]].seq = kdesc[Slot[t]].seq
    PROVE  Errand(t, to, m)'
BY DEF Errand, Continues, Fillers

LEMMA SameContinues == ASSUME NEW l, NEW m, m.fn = l.fn, m.addr = l.addr, m.request = l.request,
                              m.help = l.help
                       PROVE  Continues(l, m)
BY DEF Continues

(* Another run on top of those of an update. *)
LEMMA PushContinues ==
    ASSUME NEW l, NEW m, m.fn = l.fn, m.addr = l.addr, m.request = l.request,
           NEW f \in Runs, l.help \in Seq(Runs), m.help = Append(l.help, f),
           l.help = <<>> => l.fn # "execute"
    PROVE  Continues(l, m)
<1>1. m.help # <<>>
  BY Push
<1>2. l.help # <<>> => m.help[1] = l.help[1]
  BY BottomPush
<1> QED BY <1>1, <1>2 DEF Continues

LEMMA SwapContinues ==
    ASSUME NEW l, NEW m, m.fn = l.fn, m.addr = l.addr, m.request = l.request,
           l.help \in Seq(Runs), l.help # <<>>, NEW f \in Runs,
           f.tag = Top(l).tag, f.entries = Top(l).entries, m.help = Append(Front(l.help), f)
    PROVE  Continues(l, m)
<1>1. m.help # <<>>
  <2>1. Front(l.help) \in Seq(Runs)
    BY TopRun
  <2> QED BY <2>1, Push
<1>2. m.help[1] = IF Front(l.help) = <<>> THEN f ELSE l.help[1]
  BY BottomSwap
<1>3. Front(l.help) = <<>> => Top(l) = l.help[1]
  BY BottomFront DEF Top
<1> QED BY <1>1, <1>2, <1>3 DEF Continues

LEMMA PopContinues ==
    ASSUME NEW l, NEW m, m.fn = l.fn, m.addr = l.addr, m.request = l.request,
           l.help \in Seq(Runs), l.help # <<>>, m.help = Front(l.help),
           m.help = <<>> => l.fn # "execute"
    PROVE  Continues(l, m)
BY BottomFront DEF Continues

(* Entries that come from a request have a word each. *)
LEMMA RequestOneEach ==
    ASSUME NEW t \in Threads, NEW r \in Requests[t], NEW es, Range(es) = Range(r)
    PROVE  OneEach(es)
<1>1. \A i, j \in DOMAIN r : r[i].addr = r[j].addr => i = j
  BY KCASAssumption
<1> SUFFICES ASSUME NEW i \in DOMAIN es, NEW j \in DOMAIN es, es[i].addr = es[j].addr
             PROVE  es[i] = es[j]
  BY DEF OneEach
<1>2. es[i] \in Range(r) /\ es[j] \in Range(r)
  BY DEF Range
<1>3. PICK k \in DOMAIN r, n \in DOMAIN r : es[i] = r[k] /\ es[j] = r[n]
  BY <1>2 DEF Range
<1> QED BY <1>1, <1>3

(* What a thread works from stays what it is while the history grows. *)
LEMMA GrownCovers ==
    ASSUME Grown
    PROVE  /\ \A w, a : Covers(w, a) => Covers(w, a)'
           /\ \A d : Serves(d) => Serves(d)'
<1>1. ASSUME NEW w, NEW a, Covers(w, a) PROVE Covers(w, a)'
  <2>1. w \in DOMAIN done /\ w \in DOMAIN done' /\ done'[w].entries = done[w].entries
    BY <1>1 DEF Covers, Grown
  <2> QED BY <1>1, <2>1 DEF Covers
<1>2. ASSUME NEW d, Serves(d) PROVE Serves(d)'
  <2>1. PICK w : w = d.tag
    OBVIOUS
  <2>2. w \in DOMAIN done /\ w \in DOMAIN done' /\ done'[w].entries = done[w].entries
    BY <1>2, <2>1 DEF Serves, Grown
  <2> QED BY <1>2, <2>1, <2>2 DEF Serves
<1> QED BY <1>1, <1>2

LEMMA GrownRuns ==
    ASSUME Kept, Grown
    PROVE  DoneRuns \subseteq DoneRuns'
<1> SUFFICES ASSUME NEW f \in DoneRuns PROVE f \in DoneRuns'
  OBVIOUS
<1>1. PICK w : w = f.tag
  OBVIOUS
<1>2. f \in Frames /\ w \in IssuedK /\ w \in DOMAIN done /\ f.entries = done[w].entries
      /\ (kdesc[w.slot].seq = w.seq => f.entries = kdesc[w.slot].entries)
  BY <1>1 DEF DoneRuns, Runs
<1>3. w \in IssuedK' /\ (kdesc'[w.slot].seq = w.seq => f.entries = kdesc'[w.slot].entries)
  BY <1>2 DEF Kept
<1>4. w \in DOMAIN done' /\ f.entries = done'[w].entries
  BY <1>2 DEF Grown
<1> QED BY <1>1, <1>2, <1>3, <1>4 DEF DoneRuns, Runs

(* The run at the top of a stack of those, and its entries. *)
LEMMA TopDone ==
    ASSUME NEW l, l.help \in Seq(DoneRuns), l.help # <<>>
    PROVE  /\ Top(l) \in DoneRuns /\ Front(l.help) \in Seq(DoneRuns)
           /\ Top(l).tag \in DOMAIN done /\ Top(l).entries = done[Top(l).tag].entries
           /\ Top(l) \in Runs /\ l.help \in Seq(Runs)
<1>1. Len(l.help) \in Nat \ {0}
  BY EmptySeq
<1>2. Last(l.help) \in DoneRuns
  BY <1>1, ElementOfSeq DEF Last
<1>3. Front(l.help) \in Seq(DoneRuns)
  BY <1>2, Stack
<1>4. l.help \in Seq(Runs)
  BY SeqMonotonic DEF DoneRuns
<1> QED BY <1>2, <1>3, <1>4 DEF DoneRuns, Top

LEMMA GrownPosition ==
    ASSUME Kept, Grown, NEW p, NEW l, Position(p, l), p \in Helping => l.help # <<>>
    PROVE  Position(p, l)'
<1>1. l.help \in Seq(DoneRuns')
  BY GrownRuns, SeqMonotonic DEF Position
<1>2. p = "KcasSnapshot" => l.met \in DOMAIN done'
  BY DEF Position, Grown
<1>3. p \in {"RdcssRead", "RdcssFinish"} => Serves(l.snapshot)'
  BY GrownCovers DEF Position
<1>4. p = "Replace" => Decided(Top(l).tag)' /\ Top(l).newstate = done'[Top(l).tag].state
  <2> SUFFICES ASSUME p = "Replace"
               PROVE  Decided(Top(l).tag)' /\ Top(l).newstate = done'[Top(l).tag].state
    OBVIOUS
  <2>1. PICK w : w = Top(l).tag
    OBVIOUS
  <2>2. l.help # <<>> /\ l.help \in Seq(DoneRuns)
    BY DEF Helping, Position
  <2>3. w \in DOMAIN done
    BY <2>1, <2>2, TopDone
  <2>4. Decided(w) /\ Top(l).newstate = done[w].state
    BY <2>1 DEF Position
  <2>5. done'[w] = done[w]
    BY <2>3, <2>4 DEF Grown
  <2>6. Decided(w)'
    BY <2>4, <2>5 DEF Decided
  <2> QED BY <2>1, <2>4, <2>5, <2>6 DEF Decided
<1> QED BY <1>1, <1>2, <1>3, <1>4 DEF Position, Top

(* What a step of t leaves alone. *)
Others(t) ==
    \A u \in Threads \ {t} :
        /\ kdesc'[Slot[u]].seq = kdesc[Slot[u]].seq
        /\ kdesc'[Slot[u]].entries = kdesc[Slot[u]].entries
        /\ rdesc'[Slot[u]] = rdesc[Slot[u]]

(* A thread does not drop its own update before that is decided. *)
Attentive(t, m) ==
    Updating(t) =>
        /\ kdesc'[Slot[t]].seq = kdesc[Slot[t]].seq
        /\ (m.fn = "execute" /\ m.help # <<>>) \/ Decided(loc[t].help[1].tag)

LEMMA RunsHeld ==
    ASSUME NEW h, h \in Seq(DoneRuns), h # <<>>
    PROVE  h[1] \in DoneRuns /\ h[1].tag \in DOMAIN done /\ h[1].tag \in IssuedK /\ h[1].tag \in KTags
           /\ h[1].entries # <<>> /\ h[1].entries = done[h[1].tag].entries
<1>1. 1 \in 1 .. Len(h)
  BY EmptySeq
<1>2. h[1] \in DoneRuns
  BY <1>1, ElementOfSeq
<1> QED BY <1>2 DEF DoneRuns, Runs, Frames, IssuedK

LEMMA KeptMemory ==
    ASSUME DistinctSlots, Inv, HistoryInv, NEW t \in Threads, NEW to, NEW m, Moves(t, to, m),
           Kept, Remembered, Grown, Others(t), Attentive(t, m), NEW w \in DOMAIN done
    PROVE  Memory(w)'
<1>1. Memory(w)
  BY DEF HistoryInv, MemoryInv
<1>2. /\ pc'[t] = to /\ loc'[t] = m
      /\ \A u \in Threads \ {t} : pc'[u] = pc[u] /\ loc'[u] = loc[u]
  BY Moved
<1>3. /\ w \in DOMAIN done' /\ done'[w].entries = done[w].entries
      /\ Decided(w) => done'[w] = done[w]
  BY DEF Grown
<1>4. done'[w] = IF kdesc'[w.slot].seq = w.seq THEN kdesc'[w.slot] ELSE done[w]
  BY DEF Remembered
<1>5. w \in IssuedK' /\ w \in KTags /\ (kdesc'[w.slot].seq = w.seq => kdesc'[w.slot] \in KDescs)
  BY <1>1 DEF Memory, Kept, IssuedK
<1>6. done'[w] \in KDescs /\ done'[w].entries # <<>> /\ OneEach(done'[w].entries)
  BY <1>1, <1>3, <1>4, <1>5 DEF Memory
<1>7. ASSUME ~Decided(w)'
      PROVE  kdesc'[w.slot].seq = w.seq /\ \E u \in Threads : Slot[u] = w.slot /\ Updating(u)'
  <2>1. ~Decided(w)
    BY <1>3, <1>7 DEF Decided
  <2>2. PICK u \in Threads : Slot[u] = w.slot /\ Updating(u) /\ kdesc[w.slot].seq = w.seq
    BY <1>1, <2>1 DEF Memory
  <2>3. CASE u # t
    BY <1>2, <2>2, <2>3 DEF Others, Updating
  <2>4. CASE u = t
    <3>1. PICK x : x = loc[t].help[1].tag
      OBVIOUS
    <3>2. x = KTag(Slot[t], kdesc[Slot[t]].seq)
      BY <2>2, <2>4, <3>1 DEF HistoryInv, Errand, Updating
    <3>3. x = w
      BY <1>5, <2>2, <2>4, <3>2 DEF KTags, KTag
    <3>4. m.fn = "execute" /\ m.help # <<>> /\ kdesc'[Slot[t]].seq = kdesc[Slot[t]].seq
      BY <2>1, <2>2, <2>4, <3>1, <3>3 DEF Attentive
    <3> QED BY <1>2, <2>2, <2>4, <3>4 DEF Updating
  <2> QED BY <2>3, <2>4
<1> HIDE DEF Updating, Decided
<1> QED BY <1>4, <1>5, <1>6, <1>7 DEF Memory, OneEach

(* An update that help begins with is remembered from then on. *)
LEMMA NewMemory ==
    ASSUME DistinctSlots, Inv, Inv', HistoryInv, NEW t \in Threads, NEW to, NEW m, Moves(t, to, m),
           Remembered, Position(to, m)', Errand(t, to, m)', NEW w \in DOMAIN done' \ DOMAIN done
    PROVE  Memory(w)'
<1>1. /\ pc'[t] = to /\ loc'[t] = m
      /\ \A u \in Threads \ {t} : pc'[u] = pc[u] /\ loc'[u] = loc[u]
  BY Moved
<1>2. w \in Published'
  BY DEF Remembered
<1>3. PICK u \in Threads : loc'[u].fn = "execute" /\ loc'[u].help # <<>> /\ w = loc'[u].help[1].tag
  BY <1>2 DEF Published
<1>4. u = t
  <2> SUFFICES ASSUME u # t PROVE FALSE
    OBVIOUS
  <2>1. PICK h : h = loc[u].help
    OBVIOUS
  <2>2. h \in Seq(DoneRuns) /\ h # <<>> /\ w = h[1].tag
    BY <1>1, <1>3, <2>1 DEF HistoryInv, Position
  <2> QED BY <2>2, RunsHeld
<1>5. PICK h, f : h = m.help /\ f = h[1]
  OBVIOUS
<1>6. m.fn = "execute" /\ h # <<>> /\ w = f.tag
  BY <1>1, <1>3, <1>4, <1>5
<1>7. /\ w = KTag(Slot[t], kdesc'[Slot[t]].seq) /\ m.request \in Requests[t]
      /\ Range(f.entries) = Range(m.request)
  BY <1>5, <1>6 DEF Errand
<1>8. h \in Seq(DoneRuns')
  BY <1>5 DEF Position
<1>9. f \in DoneRuns'
  <2>1. 1 \in 1 .. Len(h)
    BY <1>6, <1>8, EmptySeq
  <2> QED BY <1>5, <1>8, <2>1, ElementOfSeq
<1>10. w \in IssuedK' /\ w \in KTags /\ f.entries # <<>> /\ f.entries = done'[w].entries
  BY <1>6, <1>9 DEF DoneRuns, Runs, Frames, IssuedK
<1>11. w.slot = Slot[t] /\ w.seq = kdesc'[Slot[t]].seq
  BY <1>7 DEF KTag
<1>12. done'[w] = kdesc'[w.slot]
  BY <1>11 DEF Remembered
<1>13. kdesc'[w.slot] \in KDescs
  BY <1>11, Here DEF Inv, KDescInv
<1>14. OneEach(f.entries)
  BY <1>7, RequestOneEach
<1>15. Updating(t)'
  BY <1>1, <1>5, <1>6 DEF Updating
<1> HIDE DEF Updating, Decided
<1> QED BY <1>10, <1>11, <1>12, <1>13, <1>14, <1>15 DEF Memory, OneEach

LEMMA OthersErrand ==
    ASSUME NEW t \in Threads, Others(t), NEW u \in Threads \ {t}, NEW p, NEW l, Errand(u, p, l)
    PROVE  Errand(u, p, l)'
BY DEF Errand, Others, Filled

(* What a step of t must show. *)
LEMMA HistoryStep ==
    ASSUME DistinctSlots, Inv, Inv', HistoryInv, NEW t \in Threads, NEW to, NEW m, Moves(t, to, m),
           Kept, Remembered, Others(t), Attentive(t, m),
           \A a \in Addrs : mem'[a].tag = "kcas" => mem'[a] = mem[a] \/ Covers(mem'[a], a),
           \A s \in Slots : rdesc'[s] = rdesc[s] \/ Serves(rdesc'[s]),
           Position(to, m)', Errand(t, to, m)', LateInv', FreshInv'
    PROVE  HistoryInv'
<1>1. Grown
  BY KeptGrown DEF HistoryInv
<1>2. /\ pc'[t] = to /\ loc'[t] = m
      /\ \A u \in Threads \ {t} : pc'[u] = pc[u] /\ loc'[u] = loc[u]
  BY Moved
<1>3. MemoryInv'
  <2> SUFFICES ASSUME NEW w \in DOMAIN done' PROVE Memory(w)'
    BY DEF MemoryInv
  <2> QED BY <1>1, KeptMemory, NewMemory
<1>4. CoverInv'
  <2>1. \A a \in Addrs : mem'[a].tag = "kcas" => Covers(mem'[a], a)
    BY DEF HistoryInv, CoverInv
  <2> QED BY <1>1, <2>1, GrownCovers DEF CoverInv, Covers
<1>5. ServesInv'
  <2>1. \A s \in Slots : rdesc'[s] # Unused => Serves(rdesc'[s])
    BY DEF HistoryInv, ServesInv
  <2> QED BY <1>1, <2>1, GrownCovers DEF ServesInv, Serves, Unused
<1>6. ASSUME NEW u \in Threads PROVE Position(pc[u], loc[u])' /\ Errand(u, pc[u], loc[u])'
  <2>1. CASE u = t
    <3>1. Position(to, m)' /\ Errand(t, to, m)'
      OBVIOUS
    <3> QED BY <1>2, <2>1, <3>1 DEF Position, Errand, Top
  <2>2. CASE u # t
    <3>1. PICK p, l : p = pc[u] /\ l = loc[u]
      OBVIOUS
    <3>2. Position(p, l) /\ Errand(u, p, l) /\ (p \in Helping => l.help # <<>>)
      BY <3>1, Here DEF HistoryInv, Place
    <3>3. Position(p, l)'
      BY <1>1, <3>2, GrownPosition
    <3>4. Errand(u, p, l)'
      BY <2>2, <3>2, OthersErrand
    <3> QED BY <1>2, <2>2, <3>1, <3>3, <3>4
  <2> QED BY <2>1, <2>2
<1> QED BY <1>3, <1>4, <1>5, <1>6 DEF HistoryInv

Meeting == {"RdcssSnapshot", "RdcssRead", "RdcssFinish"}

(* The tag of an rdcss that t is about to put in a word stays new to all   *)
(* until it does.                                                          *)
LEMMA FreshStep ==
    ASSUME DistinctSlots, Inv, OrderInv, HistoryInv,
           NEW t \in Threads, NEW to, NEW m, Moves(t, to, m), Others(t),
           to \in Meeting =>
               \/ pc[t] \in Meeting /\ m.met = loc[t].met
               \/ ~Installs(pc[t], loc[t]) /\ \E a \in Addrs : m.met = mem[a]
               \/ Installs(to, m) /\ m.met.slot = Slot[t],
           Intends(to, m) =>
               \/ Intends(pc[t], loc[t]) /\ rdesc'[Slot[t]] = rdesc[Slot[t]]
               \/ to \notin Meeting /\ rdesc'[Slot[t]].seq > rdesc[Slot[t]].seq
    PROVE  FreshInv'
<1>1. /\ pc'[t] = to /\ loc'[t] = m
      /\ \A u \in Threads \ {t} : pc'[u] = pc[u] /\ loc'[u] = loc[u]
  BY Moved
<1>2. ASSUME NEW x \in Threads, NEW u \in Threads, Intends(pc'[u], loc'[u]), pc'[x] \in Meeting,
             loc'[x].met = RTag(Slot[u], rdesc'[Slot[u]].seq)
      PROVE  FALSE
  <2>1. ASSUME NEW p, NEW l PROVE ~(Intends(p, l) /\ Installs(p, l))
    BY DEF Intends, Installs
  <2>2. \A y, v \in Threads : Intends(pc[v], loc[v]) /\ pc[y] \in Meeting =>
             loc[y].met # RTag(Slot[v], rdesc[Slot[v]].seq)
    BY DEF HistoryInv, FreshInv, Meeting
  <2>3. u # t => rdesc'[Slot[u]] = rdesc[Slot[u]]
    BY DEF Others
  <2>4. ASSUME NEW a \in Addrs, mem[a] = RTag(Slot[u], rdesc'[Slot[u]].seq)
        PROVE  Installs(pc[u], loc[u])
    <3>1. mem[a].tag = "rdcss" /\ mem[a].slot = Slot[u]
      BY <2>4 DEF RTag
    <3>2. Attends(u, pc[u], loc[u], a)
      BY <3>1, NotMine
    <3> QED BY <3>2 DEF Attends
  <2>5. CASE x # t /\ u # t
    BY <1>1, <1>2, <2>2, <2>3, <2>5
  <2>6. CASE x # t /\ u = t
    <3>1. CASE Intends(pc[t], loc[t]) /\ rdesc'[Slot[t]] = rdesc[Slot[t]]
      BY <1>1, <1>2, <2>2, <2>6, <3>1
    <3>2. CASE rdesc'[Slot[t]].seq > rdesc[Slot[t]].seq
      <4>1. PICK w : w = loc[x].met
        OBVIOUS
      <4>2. w = RTag(Slot[t], rdesc'[Slot[t]].seq) /\ pc[x] \in Meeting
        BY <1>1, <1>2, <2>6, <4>1
      <4>3. w \in Words
        BY <4>1, <4>2, Here DEF Meeting
      <4>4. w.tag = "rdcss" /\ w.slot = Slot[t] /\ w.seq = rdesc'[Slot[t]].seq
        BY <4>2 DEF RTag
      <4>5. w \in IssuedR
        BY <4>3, <4>4 DEF Words, Plain, IssuedK, KTags
      <4>6. w.seq <= rdesc[Slot[t]].seq /\ w.seq \in Nat /\ rdesc[Slot[t]].seq \in Nat
        BY <4>4, <4>5 DEF IssuedR, RTags, RDescs
      <4> QED BY <3>2, <4>4, <4>6
    <3> QED BY <1>1, <1>2, <2>6, <3>1, <3>2
  <2>7. CASE x = t /\ u # t
    <3>1. CASE pc[t] \in Meeting /\ m.met = loc[t].met
      BY <1>1, <1>2, <2>2, <2>3, <2>7, <3>1
    <3>2. ASSUME NEW a \in Addrs, m.met = mem[a] PROVE FALSE
      BY <1>1, <1>2, <2>1, <2>4, <2>7, <3>2
    <3>3. CASE m.met.slot = Slot[t]
      <4>1. Slot[u] = Slot[t]
        BY <1>1, <1>2, <2>7, <3>3 DEF RTag
      <4> QED BY <2>7, <4>1 DEF DistinctSlots
    <3> QED BY <1>1, <1>2, <2>7, <3>1, <3>2, <3>3
  <2>8. CASE x = t /\ u = t
    <3>1. ~Installs(to, m)
      BY <1>1, <1>2, <2>1, <2>8
    <3>2. Intends(pc[t], loc[t]) /\ rdesc'[Slot[t]] = rdesc[Slot[t]]
      BY <1>1, <1>2, <2>8
    <3>3. ~(\E a \in Addrs : m.met = mem[a])
      BY <1>1, <1>2, <2>1, <2>4, <2>8, <3>2
    <3> QED BY <1>1, <1>2, <2>2, <2>8, <3>1, <3>2, <3>3
  <2> QED BY <2>5, <2>6, <2>7, <2>8
<1> QED BY <1>2 DEF FreshInv, Meeting, Intends

(* An update succeeds when all its words are under its tag: then no word   *)
(* of it is under the tag of an rdcss.                                     *)
SucceedsTagged ==
    /\ UNCHANGED mem
    /\ \A w \in DOMAIN done : ~Decided(w) /\ done'[w].state = "SUCCEEDED" =>
         \A i \in DOMAIN done[w].entries : mem[done[w].entries[i].addr] = w

LEMMA LateStep ==
    ASSUME Inv, HistoryInv, NEW t \in Threads, NEW to, NEW m, Moves(t, to, m), Grown,
           \A a \in Addrs : mem'[a].tag = "rdcss" =>
               \/ mem'[a] = mem[a]
               \/ Intends(pc[t], loc[t]) /\ mem'[a] = RTag(Slot[t], rdesc[Slot[t]].seq),
           Still \/ SucceedsTagged,
           to = "RdcssFinish" /\ m.v = "UNDECIDED" => done'[m.snapshot.tag].state # "SUCCEEDED"
    PROVE  LateInv'
<1>1. /\ pc'[t] = to /\ loc'[t] = m
      /\ \A u \in Threads \ {t} : pc'[u] = pc[u] /\ loc'[u] = loc[u]
  BY Moved
<1>2. ASSUME NEW u \in Threads, pc'[u] = "RdcssFinish", loc'[u].v = "UNDECIDED",
             mem'[loc'[u].snapshot.addr] = loc'[u].met
      PROVE  done'[loc'[u].snapshot.tag].state # "SUCCEEDED"
  <2>1. CASE u = t
    BY <1>1, <1>2, <2>1
  <2>2. CASE u # t
    <3>1. PICK l, y, w : l = loc[u] /\ y = l.snapshot.addr /\ w = l.snapshot.tag
      OBVIOUS
    <3>2. pc[u] = "RdcssFinish" /\ l.v = "UNDECIDED" /\ mem'[y] = l.met /\ l = loc'[u]
      BY <1>1, <1>2, <2>2, <3>1
    <3>3. l.met.tag = "rdcss" /\ l.snapshot \in RDescs
      BY <3>1, <3>2, Here DEF Place
    <3>4. y \in Addrs /\ w \in KTags
      BY <3>1, <3>3 DEF RDescs
    <3>5. mem[y] = l.met
      <4>1. l.met # RTag(Slot[t], rdesc[Slot[t]].seq) \/ ~Intends(pc[t], loc[t])
        BY <3>1, <3>2 DEF HistoryInv, FreshInv
      <4> QED BY <3>2, <3>3, <3>4, <4>1
    <3>6. done[w].state # "SUCCEEDED"
      BY <3>1, <3>2, <3>5 DEF HistoryInv, LateInv
    <3>7. Serves(l.snapshot)
      BY <3>1, <3>2 DEF HistoryInv, Position
    <3>8. w \in DOMAIN done
      BY <3>1, <3>7 DEF Serves
    <3>9. CASE Still
      BY <3>1, <3>2, <3>6, <3>8, <3>9 DEF Still
    <3>10. CASE SucceedsTagged
      <4>1. PICK i \in DOMAIN done[w].entries : done[w].entries[i].addr = y
        BY <3>1, <3>7 DEF Serves
      <4>2. ~Decided(w) => done'[w].state # "SUCCEEDED"
        <5>1. mem[y] # w
          BY <3>3, <3>4, <3>5 DEF KTags
        <5> QED BY <3>8, <3>10, <4>1, <5>1 DEF SucceedsTagged
      <4>3. Decided(w) => done'[w] = done[w]
        BY <3>8 DEF Grown
      <4> QED BY <3>1, <3>2, <3>6, <4>2, <4>3
    <3> QED BY <3>9, <3>10
  <2> QED BY <2>1, <2>2
<1> QED BY <1>2 DEF LateInv

Between == {"idle", "Start", "Return"} \cup Fillers

FreshFor(t, to, m) ==
    /\ to \in Meeting =>
         \/ pc[t] \in Meeting /\ m.met = loc[t].met
         \/ ~Installs(pc[t], loc[t]) /\ \E a \in Addrs : m.met = mem[a]
         \/ Installs(to, m) /\ m.met.slot = Slot[t]
    /\ Intends(to, m) =>
         \/ Intends(pc[t], loc[t]) /\ rdesc'[Slot[t]] = rdesc[Slot[t]]
         \/ to \notin Meeting /\ rdesc'[Slot[t]].seq > rdesc[Slot[t]].seq

(* t goes on within its call, and with what it needs for that. *)
Passes(t, to, m) ==
    /\ Moves(t, to, m) /\ to \notin Between /\ pc[t] \notin Between
    /\ Continues(loc[t], m) /\ Position(to, m)
    /\ to \in Helping => m.help # <<>>
    /\ FreshFor(t, to, m)
    /\ to = "RdcssFinish" /\ m.v = "UNDECIDED" => done[m.snapshot.tag].state # "SUCCEEDED"

(* What it may write to the words and to its descriptor of rdcss. *)
Writes(t) ==
    /\ \A a \in Addrs : mem'[a].tag = "kcas" => mem'[a] = mem[a] \/ Covers(mem'[a], a)
    /\ \A a \in Addrs : mem'[a].tag = "rdcss" =>
         \/ mem'[a] = mem[a]
         \/ Intends(pc[t], loc[t]) /\ mem'[a] = RTag(Slot[t], rdesc[Slot[t]].seq)
    /\ \A u \in Threads \ {t} : rdesc'[Slot[u]] = rdesc[Slot[u]]
    /\ \A s \in Slots : rdesc'[s] = rdesc[s] \/ Serves(rdesc'[s])

LEMMA NoWrites == ASSUME NEW t, UNCHANGED <<mem, rdesc>> PROVE Writes(t)
BY DEF Writes

LEMMA PassHistory ==
    ASSUME DistinctSlots, Inv, Inv', OrderInv, HistoryInv, NEW t \in Threads, NEW to, NEW m,
           UNCHANGED kdesc, Remembered, Passes(t, to, m), Writes(t)
    PROVE  HistoryInv'
<1>1. Moves(t, to, m) /\ to \notin Between /\ Continues(loc[t], m) /\ Position(to, m)
  BY DEF Passes
<1>2. Kept
  BY <1>1, SameKept DEF Between
<1>3. Grown /\ Still
  BY <1>2, KeptGrown, SameStill DEF HistoryInv
<1>4. Others(t)
  BY DEF Others, Writes
<1>5. Attentive(t, m)
  BY <1>1 DEF Attentive, Continues, Updating
<1>6. Position(to, m)'
  BY <1>1, <1>2, <1>3, GrownPosition DEF Passes
<1>7. Errand(t, to, m)'
  <2>1. PICK p, l : p = pc[t] /\ l = loc[t]
    OBVIOUS
  <2>2. Errand(t, p, l)
    BY <2>1 DEF HistoryInv
  <2> QED BY <1>1, <2>1, <2>2, GoOnErrand DEF Between
<1>8. FreshInv'
  BY <1>1, <1>4, FreshStep DEF Passes, FreshFor
<1>9. LateInv'
  <2>1. to = "RdcssFinish" /\ m.v = "UNDECIDED" => done'[m.snapshot.tag].state # "SUCCEEDED"
    <3> SUFFICES ASSUME to = "RdcssFinish", m.v = "UNDECIDED"
                 PROVE  done'[m.snapshot.tag].state # "SUCCEEDED"
      OBVIOUS
    <3>1. m.snapshot.tag \in DOMAIN done
      BY <1>1 DEF Position, Serves
    <3> QED BY <1>3, <3>1 DEF Still, Passes
  <2> QED BY <1>1, <1>3, <2>1, LateStep DEF Writes
<1> QED BY <1>1, <1>2, <1>4, <1>5, <1>6, <1>7, <1>8, <1>9, HistoryStep DEF Writes

-----------------------------------------------------------------------------

(* A place of no account in between. *)
LEMMA PlainPass ==
    ASSUME NEW t \in Threads, NEW to, NEW m, Moves(t, to, m),
           to \notin Between \cup Meeting \cup {"KcasSnapshot", "Replace", "RdcssCAS"},
           pc[t] \notin Between, Continues(loc[t], m), m.help \in Seq(DoneRuns),
           to \in Helping => m.help # <<>>
    PROVE  Passes(t, to, m)
BY DEF Passes, Position, FreshFor, Meeting, Intends

LEMMA DoneHere ==
    ASSUME Inv, HistoryInv, NEW t \in Threads
    PROVE  /\ loc[t].help \in Seq(DoneRuns) /\ loc[t].help \in Seq(Runs)
           /\ Position(pc[t], loc[t]) /\ Errand(t, pc[t], loc[t])
           /\ loc[t] \in Locals /\ Place(t, pc[t], loc[t], kdesc, rdesc)
BY Here DEF HistoryInv, Position

(* What is behind a tag that is remembered. *)
LEMMA Recall ==
    ASSUME HistoryInv, NEW w \in DOMAIN done
    PROVE  /\ w \in IssuedK /\ w \in KTags /\ w.tag = "kcas"
           /\ done[w] \in KDescs /\ done[w].entries # <<>> /\ OneEach(done[w].entries)
           /\ kdesc[w.slot].seq = w.seq => done[w] = kdesc[w.slot]
           /\ StateOf(w) # "GONE" => done[w] = kdesc[w.slot] /\ done[w].state = StateOf(w)
           /\ Decided(w) <=> ~Undecided(w)
<1>1. Memory(w)
  BY DEF HistoryInv, MemoryInv
<1>2. StateOf(w) # "GONE" => done[w] = kdesc[w.slot] /\ done[w].state = StateOf(w)
  BY <1>1 DEF Memory, StateOf
<1>3. Decided(w) <=> ~Undecided(w)
  <2>1. CASE kdesc[w.slot].seq = w.seq
    BY <1>1, <2>1 DEF Memory, StateOf, Decided, Undecided
  <2>2. CASE kdesc[w.slot].seq # w.seq
    BY <1>1, <2>2 DEF Memory, StateOf, Decided, Undecided
  <2> QED BY <2>1, <2>2
<1> QED BY <1>1, <1>2, <1>3 DEF Memory, IssuedK, KTags

LEMMA LoadPass ==
    ASSUME DistinctSlots, Inv, OrderInv, HistoryInv, NEW t \in Threads, pc[t] = "Load",
           UNCHANGED <<mem, kdesc, rdesc>>, Load(t, loc[t]), mem[loc[t].addr].tag # "none"
    PROVE  \E to, m : Passes(t, to, m)
<1>1. PICK l, r : l = loc[t] /\ r = mem[l.addr]
  OBVIOUS
<1>2. l \in Locals /\ l.help \in Seq(DoneRuns) /\ l.help = <<>> /\ l.addr \in Addrs
  BY <1>1, DoneHere DEF Place
<1>3. PICK m : m = [l EXCEPT !.met = r]
  OBVIOUS
<1>4. m.fn = l.fn /\ m.addr = l.addr /\ m.request = l.request /\ m.help = l.help /\ m.met = r
  BY <1>2, <1>3 DEF Locals
<1>5. Continues(l, m) /\ pc[t] \notin Between /\ ~Installs(pc[t], l)
  BY <1>4, SameContinues DEF Between, Fillers, Installs
<1>6. CASE r.tag = "rdcss"
  <2>1. Moves(t, "RdcssSnapshot", m)
    BY <1>1, <1>3, <1>6 DEF Load, Step, Moves, Answer
  <2>2. FreshFor(t, "RdcssSnapshot", m)
    BY <1>1, <1>2, <1>4, <1>5 DEF FreshFor, Intends
  <2>3. Position("RdcssSnapshot", m)
    BY <1>2, <1>4 DEF Position
  <2>4. Passes(t, "RdcssSnapshot", m)
    BY <1>1, <1>5, <2>1, <2>2, <2>3 DEF Passes, Between, Fillers, Helping
  <2> QED BY <2>4
<1>7. CASE r.tag = "kcas"
  <2>1. Moves(t, "KcasSnapshot", m)
    BY <1>1, <1>3, <1>7 DEF Load, Step, Moves, Answer
  <2>2. r \in DOMAIN done
    BY <1>1, <1>2, <1>7 DEF HistoryInv, CoverInv, Covers
  <2>3. Position("KcasSnapshot", m)
    BY <1>2, <1>4, <2>2 DEF Position
  <2>4. FreshFor(t, "KcasSnapshot", m)
    BY DEF FreshFor, Intends, Meeting
  <2>5. Passes(t, "KcasSnapshot", m)
    BY <1>1, <1>5, <2>1, <2>3, <2>4 DEF Passes, Between, Fillers, Helping
  <2> QED BY <2>5
<1>8. r.tag \in {"none", "kcas", "rdcss"}
  BY <1>1, <1>2 DEF Inv, MemInv, Words, Plain, IssuedK, IssuedR, KTags, RTags
<1> QED BY <1>1, <1>6, <1>7, <1>8

LEMMA KcasSnapshotPass ==
    ASSUME DistinctSlots, Inv, HistoryInv, NEW t \in Threads, pc[t] = "KcasSnapshot",
           KcasSnapshot(t, loc[t])
    PROVE  \E to, m : Passes(t, to, m)
<1>1. PICK l, w, d : l = loc[t] /\ w = l.met /\ d = kdesc[w.slot]
  OBVIOUS
<1>2. l \in Locals /\ l.help \in Seq(DoneRuns) /\ l.help \in Seq(Runs) /\ w \in DOMAIN done
      /\ (l.help = <<>> => l.fn = "read")
  BY <1>1, DoneHere DEF Position, Place
<1>3. pc[t] \notin Between
  BY DEF Between, Fillers
<1>4. CASE d.seq = w.seq
  <2>1. PICK f : f = HelpFrame(w, d.entries, TRUE)
    OBVIOUS
  <2>2. done[w] = d /\ w \in IssuedK /\ w \in KTags /\ d \in KDescs /\ d.entries # <<>>
    BY <1>1, <1>2, <1>4, Recall
  <2>3. f \in DoneRuns
    <3>1. f = [tag |-> w, entries |-> d.entries, i |-> 2, newstate |-> "SUCCEEDED"]
      BY <2>1 DEF HelpFrame
    <3>2. f \in Frames /\ f.tag = w /\ f.entries = d.entries
      BY <2>2, <3>1 DEF Frames, KDescs, States
    <3> QED BY <1>1, <1>2, <2>2, <3>2 DEF DoneRuns, Runs
  <2>4. PICK h, m : h = Append(l.help, f) /\ m = [l EXCEPT !.help = h]
    OBVIOUS
  <2>5. h \in Seq(DoneRuns) /\ h # <<>>
    BY <1>2, <2>3, <2>4, Push
  <2>6. m.fn = l.fn /\ m.addr = l.addr /\ m.request = l.request /\ m.help = h
    BY <1>2, <2>4 DEF Locals
  <2>7. Continues(l, m)
    <3>1. f \in Runs
      BY <2>3 DEF DoneRuns
    <3> QED BY <1>2, <2>4, <2>6, <3>1, PushContinues
  <2>8. Moves(t, "HelpState", m)
    BY <1>1, <1>4, <2>1, <2>4 DEF KcasSnapshot, Step, Moves
  <2>9. Passes(t, "HelpState", m)
    BY <1>1, <1>3, <2>5, <2>6, <2>7, <2>8, PlainPass DEF Between, Fillers, Meeting
  <2> QED BY <2>9
<1>5. CASE d.seq # w.seq
  <2>1. Moves(t, AfterHelp(l), l)
    BY <1>1, <1>5 DEF KcasSnapshot, Step, Moves
  <2>2. Continues(l, l)
    BY DEF Continues
  <2>3. Passes(t, AfterHelp(l), l)
    BY <1>1, <1>2, <1>3, <2>1, <2>2, PlainPass DEF Between, Fillers, Meeting, AfterHelp, Helping
  <2> QED BY <2>3
<1> QED BY <1>4, <1>5

(* The update with the tag w was decided, and r says how. *)
Answers(w, r) == Decided(w) /\ r = (done[w].state = "SUCCEEDED")

(* execute is over: its update was decided. *)
Finishes(t, m) ==
    /\ Moves(t, "Return", m) /\ pc[t] \notin Between /\ Updating(t)
    /\ m.fn = "execute" /\ m.help = <<>> /\ m.request = loc[t].request
    /\ Answers(loc[t].help[1].tag, m.result)

Proceeds(t) == \E m : Finishes(t, m) \/ \E to : Passes(t, to, m)

LEMMA HelpReturnsPass ==
    ASSUME Inv, HistoryInv, NEW t \in Threads, pc[t] \in Helping, NEW r, HelpReturns(t, loc[t], r),
           loc[t].fn = "execute" /\ Front(loc[t].help) = <<>> => Answers(Top(loc[t]).tag, r)
    PROVE  Proceeds(t)
<1>1. PICK l, h, rest : l = loc[t] /\ h = Front(l.help) /\ rest = [l EXCEPT !.help = h]
  OBVIOUS
<1>2. /\ l \in Locals /\ l.help # <<>> /\ l.help \in Seq(DoneRuns) /\ l.help \in Seq(Runs)
      /\ l.fn \in {"read", "execute"}
  BY <1>1, DoneHere DEF Place, Helping, Locals
<1>3. /\ rest = [l EXCEPT !.help = Front(@)] /\ rest.help = h
      /\ rest.fn = l.fn /\ rest.addr = l.addr /\ rest.request = l.request
  BY <1>1, <1>2 DEF Locals
<1>4. h \in Seq(DoneRuns)
  BY <1>1, <1>2, TopDone
<1>5. pc[t] \notin Between
  BY DEF Between, Fillers, Helping
<1>6. CASE rest.help = <<>> /\ l.fn = "execute"
  <2>1. PICK m : m = [rest EXCEPT !.result = r]
    OBVIOUS
  <2>2. m.help = <<>> /\ m.fn = "execute" /\ m.request = l.request /\ m.result = r
    <3>1. rest = [l EXCEPT !.help = h]
      BY <1>1
    <3> QED BY <1>2, <1>3, <1>6, <2>1, <3>1 DEF Locals
  <2>3. Moves(t, "Return", m)
    BY <1>1, <1>3, <1>6, <2>1 DEF HelpReturns, Answer, Step, Moves
  <2>4. Top(l) = l.help[1]
    <3>1. Front(l.help) = <<>> /\ l.help # <<>> /\ l.help \in Seq(Runs)
      BY <1>1, <1>2, <1>3, <1>6
    <3> QED BY <3>1, BottomFront DEF Top
  <2>5. PICK w : w = Top(l).tag
    OBVIOUS
  <2>6. Answers(w, r)
    BY <1>1, <1>3, <1>6, <2>5
  <2>7. Updating(t) /\ loc[t].help[1].tag = w
    BY <1>1, <1>2, <1>6, <2>4, <2>5 DEF Updating
  <2>8. Finishes(t, m)
    BY <1>1, <1>5, <2>2, <2>3, <2>6, <2>7 DEF Finishes
  <2> QED BY <2>8 DEF Proceeds
<1>7. CASE ~(rest.help = <<>> /\ l.fn = "execute")
  <2>1. Moves(t, AfterHelp(rest), rest)
    BY <1>1, <1>3, <1>7 DEF HelpReturns, Step, Moves
  <2>2. Continues(l, rest)
    <3>1. rest.help = Front(l.help) /\ (rest.help = <<>> => l.fn # "execute")
      BY <1>1, <1>3, <1>7
    <3>2. l.help # <<>> /\ l.help \in Seq(Runs)
      BY <1>2
    <3> QED BY <1>3, <3>1, <3>2, PopContinues
  <2>3. Passes(t, AfterHelp(rest), rest)
    BY <1>1, <1>3, <1>4, <1>5, <2>1, <2>2, PlainPass DEF Between, Fillers, Meeting, AfterHelp, Helping
  <2> QED BY <2>3 DEF Proceeds
<1> QED BY <1>6, <1>7

(* The descriptor of an update is not filled again while its thread is at  *)
(* work on it.                                                             *)
LEMMA OwnStays ==
    ASSUME Inv, HistoryInv, NEW t \in Threads, pc[t] \in Helping, loc[t].fn = "execute",
           Front(loc[t].help) = <<>>
    PROVE  StateOf(Top(loc[t]).tag) # "GONE"
<1>1. PICK l : l = loc[t]
  OBVIOUS
<1>2. l.help # <<>> /\ l.help \in Seq(Runs) /\ l.fn = "execute" /\ Front(l.help) = <<>>
  BY <1>1, DoneHere DEF Place, Helping
<1>3. Top(l) = l.help[1]
  BY <1>2, BottomFront DEF Top
<1>4. Top(l).tag = KTag(Slot[t], kdesc[Slot[t]].seq)
  BY <1>1, <1>2, <1>3, DoneHere DEF Errand
<1>5. kdesc[Slot[t]].state # "GONE"
  BY Here DEF Inv, KDescInv, KDescs, States
<1> QED BY <1>1, <1>4, <1>5 DEF StateOf, KTag

LEMMA GoneReturns ==
    ASSUME Inv, HistoryInv, NEW t \in Threads, pc[t] \in Helping, HelpReturns(t, loc[t], FALSE),
           StateOf(Top(loc[t]).tag) = "GONE"
    PROVE  Proceeds(t)
<1>1. ~(loc[t].fn = "execute" /\ Front(loc[t].help) = <<>>)
  BY OwnStays
<1> QED BY <1>1, HelpReturnsPass

LEMMA HelpStatePass ==
    ASSUME Inv, HistoryInv, NEW t \in Threads, pc[t] = "HelpState", HelpState(t, loc[t])
    PROVE  Proceeds(t)
<1>1. PICK l : l = loc[t]
  OBVIOUS
<1>2. l.help # <<>> /\ l.help \in Seq(DoneRuns) /\ pc[t] \in Helping /\ pc[t] \notin Between
  BY <1>1, DoneHere DEF Place, Helping, Between, Fillers
<1>3. ASSUME NEW to \in {"Prepare", "Outcome"}, Step(t, to, l) PROVE Proceeds(t)
  <2>1. Moves(t, to, l) /\ Continues(l, l)
    BY <1>3 DEF Step, Moves, Continues
  <2>2. Passes(t, to, l)
    BY <1>1, <1>2, <2>1, PlainPass DEF Between, Fillers, Meeting
  <2> QED BY <2>2 DEF Proceeds
<1>4. CASE StateOf(Top(l).tag) = "GONE"
  <2>1. HelpReturns(t, loc[t], FALSE)
    BY <1>1, <1>4 DEF HelpState
  <2> QED BY <1>1, <1>2, <1>4, <2>1, GoneReturns
<1>5. CASE StateOf(Top(l).tag) # "GONE"
  <2>1. Step(t, "Prepare", l) \/ Step(t, "Outcome", l)
    BY <1>1, <1>5 DEF HelpState
  <2> QED BY <1>3, <2>1
<1> QED BY <1>4, <1>5

LEMMA RdcssSnapshotPass ==
    ASSUME Inv, HistoryInv, NEW t \in Threads, pc[t] = "RdcssSnapshot", UNCHANGED rdesc,
           RdcssSnapshot(t, loc[t])
    PROVE  Proceeds(t)
<1>1. PICK l, d : l = loc[t] /\ d = rdesc[l.met.slot]
  OBVIOUS
<1>2. /\ l \in Locals /\ l.help \in Seq(DoneRuns) /\ pc[t] \notin Between /\ pc[t] \in Meeting
      /\ l.met.tag = "rdcss" /\ l.met \in Words
  BY <1>1, DoneHere, Here DEF Place, Between, Fillers, Meeting
<1>3. CASE d.seq = l.met.seq
  <2>1. PICK m : m = [l EXCEPT !.snapshot = d, !.then = AfterRdcss(l)]
    OBVIOUS
  <2>2. l.met \in IssuedR
    BY <1>2 DEF Words, Plain, IssuedK, KTags
  <2>3. Serves(d)
    <3>1. d \in RDescs /\ l.met.slot \in Slots
      BY <1>1, <2>2 DEF IssuedR, RTags
    <3>2. d # Unused
      BY <3>1 DEF RDescs, Unused
    <3> QED BY <1>1, <3>1, <3>2 DEF HistoryInv, ServesInv
  <2>4. /\ m.fn = l.fn /\ m.addr = l.addr /\ m.request = l.request /\ m.help = l.help
        /\ m.met = l.met /\ m.snapshot = d /\ m.then = AfterRdcss(l)
    BY <1>2, <2>1 DEF Locals
  <2>5. Moves(t, "RdcssRead", m)
    BY <1>1, <1>3, <2>1 DEF RdcssSnapshot, Step, Moves
  <2>6. Position("RdcssRead", m)
    BY <1>2, <2>3, <2>4 DEF Position
  <2>7. FreshFor(t, "RdcssRead", m)
    BY <1>1, <1>2, <2>4 DEF FreshFor, Intends, AfterRdcss
  <2>8. Continues(l, m)
    BY <2>4, SameContinues
  <2>9. Passes(t, "RdcssRead", m)
    BY <1>1, <1>2, <2>5, <2>6, <2>7, <2>8 DEF Passes, Between, Fillers, Helping
  <2> QED BY <2>9 DEF Proceeds
<1>4. CASE d.seq # l.met.seq
  <2>1. Moves(t, AfterRdcss(l), l)
    BY <1>1, <1>4 DEF RdcssSnapshot, Step, Moves
  <2>2. FreshFor(t, AfterRdcss(l), l)
    BY <1>1, <1>2 DEF FreshFor, Intends, AfterRdcss, Meeting
  <2>3. Position(AfterRdcss(l), l)
    BY <1>2 DEF Position, AfterRdcss
  <2>4. Continues(l, l)
    BY DEF Continues
  <2>5. Passes(t, AfterRdcss(l), l)
    BY <1>1, <1>2, <2>1, <2>2, <2>3, <2>4 DEF Passes, AfterRdcss, Between, Fillers, Helping
  <2> QED BY <2>5 DEF Proceeds
<1> QED BY <1>3, <1>4

LEMMA RdcssReadPass ==
    ASSUME Inv, HistoryInv, NEW t \in Threads, pc[t] = "RdcssRead", UNCHANGED rdesc,
           RdcssRead(t, loc[t])
    PROVE  Proceeds(t)
<1>1. PICK l, w : l = loc[t] /\ w = l.snapshot.tag
  OBVIOUS
<1>2. PICK m : m = [l EXCEPT !.v = StateOf(w)]
  OBVIOUS
<1>3. l \in Locals /\ l.help \in Seq(DoneRuns) /\ Serves(l.snapshot)
      /\ pc[t] \notin Between /\ pc[t] \in Meeting
  BY <1>1, DoneHere DEF Position, Between, Fillers, Meeting
<1>4. /\ m.fn = l.fn /\ m.addr = l.addr /\ m.request = l.request /\ m.help = l.help
      /\ m.met = l.met /\ m.snapshot = l.snapshot /\ m.then = l.then /\ m.v = StateOf(w)
  BY <1>2, <1>3 DEF Locals
<1>5. Moves(t, "RdcssFinish", m)
  BY <1>1, <1>2 DEF RdcssRead, Step, Moves
<1>6. m.v = "UNDECIDED" => done[w].state # "SUCCEEDED"
  <2>1. w \in DOMAIN done
    BY <1>1, <1>3 DEF Serves
  <2> QED BY <1>4, <2>1, Recall
<1>7. Position("RdcssFinish", m)
  BY <1>3, <1>4 DEF Position
<1>8. FreshFor(t, "RdcssFinish", m)
  BY <1>1, <1>3, <1>4 DEF FreshFor, Intends
<1>9. Continues(l, m)
  BY <1>4, SameContinues
<1>10. Passes(t, "RdcssFinish", m)
  BY <1>1, <1>3, <1>4, <1>5, <1>6, <1>7, <1>8, <1>9 DEF Passes, Between, Fillers, Helping
<1> QED BY <1>10 DEF Proceeds

LEMMA OutcomePass ==
    ASSUME Inv, OrderInv, HistoryInv, NEW t \in Threads, pc[t] = "Outcome", Outcome(t, loc[t])
    PROVE  Proceeds(t)
<1>1. PICK l, f, w : l = loc[t] /\ f = Top(l) /\ w = f.tag
  OBVIOUS
<1>2. /\ l \in Locals /\ l.help # <<>> /\ l.help \in Seq(DoneRuns) /\ l.help \in Seq(Runs)
      /\ pc[t] \in Helping /\ pc[t] \notin Between /\ ~Undecided(w)
  BY <1>1, DoneHere DEF Place, Helping, Between, Fillers, OrderInv, Course
<1>3. f \in DoneRuns /\ f \in Frames /\ w \in DOMAIN done /\ Front(l.help) \in Seq(DoneRuns)
  BY <1>1, <1>2, TopDone DEF DoneRuns, Runs
<1>4. CASE StateOf(w) = "GONE"
  <2>1. HelpReturns(t, loc[t], FALSE)
    BY <1>1, <1>4 DEF Outcome
  <2> QED BY <1>1, <1>2, <1>4, <2>1, GoneReturns
<1>5. CASE StateOf(w) # "GONE"
  <2>1. PICK state : state = StateOf(w)
    OBVIOUS
  <2>2. Decided(w) /\ done[w].state = state /\ state \in States
    <3>1. done[w].state = StateOf(w) /\ done[w] \in KDescs
      BY <1>3, <1>5, Recall
    <3> QED BY <1>2, <1>3, <2>1, <3>1, Recall DEF KDescs
  <2>3. PICK g : g = [f EXCEPT !.i = 1, !.newstate = state]
    OBVIOUS
  <2>4. g \in DoneRuns /\ g.tag = w /\ g.entries = f.entries /\ g.newstate = state
    <3>1. /\ f \in Frames /\ f.tag \in IssuedK /\ f.tag \in DOMAIN done /\ f.entries = done[f.tag].entries
          /\ kdesc[f.tag.slot].seq = f.tag.seq => f.entries = kdesc[f.tag.slot].entries
      BY <1>3 DEF DoneRuns, Runs
    <3>2. g \in Frames /\ g.tag = f.tag /\ g.entries = f.entries /\ g.newstate = state
      <4>1. ASSUME NEW x \in Frames, NEW j \in Nat \ {0}
            PROVE  LET y == [x EXCEPT !.i = j]
                   IN  y \in Frames /\ y.tag = x.tag /\ y.entries = x.entries
        BY DEF Frames
      <4>2. ASSUME NEW x \in Frames, NEW st \in States
            PROVE  LET y == [x EXCEPT !.newstate = st]
                   IN  y \in Frames /\ y.tag = x.tag /\ y.entries = x.entries /\ y.newstate = st
        BY DEF Frames
      <4>3. 1 \in Nat \ {0} /\ f \in Frames /\ state \in States
        BY <2>2, <3>1
      <4>4. PICK x : x = [f EXCEPT !.i = 1]
        OBVIOUS
      <4>5. x \in Frames /\ x.tag = f.tag /\ x.entries = f.entries
        BY <4>1, <4>3, <4>4, Zenon
      <4>6. g = [x EXCEPT !.newstate = state]
        BY <2>3, <4>4
      <4> QED BY <4>2, <4>3, <4>5, <4>6, Zenon
    <3>3. g \in Runs
      BY <3>1, <3>2 DEF Runs
    <3>4. g.tag \in DOMAIN done /\ g.entries = done[g.tag].entries
      BY <3>1, <3>2
    <3> QED BY <1>1, <3>2, <3>3, <3>4 DEF DoneRuns
  <2>5. PICK h, m : h = Append(Front(l.help), g) /\ m = [l EXCEPT !.help = h]
    OBVIOUS
  <2>6. h \in Seq(DoneRuns) /\ h # <<>> /\ Last(h) = g
    BY <1>3, <2>4, <2>5, Push
  <2>7. m.fn = l.fn /\ m.addr = l.addr /\ m.request = l.request /\ m.help = h
    BY <1>2, <2>5 DEF Locals
  <2>8. Continues(l, m)
    <3>1. g \in Runs /\ g.tag = Top(l).tag /\ g.entries = Top(l).entries
      BY <1>1, <2>4 DEF DoneRuns
    <3> QED BY <1>2, <2>5, <2>7, <3>1, SwapContinues
  <2>9. Moves(t, "Replace", m)
    <3>1. m = WithTop(l, g)
      BY <2>5 DEF WithTop
    <3> QED BY <1>1, <1>5, <2>1, <2>3, <3>1 DEF Outcome, Step, Moves
  <2>10. Position("Replace", m)
    <3>1. Top(m) = g
      BY <2>6, <2>7 DEF Top
    <3> QED BY <2>2, <2>4, <2>6, <2>7, <3>1 DEF Position
  <2>11. FreshFor(t, "Replace", m)
    BY DEF FreshFor, Intends, Meeting
  <2>12. Passes(t, "Replace", m)
    BY <1>1, <1>2, <2>6, <2>7, <2>8, <2>9, <2>10, <2>11 DEF Passes, Between, Fillers
  <2> QED BY <2>12 DEF Proceeds
<1> QED BY <1>4, <1>5

(* The words stand for the same values. *)
SameWords == \A a \in Addrs : Logical(a)' = Logical(a)

LEMMA EntryFound ==
    ASSUME NEW es, OneEach(es), NEW i \in DOMAIN es
    PROVE  EntryAt(es, es[i].addr) = es[i]
<1>1. PICK j : j = CHOOSE k \in DOMAIN es : es[k].addr = es[i].addr
  OBVIOUS
<1>2. j \in DOMAIN es /\ es[j].addr = es[i].addr
  BY <1>1
<1> QED BY <1>1, <1>2 DEF EntryAt, OneEach

LEMMA WordTags ==
    ASSUME Inv, NEW a \in Addrs
    PROVE  mem[a].tag \in {"none", "kcas", "rdcss"} /\ mem[a] \in Words
           /\ mem[a] \in Plain \cup KTags \cup RTags
BY DEF Inv, MemInv, Words, Plain, IssuedK, IssuedR, KTags, RTags

LEMMA LogicalSame ==
    ASSUME Inv, HistoryInv, Still, NEW a \in Addrs, mem'[a] = mem[a],
           mem[a].tag = "rdcss" => rdesc'[mem[a].slot] = rdesc[mem[a].slot]
    PROVE  Logical(a)' = Logical(a)
<1>1. PICK w : w = mem[a]
  OBVIOUS
<1>2. w.tag \in {"none", "kcas", "rdcss"}
  BY <1>1, WordTags
<1>3. CASE w.tag = "kcas"
  <2>1. w \in DOMAIN done
    BY <1>1, <1>3 DEF HistoryInv, CoverInv, Covers
  <2>2. done'[w] = done[w]
    BY <2>1 DEF Still
  <2> QED BY <1>1, <1>3, <2>2 DEF Logical
<1>4. CASE w.tag = "rdcss"
  BY <1>1, <1>4 DEF Logical
<1>5. CASE w.tag = "none"
  BY <1>1, <1>5 DEF Logical
<1> QED BY <1>2, <1>3, <1>4, <1>5

LEMMA LogicalUnder ==
    ASSUME Inv, HistoryInv, NEW a \in Addrs, NEW w \in DOMAIN done, mem[a] = w,
           NEW i \in DOMAIN done[w].entries, done[w].entries[i].addr = a
    PROVE  Logical(a) = IF done[w].state = "SUCCEEDED" THEN done[w].entries[i].new
                                                       ELSE done[w].entries[i].old
<1>1. w.tag = "kcas" /\ OneEach(done[w].entries)
  BY Recall
<1>2. EntryAt(done[w].entries, a) = done[w].entries[i]
  <2>1. PICK es : es = done[w].entries
    OBVIOUS
  <2>2. EntryAt(es, es[i].addr) = es[i]
    BY <1>1, <2>1, EntryFound
  <2> QED BY <2>1, <2>2
<1> QED BY <1>1, <1>2 DEF Logical

LEMMA PrepareWords ==
    ASSUME DistinctSlots, Inv, OrderInv, HistoryInv, Still, NEW t \in Threads, UNCHANGED mem,
           ~Installs(pc[t], loc[t]), \A u \in Threads \ {t} : rdesc'[Slot[u]] = rdesc[Slot[u]]
    PROVE  SameWords
<1> SUFFICES ASSUME NEW a \in Addrs PROVE Logical(a)' = Logical(a)
  BY DEF SameWords
<1>1. mem[a].tag = "rdcss" => rdesc'[mem[a].slot] = rdesc[mem[a].slot]
  <2> SUFFICES ASSUME mem[a].tag = "rdcss" PROVE rdesc'[mem[a].slot] = rdesc[mem[a].slot]
    OBVIOUS
  <2>1. PICK u \in Threads : Attends(u, pc[u], loc[u], a)
    BY DEF OrderInv, AttendedInv
  <2>2. u # t /\ Slot[u] = mem[a].slot
    BY <2>1 DEF Attends
  <2> QED BY <2>2
<1> QED BY <1>1, LogicalSame

LEMMA QuietWords ==
    ASSUME Inv, HistoryInv, Still, UNCHANGED <<mem, rdesc>>
    PROVE  SameWords
BY LogicalSame DEF SameWords

LEMMA PreparePass ==
    ASSUME DistinctSlots, Inv, OrderInv, HistoryInv, NEW t \in Threads, pc[t] = "Prepare",
           Still, Prepare(t, loc[t])
    PROVE  Proceeds(t) /\ Writes(t) /\ SameWords
<1>1. PICK l, f, s : l = loc[t] /\ f = Top(l) /\ s = Slot[t]
  OBVIOUS
<1>2. /\ l \in Locals /\ l.help # <<>> /\ l.help \in Seq(DoneRuns) /\ l.help \in Seq(Runs)
      /\ pc[t] \notin Between /\ ~Installs(pc[t], l) /\ s \in Slots
  BY <1>1, DoneHere, Here DEF Place, Helping, Between, Fillers, Installs
<1>3. Continues(l, l)
  BY DEF Continues
<1>4. CASE f.i > Len(f.entries)
  <2>1. Moves(t, "Decide", l) /\ UNCHANGED <<mem, kdesc, rdesc>>
    BY <1>1, <1>4 DEF Prepare, Step, Moves
  <2>2. Passes(t, "Decide", l)
    BY <1>1, <1>2, <1>3, <2>1, PlainPass DEF Between, Fillers, Meeting
  <2> QED BY <2>1, <2>2, NoWrites, QuietWords DEF Proceeds
<1>5. CASE ~(f.i > Len(f.entries))
  <2>1. PICK w, e, d : /\ w = f.tag /\ e = f.entries[f.i]
                       /\ d = [seq |-> rdesc[s].seq + 1, tag |-> w, addr |-> e.addr,
                               old |-> Value(e.old)]
    OBVIOUS
  <2>2. Moves(t, "RdcssCAS", l) /\ UNCHANGED <<mem, kdesc>> /\ rdesc' = [rdesc EXCEPT ![s] = d]
    BY <1>1, <1>5, <2>1 DEF Prepare, Step, Moves
  <2>3. rdesc \in [Slots -> {Unused} \cup Snapshots]
    BY DEF Inv, RDescInv
  <2>4. rdesc[s].seq \in Nat
    BY <1>2, <2>3 DEF Unused, Snapshots, RDescs
  <2>5. rdesc'[s] = d /\ d.seq > rdesc[s].seq /\ \A r \in Slots \ {s} : rdesc'[r] = rdesc[r]
    BY <1>2, <2>1, <2>2, <2>3, <2>4
  <2>6. \A u \in Threads \ {t} : rdesc'[Slot[u]] = rdesc[Slot[u]]
    <3> SUFFICES ASSUME NEW u \in Threads \ {t} PROVE rdesc'[Slot[u]] = rdesc[Slot[u]]
      OBVIOUS
    <3>1. Slot[u] \in Slots \ {s}
      BY <1>1 DEF Slots, DistinctSlots
    <3> QED BY <2>5, <3>1
  <2>7. w \in DOMAIN done /\ f.entries = done[w].entries /\ f \in Runs
    BY <1>1, <1>2, <2>1, TopDone
  <2>8. f.i \in DOMAIN f.entries
    <3>1. f.entries \in Seq(Entries) /\ f.i \in Nat \ {0}
      BY <2>7, RunEntries
    <3>2. Len(f.entries) \in Nat /\ DOMAIN f.entries = 1 .. Len(f.entries)
      BY <3>1, LenProperties
    <3> QED BY <1>5, <3>1, <3>2
  <2>9. Serves(d)
    BY <2>1, <2>7, <2>8 DEF Serves
  <2>10. Writes(t)
    BY <2>2, <2>5, <2>6, <2>9 DEF Writes
  <2>11. FreshFor(t, "RdcssCAS", l)
    <3>1. rdesc'[Slot[t]].seq > rdesc[Slot[t]].seq
      BY <1>1, <2>5
    <3> QED BY <3>1 DEF FreshFor, Meeting
  <2>12. Position("RdcssCAS", l)
    BY <1>2 DEF Position
  <2>13. Passes(t, "RdcssCAS", l)
    BY <1>1, <1>2, <1>3, <2>2, <2>11, <2>12 DEF Passes, Between, Fillers
  <2>14. SameWords
    BY <1>1, <1>2, <2>2, <2>6, PrepareWords
  <2> QED BY <2>10, <2>13, <2>14 DEF Proceeds
<1> QED BY <1>4, <1>5

(* An entry is tried with rdcss. *)
LEMMA RdcssCASPass ==
    ASSUME DistinctSlots, Inv, OrderInv, HistoryInv, NEW t \in Threads, pc[t] = "RdcssCAS",
           Still, RdcssCAS(t, loc[t])
    PROVE  Proceeds(t) /\ Writes(t) /\ SameWords
<1>1. PICK l, d, f, r, tag, next :
          /\ l = loc[t] /\ d = rdesc[Slot[t]] /\ f = Top(l) /\ r = mem[d.addr]
          /\ tag = RTag(Slot[t], d.seq) /\ next = [f EXCEPT !.i = @ + 1]
  OBVIOUS
<1>2. /\ l \in Locals /\ l.help # <<>> /\ l.help \in Seq(DoneRuns) /\ l.help \in Seq(Runs)
      /\ pc[t] \notin Between /\ ~Installs(pc[t], l) /\ d \in RDescs /\ Slot[t] \in Slots
      /\ mem \in [Addrs -> Words]
  BY <1>1, DoneHere, Here DEF Place, Helping, Between, Fillers, Installs, Inv, MemInv
<1>3. /\ f \in DoneRuns /\ f \in Runs /\ f \in Frames /\ Front(l.help) \in Seq(DoneRuns)
  BY <1>1, <1>2, TopDone DEF DoneRuns, Runs
<1>4. d.addr \in Addrs /\ d.old \in Plain /\ d.seq \in Nat /\ r \in Words
  BY <1>1, <1>2 DEF RDescs
<1>5. Serves(d)
  <2>1. d # Unused
    BY <1>2 DEF RDescs, Unused
  <2> QED BY <1>1, <1>2, <2>1 DEF HistoryInv, ServesInv
<1>6. UNCHANGED <<kdesc, rdesc>> /\ CASWord(d.addr, d.old, tag)
  BY <1>1 DEF RdcssCAS, CASWord
<1>7. /\ next \in DoneRuns /\ next.tag = f.tag /\ next.entries = f.entries
  <2>1. f.i \in Nat \ {0}
    BY <1>3 DEF Frames
  <2>2. f.i + 1 \in Nat \ {0}
    BY <2>1
  <2> QED BY <1>1, <1>3, <2>2 DEF DoneRuns, Runs, Frames
<1>8. PICK n : n = NextEntry(l)
  OBVIOUS
<1>9. n = [l EXCEPT !.help = Append(Front(l.help), next)] /\ n.help = Append(Front(l.help), next)
      /\ n \in Locals
  <2>1. n = WithTop(l, next)
    BY <1>1, <1>8 DEF NextEntry
  <2>2. next \in Runs
    BY <1>7 DEF DoneRuns
  <2>3. n \in Locals /\ n = [l EXCEPT !.help = Append(Front(l.help), next)]
    BY <1>2, <2>1, <2>2, WithTopOK
  <2> QED BY <1>2, <2>3 DEF Locals
<1>10. ASSUME NEW g \in DoneRuns, g.tag = f.tag, g.entries = f.entries, NEW m,
              m.help = Append(Front(l.help), g),
              m.fn = l.fn, m.addr = l.addr, m.request = l.request
       PROVE  Continues(l, m) /\ m.help \in Seq(DoneRuns) /\ m.help # <<>>
  <2>1. g \in Runs /\ g.tag = Top(l).tag /\ g.entries = Top(l).entries
    BY <1>1, <1>10 DEF DoneRuns
  <2>2. Continues(l, m)
    BY <1>2, <1>10, <2>1, SwapContinues
  <2> QED BY <1>3, <1>10, <2>2, Push
<1>11. CASE /\ r = d.old
            /\ Step(t, "RdcssRead", [NextEntry(l) EXCEPT !.met = tag, !.snapshot = d,
                                                         !.then = "Prepare"])
  <2>1. PICK m : m = [n EXCEPT !.met = tag, !.snapshot = d, !.then = "Prepare"]
    OBVIOUS
  <2>2. /\ m.help = n.help /\ m.met = tag /\ m.snapshot = d /\ m.then = "Prepare"
        /\ m.fn = l.fn /\ m.addr = l.addr /\ m.request = l.request
    <3>1. n.fn = l.fn /\ n.addr = l.addr /\ n.request = l.request
      BY <1>2, <1>9 DEF Locals
    <3> QED BY <1>9, <2>1, <3>1 DEF Locals
  <2>3. Moves(t, "RdcssRead", m)
    BY <1>8, <1>11, <2>1 DEF Step, Moves
  <2>4. mem' = [mem EXCEPT ![d.addr] = tag]
    BY <1>1, <1>6, <1>11 DEF CASWord
  <2>5. Continues(l, m) /\ m.help \in Seq(DoneRuns) /\ m.help # <<>>
    BY <1>7, <1>9, <1>10, <2>2
  <2>6. Position("RdcssRead", m)
    BY <1>5, <2>2, <2>5 DEF Position
  <2>7. FreshFor(t, "RdcssRead", m)
    BY <1>1, <2>2 DEF FreshFor, Intends, Installs, RTag
  <2>8. Passes(t, "RdcssRead", m)
    BY <1>1, <1>2, <2>3, <2>5, <2>6, <2>7 DEF Passes, Between, Fillers, Helping
  <2>9. Writes(t)
    <3>1. Intends(pc[t], loc[t]) /\ tag.tag = "rdcss"
      BY <1>1 DEF Intends, RTag
    <3>2. \A a \in Addrs : mem'[a] = mem[a] \/ mem'[a] = tag
      BY <1>2, <2>4
    <3>3. tag = RTag(Slot[t], rdesc[Slot[t]].seq)
      BY <1>1
    <3> QED BY <1>6, <3>1, <3>2, <3>3 DEF Writes
  <2>10. SameWords
    <3> SUFFICES ASSUME NEW a \in Addrs PROVE Logical(a)' = Logical(a)
      BY DEF SameWords
    <3>1. CASE a = d.addr
      <4>1. mem[a] = d.old /\ mem'[a] = tag /\ d.old.tag = "none"
        BY <1>1, <1>2, <1>4, <1>11, <2>4, <3>1 DEF Plain
      <4>2. Logical(a) = d.old.v
        BY <4>1 DEF Logical
      <4>3. tag.tag = "rdcss" /\ rdesc'[tag.slot] = d
        BY <1>1, <1>6 DEF RTag
      <4>4. Logical(a)' = d.old.v
        BY <4>1, <4>3 DEF Logical
      <4> QED BY <4>2, <4>4
    <3>2. CASE a # d.addr
      <4>1. mem'[a] = mem[a]
        BY <1>2, <2>4, <3>2
      <4> QED BY <1>6, <4>1, LogicalSame
    <3> QED BY <3>1, <3>2
  <2> QED BY <2>8, <2>9, <2>10 DEF Proceeds
<1>12. ASSUME r # d.old, Proceeds(t) PROVE Proceeds(t) /\ Writes(t) /\ SameWords
  <2>1. UNCHANGED <<mem, rdesc>>
    BY <1>1, <1>6, <1>12 DEF CASWord
  <2> QED BY <1>12, <2>1, NoWrites, QuietWords
<1>13. ASSUME NEW to, Step(t, to, [l EXCEPT !.met = r]), UNCHANGED rdesc,
              \/ to = "RdcssSnapshot"
              \/ to = "KcasSnapshot" /\ r.tag = "kcas"
       PROVE  Proceeds(t)
  <2>1. PICK m : m = [l EXCEPT !.met = r]
    OBVIOUS
  <2>2. /\ m.help = l.help /\ m.met = r
        /\ m.fn = l.fn /\ m.addr = l.addr /\ m.request = l.request
    BY <1>2, <2>1 DEF Locals
  <2>3. Moves(t, to, m)
    BY <1>13, <2>1 DEF Step, Moves
  <2>4. Continues(l, m)
    BY <2>2, SameContinues
  <2>5. Position(to, m)
    <3>1. r.tag = "kcas" => r \in DOMAIN done
      BY <1>1, <1>4 DEF HistoryInv, CoverInv, Covers
    <3> QED BY <1>2, <1>13, <2>2, <3>1 DEF Position
  <2>6. FreshFor(t, to, m)
    <3>1. Intends(pc[t], loc[t])
      BY DEF Intends
    <3>2. \E a \in Addrs : m.met = mem[a]
      BY <1>1, <1>4, <2>2
    <3> QED BY <1>1, <1>2, <1>13, <3>1, <3>2 DEF FreshFor
  <2>7. Passes(t, to, m)
    BY <1>1, <1>2, <1>13, <2>3, <2>4, <2>5, <2>6 DEF Passes, Between, Fillers, Helping
  <2> QED BY <2>7 DEF Proceeds
<1>14. ASSUME Step(t, "Prepare", NextEntry(l)) PROVE Proceeds(t)
  <2>1. Moves(t, "Prepare", n)
    BY <1>8, <1>14 DEF Step, Moves
  <2>2. n.fn = l.fn /\ n.addr = l.addr /\ n.request = l.request
    BY <1>2, <1>9 DEF Locals
  <2>3. Continues(l, n) /\ n.help \in Seq(DoneRuns) /\ n.help # <<>>
    BY <1>7, <1>9, <1>10, <2>2
  <2>4. Passes(t, "Prepare", n)
    BY <1>1, <1>2, <2>1, <2>3, PlainPass DEF Between, Fillers, Meeting
  <2> QED BY <2>4 DEF Proceeds
<1>15. ASSUME Step(t, "Decide", WithTop(l, [Top(l) EXCEPT !.newstate = "FAILED"]))
       PROVE  Proceeds(t)
  <2>1. PICK g, m : /\ g = [f EXCEPT !.newstate = "FAILED"]
                    /\ m = [l EXCEPT !.help = Append(Front(l.help), g)]
    OBVIOUS
  <2>2. Moves(t, "Decide", m)
    BY <1>1, <1>15, <2>1 DEF WithTop, Step, Moves
  <2>3. /\ m.help = Append(Front(l.help), g)
        /\ m.fn = l.fn /\ m.addr = l.addr /\ m.request = l.request
    BY <1>2, <2>1 DEF Locals
  <2>4. g \in DoneRuns /\ g.tag = f.tag /\ g.entries = f.entries
    BY <1>3, <2>1 DEF DoneRuns, Runs, Frames, States
  <2>5. Continues(l, m) /\ m.help \in Seq(DoneRuns) /\ m.help # <<>>
    BY <1>10, <2>3, <2>4
  <2>6. Passes(t, "Decide", m)
    BY <1>1, <1>2, <2>2, <2>5, PlainPass DEF Between, Fillers, Meeting
  <2> QED BY <2>6 DEF Proceeds
<1> QED BY <1>1, <1>6, <1>11, <1>12, <1>13, <1>14, <1>15 DEF RdcssCAS

(* rdcss puts the tag of the update in the word, or takes back its own.    *)
LEMMA RdcssFinishPass ==
    ASSUME DistinctSlots, Inv, OrderInv, HistoryInv, NEW t \in Threads, pc[t] = "RdcssFinish",
           Still, RdcssFinish(t, loc[t])
    PROVE  Proceeds(t) /\ Writes(t) /\ SameWords
<1>1. PICK l, d, x, tag, new :
          /\ l = loc[t] /\ d = l.snapshot /\ x = d.addr /\ tag = d.tag
          /\ new = IF l.v = "UNDECIDED" THEN tag ELSE d.old
  OBVIOUS
<1>2. /\ l \in Locals /\ mem \in [Addrs -> Words] /\ Place(t, "RdcssFinish", l, kdesc, rdesc)
      /\ l.help \in Seq(DoneRuns) /\ Serves(d) /\ pc[t] \notin Between
  BY <1>1, DoneHere DEF Inv, MemInv, Between, Fillers, Position
<1>3. l.met.tag = "rdcss" /\ d \in RDescs /\ x \in Addrs /\ tag \in KTags /\ d.old \in Plain
  BY <1>1, <1>2 DEF Place, RDescs
<1>4. CASWord(x, l.met, new) /\ UNCHANGED <<kdesc, rdesc>> /\ Moves(t, l.then, l)
  BY <1>1 DEF RdcssFinish, CASWord, Step, Moves
<1>5. \A a \in Addrs : mem'[a] = mem[a] \/ (a = x /\ mem[a] = l.met /\ mem'[a] = new)
  BY <1>2, <1>4 DEF CASWord
<1>6. tag \in DOMAIN done /\ \E i \in DOMAIN done[tag].entries :
         done[tag].entries[i].addr = x /\ d.old = Value(done[tag].entries[i].old)
  BY <1>1, <1>2 DEF Serves
<1>7. Proceeds(t)
  <2>1. Continues(l, l)
    BY DEF Continues
  <2>2. l.then \in {"Load", "RdcssCAS", "Prepare"} /\ (l.then # "Load" => l.help # <<>>)
    BY <1>2 DEF Place
  <2>3. Position(l.then, l)
    BY <1>2, <2>2 DEF Position
  <2>4. FreshFor(t, l.then, l)
    BY <1>1, <1>4, <2>2 DEF FreshFor, Meeting, Intends
  <2>5. Passes(t, l.then, l)
    BY <1>1, <1>2, <1>4, <2>1, <2>2, <2>3, <2>4 DEF Passes, Between, Fillers, Helping
  <2> QED BY <2>5 DEF Proceeds
<1>8. Writes(t)
  <2>1. new.tag # "rdcss" /\ (new.tag = "kcas" => new = tag)
    BY <1>1, <1>3 DEF KTags, Plain
  <2>2. Covers(tag, x)
    BY <1>6 DEF Covers
  <2> QED BY <1>4, <1>5, <2>1, <2>2 DEF Writes
<1>9. SameWords
  <2> SUFFICES ASSUME NEW a \in Addrs PROVE Logical(a)' = Logical(a)
    BY DEF SameWords
  <2>1. CASE mem'[a] = mem[a]
    BY <1>4, <2>1, LogicalSame
  <2>2. CASE a = x /\ mem[a] = l.met /\ mem'[a] = new
    <3>1. PICK u \in Threads : Attends(u, pc[u], loc[u], a)
      BY <1>3, <2>2 DEF OrderInv, AttendedInv
    <3>2. PICK k : k = loc[u]
      OBVIOUS
    <3>3. Installs(pc[u], k) /\ k.met = l.met
      BY <2>2, <3>1, <3>2 DEF Attends
    <3>4. k.met = RTag(Slot[u], rdesc[Slot[u]].seq)
      BY <3>2, <3>3 DEF OrderInv, Course
    <3>5. rdesc[l.met.slot] = d
      BY <1>1, <1>2, <3>3, <3>4 DEF Place, RTag
    <3>6. Logical(a) = d.old.v
      BY <1>3, <2>2, <3>5 DEF Logical
    <3>7. CASE new = d.old
      <4>1. mem'[a].tag = "none" /\ mem'[a].v = d.old.v
        BY <1>3, <2>2, <3>7 DEF Plain
      <4> QED BY <3>6, <4>1 DEF Logical
    <3>8. CASE l.v = "UNDECIDED" /\ new = tag
      <4>1. done[tag].state # "SUCCEEDED" /\ tag.tag = "kcas" /\ OneEach(done[tag].entries)
        BY <1>1, <1>6, <2>2, <3>8, Recall DEF HistoryInv, LateInv
      <4>2. PICK es, i : /\ es = done[tag].entries /\ i \in DOMAIN es /\ es[i].addr = x
                         /\ d.old = Value(es[i].old)
        BY <1>6
      <4>3. EntryAt(es, x) = es[i]
        BY <4>1, <4>2, EntryFound
      <4>4. mem'[a] = tag /\ done'[tag] = done[tag]
        BY <1>6, <2>2, <3>8 DEF Still
      <4>5. Logical(a)' = es[i].old
        BY <2>2, <4>1, <4>2, <4>3, <4>4 DEF Logical
      <4> QED BY <3>6, <4>2, <4>5 DEF Value
    <3> QED BY <1>1, <3>7, <3>8
  <2> QED BY <1>5, <2>1, <2>2
<1> QED BY <1>7, <1>8, <1>9

(* One tag is replaced by the old or the new value. *)
LEMMA ReplacePass ==
    ASSUME DistinctSlots, Inv, OrderInv, HistoryInv, NEW t \in Threads, pc[t] = "Replace",
           Still, Replace(t, loc[t])
    PROVE  Proceeds(t) /\ Writes(t) /\ SameWords
<1>1. PICK l, f, w, e, new, ok : /\ l = loc[t] /\ f = Top(l) /\ w = f.tag /\ e = f.entries[f.i]
                                 /\ ok = (f.newstate = "SUCCEEDED")
                                 /\ new = Value(IF ok THEN e.new ELSE e.old)
  OBVIOUS
<1>2. /\ l \in Locals /\ mem \in [Addrs -> Words] /\ Place(t, "Replace", l, kdesc, rdesc)
      /\ l.help # <<>> /\ l.help \in Seq(DoneRuns) /\ l.help \in Seq(Runs) /\ pc[t] \notin Between
      /\ Position("Replace", l)
  BY <1>1, DoneHere DEF Inv, MemInv, Between, Fillers, Place, Helping
<1>3. /\ f \in DoneRuns /\ f \in Runs /\ Front(l.help) \in Seq(DoneRuns)
      /\ w \in DOMAIN done /\ f.entries = done[w].entries
      /\ Decided(w) /\ f.newstate = done[w].state /\ w \in KTags /\ f.i <= Len(f.entries)
  <2>1. Decided(w) /\ f.newstate = done[w].state /\ f.i <= Len(f.entries)
    BY <1>1, <1>2 DEF Position, Place
  <2>2. f \in DoneRuns /\ f \in Runs /\ Front(l.help) \in Seq(DoneRuns)
        /\ w \in DOMAIN done /\ f.entries = done[w].entries
    BY <1>1, <1>2, TopDone
  <2> QED BY <2>1, <2>2, Recall
<1>4. f.i \in DOMAIN f.entries /\ f.i \in Nat \ {0} /\ e \in Entries /\ e.addr \in Addrs
  <2>1. f.entries \in Seq(Entries) /\ f.i \in Nat \ {0}
    BY <1>3, RunEntries
  <2>2. Len(f.entries) \in Nat /\ DOMAIN f.entries = 1 .. Len(f.entries)
    BY <2>1, LenProperties
  <2>3. f.i \in DOMAIN f.entries
    BY <1>3, <2>1, <2>2
  <2> QED BY <1>1, <1>3, <2>1, <2>3, RunEntries
<1>5. CASWord(e.addr, w, new) /\ UNCHANGED <<kdesc, rdesc>>
  BY <1>1 DEF Replace, CASWord
<1>6. \A a \in Addrs : mem'[a] = mem[a] \/ (a = e.addr /\ mem[a] = w /\ mem'[a] = new)
  BY <1>2, <1>4, <1>5 DEF CASWord
<1>7. Writes(t)
  <2>1. new.tag = "none"
    BY <1>1 DEF Value
  <2> QED BY <1>5, <1>6, <2>1 DEF Writes
<1>8. SameWords
  <2> SUFFICES ASSUME NEW a \in Addrs PROVE Logical(a)' = Logical(a)
    BY DEF SameWords
  <2>1. CASE mem'[a] = mem[a]
    BY <1>5, <2>1, LogicalSame
  <2>2. CASE a = e.addr /\ mem[a] = w /\ mem'[a] = new
    <3>1. PICK i : i = f.i
      OBVIOUS
    <3>2. i \in DOMAIN done[w].entries /\ done[w].entries[i] = e /\ done[w].entries[i].addr = a
      BY <1>1, <1>3, <1>4, <2>2, <3>1
    <3>3. Logical(a) = IF done[w].state = "SUCCEEDED" THEN done[w].entries[i].new
                                                      ELSE done[w].entries[i].old
      BY <1>3, <2>2, <3>2, LogicalUnder
    <3>4. Logical(a) = IF ok THEN e.new ELSE e.old
      BY <1>1, <1>3, <3>2, <3>3
    <3>5. mem'[a].tag = "none" /\ mem'[a].v = (IF ok THEN e.new ELSE e.old)
      BY <1>1, <2>2 DEF Value
    <3>6. Logical(a)' = mem'[a].v
      BY <3>5 DEF Logical
    <3> QED BY <3>4, <3>5, <3>6
  <2> QED BY <1>6, <2>1, <2>2
<1>9. CASE HelpReturns(t, l, ok)
  <2>1. Answers(Top(l).tag, ok)
    BY <1>1, <1>3 DEF Answers
  <2>2. Proceeds(t)
    BY <1>1, <1>9, <2>1, HelpReturnsPass DEF Helping
  <2> QED BY <1>7, <1>8, <2>2
<1>10. CASE Step(t, "Replace", NextEntry(l))
  <2>1. PICK next, m : /\ next = [f EXCEPT !.i = @ + 1]
                       /\ m = [l EXCEPT !.help = Append(Front(l.help), next)]
    OBVIOUS
  <2>2. Moves(t, "Replace", m)
    BY <1>1, <1>10, <2>1 DEF NextEntry, WithTop, Step, Moves
  <2>3. next \in DoneRuns /\ next.tag = w /\ next.entries = f.entries /\ next.newstate = f.newstate
    <3>1. f \in Frames /\ f.i + 1 \in Nat \ {0}
      BY <1>3, <1>4 DEF Runs
    <3>2. next \in Frames /\ next.tag = w /\ next.entries = f.entries /\ next.newstate = f.newstate
      BY <1>1, <2>1, <3>1 DEF Frames
    <3>3. /\ w \in IssuedK
          /\ kdesc[w.slot].seq = w.seq => f.entries = kdesc[w.slot].entries
      BY <1>1, <1>3 DEF Runs
    <3>4. next \in Runs
      BY <3>2, <3>3 DEF Runs
    <3> QED BY <1>3, <3>2, <3>4 DEF DoneRuns
  <2>4. /\ m.fn = l.fn /\ m.addr = l.addr /\ m.request = l.request
        /\ m.help = Append(Front(l.help), next)
    BY <1>2, <2>1 DEF Locals
  <2>5. m.help \in Seq(DoneRuns) /\ m.help # <<>> /\ Last(m.help) = next
    BY <1>3, <2>3, <2>4, Push
  <2>6. Continues(l, m)
    <3>1. next \in Runs /\ next.tag = Top(l).tag /\ next.entries = Top(l).entries
      BY <1>1, <2>3 DEF DoneRuns
    <3> QED BY <1>2, <2>4, <3>1, SwapContinues
  <2>7. Position("Replace", m)
    <3>1. Top(m) = next
      BY <2>5 DEF Top
    <3> QED BY <1>3, <2>3, <2>5, <3>1 DEF Position
  <2>8. FreshFor(t, "Replace", m)
    BY DEF FreshFor, Intends, Meeting
  <2>9. Passes(t, "Replace", m)
    BY <1>1, <1>2, <2>2, <2>5, <2>6, <2>7, <2>8 DEF Passes, Between, Fillers
  <2> QED BY <1>7, <1>8, <2>9 DEF Proceeds
<1> QED BY <1>1, <1>9, <1>10 DEF Replace

(* An update is decided. *)
LEMMA Deciding ==
    ASSUME DistinctSlots, Inv, OrderInv, HistoryInv, NEW t \in Threads, pc[t] = "Decide",
           Decide(t, loc[t]), Remembered,
           NEW f, f = Top(loc[t]), NEW w, w = f.tag
    PROVE  /\ Moves(t, "Outcome", loc[t]) /\ UNCHANGED <<mem, rdesc>>
           /\ w \in DOMAIN done /\ w \in KTags /\ f.newstate \in {"SUCCEEDED", "FAILED"}
           /\ kdesc' = IF StateOf(w) = "UNDECIDED" THEN [kdesc EXCEPT ![w.slot].state = f.newstate]
                                                  ELSE kdesc
           /\ \A s \in Slots : kdesc'[s].seq = kdesc[s].seq /\ kdesc'[s].entries = kdesc[s].entries
           /\ \A v \in DOMAIN done \ {w} : done'[v] = done[v]
           /\ done'[w].entries = done[w].entries
           /\ done'[w].state = IF Decided(w) THEN done[w].state ELSE f.newstate
           /\ ~Decided(w) /\ f.newstate = "SUCCEEDED" =>
                \A i \in DOMAIN done[w].entries : mem[done[w].entries[i].addr] = w
<1>1. PICK l : l = loc[t]
  OBVIOUS
<1>2. ~Installs(pc[t], loc[t]) /\ l.help # <<>> /\ l.help \in Seq(DoneRuns)
  BY <1>1, DoneHere DEF Installs, Place, Helping
<1>3. RunInv(f) /\ f \in Runs
  BY <1>1, <1>2, RunsHere
<1>4. w \in DOMAIN done /\ f.entries = done[w].entries /\ w \in KTags /\ w.slot \in Slots
  <2>1. w \in DOMAIN done /\ f.entries = done[w].entries
    BY <1>1, <1>2, TopDone
  <2> QED BY <2>1, Recall DEF KTags
<1>5. /\ Moves(t, "Outcome", loc[t]) /\ UNCHANGED <<mem, rdesc>>
      /\ kdesc' = IF StateOf(w) = "UNDECIDED" THEN [kdesc EXCEPT ![w.slot].state = f.newstate]
                                              ELSE kdesc
  BY DEF Decide, Step, Moves
<1>6. f.newstate \in {"SUCCEEDED", "FAILED"}
  <2>1. f \in Frames
    BY <1>3, RunEntries
  <2> QED BY <1>3, <2>1 DEF RunInv, Frames, States
<1>7. kdesc \in [Slots -> KDescs]
  BY DEF Inv, KDescInv
<1>8. ASSUME NEW v \in DOMAIN done
      PROVE  /\ done'[v] = IF kdesc'[v.slot].seq = v.seq THEN kdesc'[v.slot] ELSE done[v]
             /\ v \in KTags /\ v.slot \in Slots
             /\ kdesc[v.slot].seq = v.seq => done[v] = kdesc[v.slot]
  BY Recall DEF Remembered, KTags
<1>9. Decided(w) <=> StateOf(w) # "UNDECIDED"
  BY <1>4, Recall DEF Undecided
<1>10. CASE StateOf(w) # "UNDECIDED"
  <2>1. \A v \in DOMAIN done : done'[v] = done[v]
    BY <1>5, <1>8, <1>10
  <2> QED BY <1>4, <1>5, <1>6, <1>9, <1>10, <2>1
<1>11. CASE StateOf(w) = "UNDECIDED"
  <2>1. kdesc[w.slot].seq = w.seq
    BY <1>11 DEF StateOf
  <2>2. PICK d, e : d = kdesc[w.slot] /\ e = [d EXCEPT !.state = f.newstate]
    OBVIOUS
  <2>3. e.seq = d.seq /\ e.entries = d.entries /\ e.state = f.newstate
    BY <1>4, <1>7, <2>2 DEF KDescs
  <2>4. kdesc'[w.slot] = e /\ \A s \in Slots \ {w.slot} : kdesc'[s] = kdesc[s]
    BY <1>4, <1>5, <1>7, <1>11, <2>2
  <2>5. \A s \in Slots : kdesc'[s].seq = kdesc[s].seq /\ kdesc'[s].entries = kdesc[s].entries
    BY <2>2, <2>3, <2>4
  <2>6. done[w] = d /\ done'[w] = e
    <3>1. kdesc'[w.slot] = e /\ e.seq = w.seq /\ kdesc[w.slot].seq = w.seq /\ kdesc[w.slot] = d
      BY <2>1, <2>2, <2>3, <2>4
    <3>2. kdesc'[w.slot].seq = w.seq
      BY <3>1
    <3>3. done'[w] = kdesc'[w.slot]
      BY <1>4, <1>8, <3>2
    <3> QED BY <1>4, <1>8, <3>1, <3>3
  <2>7. ASSUME NEW v \in DOMAIN done \ {w} PROVE done'[v] = done[v]
    <3>1. CASE v.slot # w.slot
      BY <1>8, <2>4, <3>1
    <3>2. CASE v.slot = w.slot
      <4>1. v.seq # w.seq
        BY <1>4, <1>8, <3>2 DEF KTags
      <4>2. kdesc'[v.slot].seq # v.seq
        <5>1. kdesc'[w.slot].seq = e.seq /\ e.seq = w.seq
          BY <2>1, <2>2, <2>3, <2>4
        <5> QED BY <3>2, <4>1, <5>1
      <4> QED BY <1>8, <4>2
    <3> QED BY <3>1, <3>2
  <2>8. ASSUME f.newstate = "SUCCEEDED", NEW i \in DOMAIN done[w].entries
        PROVE  mem[done[w].entries[i].addr] = w
    <3>1. f.i > Len(f.entries)
      BY <1>1, <2>8 DEF OrderInv, Course
    <3>2. f.entries \in Seq(Entries) /\ f.i \in Nat
      BY <1>3, RunEntries
    <3>3. i \in DOMAIN f.entries /\ i < f.i
      <4>1. i \in DOMAIN f.entries /\ DOMAIN f.entries = 1 .. Len(f.entries) /\ Len(f.entries) \in Nat
        BY <1>4, <3>2, LenProperties
      <4> QED BY <3>1, <3>2, <4>1
    <3>4. Undecided(f.tag)
      BY <1>11 DEF Undecided
    <3> QED BY <1>3, <1>4, <3>3, <3>4 DEF RunInv, TaggedBelow
  <2>9. done'[w].entries = done[w].entries /\ done'[w].state = f.newstate
    BY <2>3, <2>6
  <2> QED BY <1>4, <1>5, <1>6, <1>9, <1>11, <2>5, <2>7, <2>8, <2>9
<1> QED BY <1>10, <1>11

LEMMA DecideHistory ==
    ASSUME DistinctSlots, Inv, Inv', OrderInv, HistoryInv, NEW t \in Threads, pc[t] = "Decide",
           Decide(t, loc[t]), Remembered
    PROVE  HistoryInv'
<1>1. PICK l, f, w : l = loc[t] /\ f = Top(loc[t]) /\ w = f.tag
  OBVIOUS
<1>2. /\ Moves(t, "Outcome", l) /\ UNCHANGED <<mem, rdesc>>
      /\ w \in DOMAIN done /\ w \in KTags /\ f.newstate \in {"SUCCEEDED", "FAILED"}
      /\ kdesc' = IF StateOf(w) = "UNDECIDED" THEN [kdesc EXCEPT ![w.slot].state = f.newstate]
                                              ELSE kdesc
      /\ \A s \in Slots : kdesc'[s].seq = kdesc[s].seq /\ kdesc'[s].entries = kdesc[s].entries
      /\ \A v \in DOMAIN done \ {w} : done'[v] = done[v]
      /\ done'[w].state = IF Decided(w) THEN done[w].state ELSE f.newstate
      /\ ~Decided(w) /\ f.newstate = "SUCCEEDED" =>
           \A i \in DOMAIN done[w].entries : mem[done[w].entries[i].addr] = w
  BY <1>1, Deciding
<1>3. Kept
  <2>1. f.newstate \in States /\ "Outcome" \notin Fillers
    BY <1>2 DEF States, Fillers
  <2> QED BY <1>2, <2>1, DecideKept
<1>4. Grown
  BY <1>3, KeptGrown DEF HistoryInv
<1>5. Others(t)
  <2>1. \A u \in Threads : Slot[u] \in Slots
    BY DEF Slots
  <2> QED BY <1>2, <2>1 DEF Others
<1>6. Attentive(t, l)
  <2>1. Slot[t] \in Slots
    BY Here
  <2> QED BY <1>1, <1>2, <2>1 DEF Attentive, Updating
<1>7. l.help # <<>> /\ Position("Decide", l) /\ Errand(t, "Decide", l)
  BY <1>1, DoneHere DEF Place, Helping
<1>8. Position("Outcome", l)'
  <2>1. Position("Outcome", l)
    BY <1>7 DEF Position
  <2> QED BY <1>3, <1>4, <1>7, <2>1, GrownPosition
<1>9. Errand(t, "Outcome", l)'
  <2>1. Continues(l, l) /\ "Outcome" \notin {"idle", "Start", "Return"} \cup Fillers
    BY DEF Continues, Fillers
  <2>2. kdesc'[Slot[t]].seq = kdesc[Slot[t]].seq
    BY <1>2, Here
  <2> QED BY <1>7, <2>1, <2>2, GoOnErrand
<1>10. SucceedsTagged
  <2>1. ASSUME NEW v \in DOMAIN done, ~Decided(v), done'[v].state = "SUCCEEDED",
               NEW i \in DOMAIN done[v].entries
        PROVE  mem[done[v].entries[i].addr] = v
    <3>1. v = w
      BY <1>2, <2>1 DEF Decided
    <3> QED BY <1>2, <2>1, <3>1
  <2> QED BY <1>2, <2>1 DEF SucceedsTagged
<1>11. LateInv'
  <2>1. \A a \in Addrs : mem'[a] = mem[a]
    BY <1>2
  <2> QED BY <1>2, <1>4, <1>10, <2>1, LateStep
<1>12. FreshInv'
  <2>1. "Outcome" \notin Meeting /\ ~Intends("Outcome", l)
    BY DEF Meeting, Intends
  <2> QED BY <1>2, <1>5, <2>1, FreshStep
<1>13. /\ \A a \in Addrs : mem'[a].tag = "kcas" => mem'[a] = mem[a] \/ Covers(mem'[a], a)
       /\ \A s \in Slots : rdesc'[s] = rdesc[s] \/ Serves(rdesc'[s])
  BY <1>2
<1> QED BY <1>2, <1>3, <1>5, <1>6, <1>8, <1>9, <1>11, <1>12, <1>13, HistoryStep

(* A step that leaves the descriptors of the updates as they are.          *)
LEMMA PlainHistory ==
    ASSUME DistinctSlots, Inv, Inv', OrderInv, HistoryInv, NEW t \in Threads, NEW to, NEW m,
           Moves(t, to, m), UNCHANGED kdesc, Remembered, Writes(t), to \notin Fillers,
           Attentive(t, m), m.help = <<>>, to \in {"idle", "Load", "Start", "Return"},
           Errand(t, to, m)
    PROVE  HistoryInv'
<1>1. Kept
  BY SameKept
<1>2. Grown /\ Still
  BY <1>1, KeptGrown, SameStill DEF HistoryInv
<1>3. Others(t)
  BY DEF Others, Writes
<1>4. Position(to, m)'
  <2>1. <<>> \in Seq(DoneRuns')
    BY EmptySeq
  <2> QED BY <2>1 DEF Position
<1>5. Errand(t, to, m)'
  BY DEF Errand, Filled
<1>6. FreshInv'
  <2>1. to \notin Meeting /\ ~Intends(to, m)
    BY DEF Meeting, Intends
  <2> QED BY <1>3, <2>1, FreshStep
<1>7. LateInv'
  BY <1>2, LateStep DEF Writes
<1> QED BY <1>1, <1>3, <1>4, <1>5, <1>6, <1>7, HistoryStep DEF Writes

LEMMA FinishHistory ==
    ASSUME DistinctSlots, Inv, Inv', OrderInv, HistoryInv, NEW t \in Threads, NEW m,
           Finishes(t, m), UNCHANGED kdesc, Remembered, Writes(t)
    PROVE  HistoryInv'
<1>1. Moves(t, "Return", m) /\ m.fn = "execute" /\ m.help = <<>> /\ m.request = loc[t].request
  BY DEF Finishes
<1>2. Updating(t) /\ Decided(loc[t].help[1].tag)
  BY DEF Finishes, Answers
<1>3. Attentive(t, m)
  BY <1>2 DEF Attentive
<1>4. Errand(t, pc[t], loc[t]) /\ loc[t].fn = "execute"
  BY <1>2, DoneHere DEF Updating
<1>5. Errand(t, "Return", m)
  BY <1>1, <1>4 DEF Errand, Fillers
<1> QED BY <1>1, <1>3, <1>5, PlainHistory DEF Fillers

LEMMA ProceedsHistory ==
    ASSUME DistinctSlots, Inv, Inv', OrderInv, HistoryInv, NEW t \in Threads,
           Proceeds(t), UNCHANGED kdesc, Remembered, Writes(t)
    PROVE  HistoryInv'
<1>1. PICK m : Finishes(t, m) \/ \E to : Passes(t, to, m)
  BY DEF Proceeds
<1> QED BY <1>1, FinishHistory, PassHistory

(* Whoever is between help and help has no update there. *)
LEMMA NotUpdating ==
    ASSUME Inv, HistoryInv, NEW t \in Threads, pc[t] \in Between \cup {"Load"}
    PROVE  ~Updating(t) /\ loc[t].help = <<>>
<1>1. loc[t].help = <<>>
  BY DoneHere DEF Errand, Between, Place
<1> QED BY <1>1 DEF Updating

LEMMA ReadHistory ==
    ASSUME DistinctSlots, Inv, Inv', OrderInv, HistoryInv, NEW t \in Threads, NEW a \in Reads,
           Read(t, a), Remembered
    PROVE  HistoryInv'
<1>1. PICK m : m = [NoLocals EXCEPT !.fn = "read", !.addr = a]
  OBVIOUS
<1>2. m.fn = "read" /\ m.help = <<>>
  BY <1>1 DEF NoLocals
<1>3. Moves(t, "Load", m) /\ UNCHANGED <<mem, kdesc, rdesc>> /\ pc[t] = "idle"
  BY <1>1, <1>2 DEF Read, Call, Moves
<1>4. Attentive(t, m)
  BY <1>3, NotUpdating DEF Attentive, Between
<1>5. Errand(t, "Load", m) /\ "Load" \notin Fillers
  BY <1>2 DEF Errand, Fillers
<1> QED BY <1>2, <1>3, <1>4, <1>5, NoWrites, PlainHistory

LEMMA ExecuteHistory ==
    ASSUME DistinctSlots, Inv, Inv', OrderInv, HistoryInv, NEW t \in Threads, NEW r \in Requests[t],
           Execute(t, r), Remembered
    PROVE  HistoryInv'
<1>1. PICK m : m = [NoLocals EXCEPT !.fn = "execute", !.request = r, !.todo = r]
  OBVIOUS
<1>2. m.fn = "execute" /\ m.help = <<>> /\ m.request = r /\ m.todo = r
  BY <1>1 DEF NoLocals
<1>3. Moves(t, "Start", m) /\ UNCHANGED <<mem, kdesc, rdesc>> /\ pc[t] = "idle"
  BY <1>1, <1>2 DEF Execute, Call, Moves
<1>4. Attentive(t, m)
  BY <1>3, NotUpdating DEF Attentive, Between
<1>5. Errand(t, "Start", m) /\ "Start" \notin Fillers
  BY <1>2 DEF Errand, Fillers
<1> QED BY <1>2, <1>3, <1>4, <1>5, NoWrites, PlainHistory

LEMMA ReturnHistory ==
    ASSUME DistinctSlots, Inv, Inv', OrderInv, HistoryInv, NEW t \in Threads, pc[t] = "Return",
           Return(t), UNCHANGED <<mem, kdesc, rdesc>>, Remembered
    PROVE  HistoryInv'
<1>1. PICK m : m = NoLocals
  OBVIOUS
<1>2. m.fn = "none" /\ m.help = <<>>
  BY <1>1 DEF NoLocals
<1>3. Moves(t, "idle", m)
  BY <1>1 DEF Return, Step, Moves
<1>4. Attentive(t, m)
  BY NotUpdating DEF Attentive, Between
<1>5. Errand(t, "idle", m) /\ "idle" \notin Fillers
  BY <1>2 DEF Errand, Fillers
<1> QED BY <1>2, <1>3, <1>4, <1>5, NoWrites, PlainHistory

(* A call is answered before help came to be needed. *)
LEMMA AnswerHistory ==
    ASSUME DistinctSlots, Inv, Inv', OrderInv, HistoryInv, NEW t \in Threads,
           pc[t] \in {"Load", "Transaction"}, NEW r, Answer(t, loc[t], r), UNCHANGED kdesc,
           Writes(t), Remembered
    PROVE  HistoryInv'
<1>1. PICK l, m : l = loc[t] /\ m = [l EXCEPT !.result = r]
  OBVIOUS
<1>2. l \in Locals /\ l.help = <<>> /\ Errand(t, pc[t], l)
  BY <1>1, DoneHere, NotUpdating DEF Between, Fillers
<1>3. m.fn = l.fn /\ m.help = <<>> /\ m.request = l.request
  BY <1>1, <1>2 DEF Locals
<1>4. Moves(t, "Return", m)
  BY <1>1 DEF Answer, Step, Moves
<1>5. Attentive(t, m)
  BY NotUpdating DEF Attentive, Between, Fillers
<1>6. Errand(t, "Return", m) /\ "Return" \notin Fillers
  BY <1>2, <1>3 DEF Errand, Fillers
<1> QED BY <1>3, <1>4, <1>5, <1>6, PlainHistory

(* A step of an owner that fills its descriptor. *)
LEMMA FillHistory ==
    ASSUME DistinctSlots, Inv, Inv', OrderInv, HistoryInv, NEW t \in Threads, NEW to, NEW m,
           Moves(t, to, m), pc[t] \in {"Start"} \cup Fillers, to \in Fillers \cup {"HelpState"},
           \A s \in Slots \ {Slot[t]} : kdesc'[s] = kdesc[s],
           kdesc'[Slot[t]].seq \in Nat,
           pc[t] # "Start" => kdesc'[Slot[t]].seq >= kdesc[Slot[t]].seq,
           pc[t] = "Start" => kdesc'[Slot[t]].seq > kdesc[Slot[t]].seq,
           UNCHANGED <<mem, rdesc>>, Remembered, Position(to, m)', Errand(t, to, m)'
    PROVE  HistoryInv'
<1>1. Kept
  BY FillKept
<1>2. Grown /\ Still
  BY <1>1, KeptGrown, FillStill DEF HistoryInv
<1>3. Others(t)
  <2> SUFFICES ASSUME NEW u \in Threads \ {t} PROVE Slot[u] \in Slots \ {Slot[t]}
    BY DEF Others
  <2> QED BY DEF Slots, DistinctSlots
<1>4. Attentive(t, m)
  BY NotUpdating DEF Attentive, Between
<1>5. to # "RdcssFinish" /\ to \notin Meeting /\ ~Intends(to, m)
  BY DEF Meeting, Intends, Fillers
<1>6. LateInv'
  BY <1>2, <1>5, LateStep
<1>7. FreshInv'
  BY <1>3, <1>5, FreshStep
<1>8. /\ \A a \in Addrs : mem'[a].tag = "kcas" => mem'[a] = mem[a] \/ Covers(mem'[a], a)
      /\ \A s \in Slots : rdesc'[s] = rdesc[s] \/ Serves(rdesc'[s])
  OBVIOUS
<1> QED BY <1>1, <1>3, <1>4, <1>6, <1>7, <1>8, HistoryStep

LEMMA EmptyPosition == ASSUME NEW p \in Fillers, NEW m, m.help = <<>> PROVE Position(p, m)'
BY EmptySeq DEF Position, Fillers

LEMMA StartHistory ==
    ASSUME DistinctSlots, Inv, Inv', OrderInv, HistoryInv, NEW t \in Threads, pc[t] = "Start",
           Start(t, loc[t]), Remembered
    PROVE  HistoryInv'
<1>1. PICK l, s, d : /\ l = loc[t] /\ s = Slot[t]
                     /\ d = [seq |-> kdesc[s].seq + 1, state |-> "UNDECIDED", entries |-> <<>>]
  OBVIOUS
<1>2. l \in Locals /\ l.help = <<>> /\ Errand(t, "Start", l) /\ s \in Slots
  BY <1>1, DoneHere, NotUpdating, Here DEF Between
<1>3. kdesc \in [Slots -> KDescs] /\ kdesc[s].seq \in Nat
  BY <1>2 DEF Inv, KDescInv, KDescs
<1>4. kdesc' = [kdesc EXCEPT ![s] = d] /\ Moves(t, "Add", l) /\ UNCHANGED <<mem, rdesc>>
  BY <1>1, <1>2, <1>3 DEF Start, Step, Moves
<1>5. kdesc'[s] = d /\ \A r \in Slots \ {s} : kdesc'[r] = kdesc[r]
  BY <1>2, <1>3, <1>4
<1>6. d.entries = <<>> /\ d.seq \in Nat /\ d.seq > kdesc[s].seq
  BY <1>1, <1>3
<1>7. l.request \in Seq(Entries) /\ l.todo = l.request
  BY <1>2 DEF Locals, Errand
<1>8. Filled(<<>>, l.todo, l.request)
  <2>1. /\ Len(l.request) \in Nat /\ DOMAIN l.request = 1 .. Len(l.request)
    BY <1>7, LenProperties
  <2>2. \A i \in 1 .. Len(l.request) : 0 + i = i
    BY <2>1
  <2> QED BY <1>7, <2>1, <2>2 DEF Filled
<1>9. Errand(t, "Add", l)'
  <2>1. kdesc'[Slot[t]].entries = <<>>
    BY <1>1, <1>5, <1>6
  <2> QED BY <1>2, <1>8, <2>1 DEF Errand, Filled
<1>10. Position("Add", l)'
  BY <1>2, EmptyPosition DEF Fillers
<1> QED BY <1>1, <1>4, <1>5, <1>6, <1>9, <1>10, FillHistory DEF Fillers

(* One more of the entries asked for is in the descriptor. *)
LEMMA FilledMore ==
    ASSUME NEW S, NEW es \in Seq(S), NEW todo \in Seq(S), NEW r \in Seq(S), todo # <<>>,
           Filled(es, todo, r)
    PROVE  /\ Filled(Append(es, Head(todo)), Tail(todo), r)
           /\ Len(todo) = 1 => Append(es, Head(todo)) = r
<1>1. PICK new, rest : new = Append(es, Head(todo)) /\ rest = Tail(todo)
  OBVIOUS
<1>2. /\ Len(es) \in Nat /\ Len(todo) \in Nat \ {0} /\ Len(r) \in Nat
      /\ DOMAIN es = 1 .. Len(es) /\ DOMAIN todo = 1 .. Len(todo) /\ DOMAIN r = 1 .. Len(r)
  BY LenProperties, EmptySeq
<1>3. Head(todo) \in S /\ Head(todo) = todo[1]
  BY HeadTailProperties, <1>2, ElementOfSeq
<1>4. /\ new \in Seq(S) /\ Len(new) = Len(es) + 1 /\ DOMAIN new = 1 .. Len(new)
      /\ \A i \in 1 .. Len(es) : new[i] = es[i]
      /\ new[Len(es) + 1] = Head(todo)
  BY <1>1, <1>3, AppendProperties, LenProperties
<1>5. /\ rest \in Seq(S) /\ Len(rest) = Len(todo) - 1 /\ DOMAIN rest = 1 .. Len(rest)
      /\ \A i \in 1 .. Len(rest) : rest[i] = todo[i + 1]
  BY <1>1, HeadTailProperties, LenProperties
<1>6. /\ Len(r) = Len(es) + Len(todo)
      /\ \A i \in 1 .. Len(es) : es[i] = r[i]
      /\ \A i \in 1 .. Len(todo) : todo[i] = r[Len(es) + i]
  BY <1>2 DEF Filled
<1>7. Len(r) = Len(new) + Len(rest)
  BY <1>2, <1>4, <1>5, <1>6
<1>8. ASSUME NEW i \in 1 .. Len(new) PROVE new[i] = r[i]
  <2>1. CASE i = Len(es) + 1
    <3>1. 1 \in 1 .. Len(todo)
      BY <1>2
    <3> QED BY <1>3, <1>4, <1>6, <2>1, <3>1
  <2>2. CASE i # Len(es) + 1
    <3>1. i \in 1 .. Len(es)
      BY <1>2, <1>4, <2>2
    <3> QED BY <1>4, <1>6, <3>1
  <2> QED BY <2>1, <2>2
<1>9. ASSUME NEW i \in 1 .. Len(rest) PROVE rest[i] = r[Len(new) + i]
  <2>1. i + 1 \in 1 .. Len(todo) /\ Len(es) + (i + 1) = Len(new) + i
    BY <1>2, <1>4, <1>5
  <2>2. todo[i + 1] = r[Len(es) + (i + 1)]
    BY <1>6, <2>1
  <2> QED BY <1>5, <2>1, <2>2
<1>10. Filled(new, rest, r)
  BY <1>4, <1>5, <1>7, <1>8, <1>9 DEF Filled
<1>11. Len(todo) = 1 => new = r
  <2> SUFFICES ASSUME Len(todo) = 1 PROVE new = r
    OBVIOUS
  <2>1. Len(new) = Len(r)
    BY <1>2, <1>4, <1>6
  <2> QED BY <1>4, <1>8, <2>1, SeqEqual
<1> QED BY <1>1, <1>10, <1>11

LEMMA AddHistory ==
    ASSUME DistinctSlots, Inv, Inv', OrderInv, HistoryInv, NEW t \in Threads, pc[t] = "Add",
           Add(t, loc[t]), Remembered
    PROVE  HistoryInv'
<1>1. PICK l, s, es, d, to, m :
          /\ l = loc[t] /\ s = Slot[t] /\ es = Append(kdesc[s].entries, Head(l.todo))
          /\ d = [kdesc[s] EXCEPT !.entries = es]
          /\ to = IF Len(l.todo) = 1 THEN "Initialized" ELSE "Add"
          /\ m = [l EXCEPT !.todo = Tail(l.todo)]
  OBVIOUS
<1>2. /\ l \in Locals /\ l.help = <<>> /\ Errand(t, "Add", l) /\ s \in Slots /\ l.todo # <<>>
  BY <1>1, DoneHere, NotUpdating, Here DEF Between, Fillers, Place
<1>3. kdesc \in [Slots -> KDescs] /\ kdesc[s] \in KDescs
  BY <1>2 DEF Inv, KDescInv
<1>4. /\ kdesc' = [kdesc EXCEPT ![s] = d] /\ UNCHANGED <<mem, rdesc>>
  BY <1>1, <1>2, <1>3 DEF Add
<1>5. Moves(t, to, m)
  BY <1>1 DEF Add, Step, Moves
<1>6. kdesc'[s] = d /\ \A r \in Slots \ {s} : kdesc'[r] = kdesc[r]
  BY <1>2, <1>3, <1>4
<1>7. d.entries = es /\ d.seq = kdesc[s].seq /\ d.seq \in Nat
  BY <1>1, <1>3 DEF KDescs
<1>8. /\ m.help = <<>> /\ m.fn = l.fn /\ m.request = l.request /\ m.todo = Tail(l.todo)
  BY <1>1, <1>2 DEF Locals
<1>9. Filled(es, m.todo, l.request) /\ (Len(l.todo) = 1 => es = l.request)
  <2>1. kdesc[s].entries \in Seq(Entries) /\ l.todo \in Seq(Entries) /\ l.request \in Seq(Entries)
    BY <1>2, <1>3 DEF KDescs, Locals
  <2>2. Filled(kdesc[s].entries, l.todo, l.request)
    BY <1>1, <1>2 DEF Errand
  <2>3. PICK es0, todo, r : es0 = kdesc[s].entries /\ todo = l.todo /\ r = l.request
    OBVIOUS
  <2>4. /\ es0 \in Seq(Entries) /\ todo \in Seq(Entries) /\ r \in Seq(Entries) /\ todo # <<>>
        /\ Filled(es0, todo, r)
    BY <1>2, <2>1, <2>2, <2>3
  <2>5. /\ Filled(Append(es0, Head(todo)), Tail(todo), r)
        /\ Len(todo) = 1 => Append(es0, Head(todo)) = r
    BY <2>4, FilledMore
  <2> QED BY <1>1, <1>8, <2>3, <2>5
<1>10. Errand(t, to, m)'
  <2>1. kdesc'[Slot[t]].entries = es
    BY <1>1, <1>6, <1>7
  <2>2. l.fn = "execute" /\ l.request \in Requests[t]
    BY <1>2 DEF Errand, Fillers
  <2> QED BY <1>1, <1>8, <1>9, <2>1, <2>2 DEF Errand, Filled
<1>11. to \in Fillers /\ pc[t] # "Start" /\ pc[t] \in {"Start"} \cup Fillers
  BY <1>1 DEF Fillers
<1>12. Position(to, m)'
  BY <1>8, <1>11, EmptyPosition
<1>13. kdesc'[Slot[t]].seq \in Nat /\ kdesc'[Slot[t]].seq >= kdesc[Slot[t]].seq
  BY <1>1, <1>6, <1>7
<1> QED BY <1>1, <1>4, <1>5, <1>6, <1>10, <1>11, <1>12, <1>13, FillHistory

LEMMA InitializedHistory ==
    ASSUME DistinctSlots, Inv, Inv', OrderInv, HistoryInv, NEW t \in Threads, pc[t] = "Initialized",
           Initialized(t, loc[t]), Remembered
    PROVE  HistoryInv'
<1>1. PICK l, s, d, m :
          /\ l = loc[t] /\ s = Slot[t]
          /\ d = [kdesc[s] EXCEPT !.seq = kdesc[s].seq + 1]
          /\ m = [l EXCEPT !.met = KTag(s, kdesc[s].seq + 1)]
  OBVIOUS
<1>2. /\ l \in Locals /\ l.help = <<>> /\ Errand(t, "Initialized", l) /\ s \in Slots
  BY <1>1, DoneHere, NotUpdating, Here DEF Between, Fillers
<1>3. kdesc \in [Slots -> KDescs] /\ kdesc[s] \in KDescs /\ kdesc[s].seq \in Nat
  BY <1>2 DEF Inv, KDescInv, KDescs
<1>4. /\ kdesc' = [kdesc EXCEPT ![s] = d] /\ UNCHANGED <<mem, rdesc>>
  BY <1>1, <1>2, <1>3 DEF Initialized
<1>5. Moves(t, "Transaction", m)
  BY <1>1 DEF Initialized, Step, Moves
<1>6. kdesc'[s] = d /\ \A r \in Slots \ {s} : kdesc'[r] = kdesc[r]
  BY <1>2, <1>3, <1>4
<1>7. d.entries = kdesc[s].entries /\ d.seq \in Nat /\ d.seq >= kdesc[s].seq
  <2>1. ASSUME NEW x \in KDescs, NEW n \in Nat
        PROVE  LET y == [x EXCEPT !.seq = n] IN y.seq = n /\ y.entries = x.entries
    BY DEF KDescs
  <2>2. kdesc[s].seq + 1 \in Nat /\ kdesc[s].seq + 1 >= kdesc[s].seq
    BY <1>3
  <2>3. d.seq = kdesc[s].seq + 1 /\ d.entries = kdesc[s].entries
    BY <1>1, <1>3, <2>1, <2>2
  <2> QED BY <2>2, <2>3
<1>8. /\ m.help = <<>> /\ m.fn = l.fn /\ m.request = l.request
  BY <1>1, <1>2 DEF Locals
<1>9. Errand(t, "Transaction", m)'
  <2>1. kdesc'[Slot[t]].entries = l.request /\ l.fn = "execute" /\ l.request \in Requests[t]
    BY <1>1, <1>2, <1>6, <1>7 DEF Errand, Fillers
  <2> QED BY <1>8, <2>1 DEF Errand
<1>10. "Transaction" \in Fillers /\ pc[t] # "Start" /\ pc[t] \in {"Start"} \cup Fillers
  BY DEF Fillers
<1>11. Position("Transaction", m)'
  BY <1>8, <1>10, EmptyPosition
<1>12. kdesc'[Slot[t]].seq \in Nat /\ kdesc'[Slot[t]].seq >= kdesc[Slot[t]].seq
  BY <1>1, <1>6, <1>7
<1> QED BY <1>1, <1>4, <1>5, <1>6, <1>9, <1>10, <1>11, <1>12, FillHistory

(* What a transaction tries is what was asked for. *)
LEMMA Transacting ==
    ASSUME Inv, HistoryInv, NEW t \in Threads, pc[t] = "Transaction"
    PROVE  /\ loc[t] \in Locals /\ loc[t].help = <<>> /\ loc[t].fn = "execute"
           /\ loc[t].request \in Requests[t] /\ loc[t].request = kdesc[Slot[t]].entries
           /\ loc[t].request \in Seq(Entries) /\ loc[t].request # <<>>
           /\ Slot[t] \in Slots /\ kdesc \in [Slots -> KDescs]
           /\ loc[t].met = KTag(Slot[t], kdesc[Slot[t]].seq)
<1>1. /\ loc[t] \in Locals /\ loc[t].help = <<>> /\ Errand(t, "Transaction", loc[t])
      /\ loc[t].met = KTag(Slot[t], kdesc[Slot[t]].seq)
  BY DoneHere, NotUpdating DEF Between, Fillers, Place
<1>2. /\ loc[t].fn = "execute" /\ loc[t].request \in Requests[t]
      /\ loc[t].request = kdesc[Slot[t]].entries
  BY <1>1 DEF Errand, Fillers
<1>3. loc[t].request \in Seq(Entries) /\ loc[t].request # <<>>
  BY <1>2, KCASAssumption
<1>4. Slot[t] \in Slots /\ kdesc \in [Slots -> KDescs]
  BY Here DEF Inv, KDescInv
<1> QED BY <1>1, <1>2, <1>3, <1>4

(* The software path begins: the update is remembered from here.           *)
LEMMA FallbackHistory ==
    ASSUME DistinctSlots, Inv, Inv', OrderInv, HistoryInv, NEW t \in Threads, pc[t] = "Transaction",
           NEW sorted \in Sortings(kdesc[Slot[t]].entries),
           kdesc' = [kdesc EXCEPT ![Slot[t]].entries = sorted],
           Step(t, "HelpState",
                [loc[t] EXCEPT !.help = <<HelpFrame(loc[t].met, sorted, FALSE)>>]),
           UNCHANGED <<mem, rdesc>>, Remembered
    PROVE  HistoryInv'
<1>1. PICK l, s, w, g, m :
          /\ l = loc[t] /\ s = Slot[t] /\ w = l.met /\ g = HelpFrame(w, sorted, FALSE)
          /\ m = [l EXCEPT !.help = <<g>>]
  OBVIOUS
<1>2. /\ l \in Locals /\ l.help = <<>> /\ l.fn = "execute" /\ l.request \in Requests[t]
      /\ l.request = kdesc[s].entries /\ s \in Slots /\ kdesc \in [Slots -> KDescs]
      /\ w = KTag(s, kdesc[s].seq)
  BY <1>1, Transacting
<1>3. PICK d : d = [kdesc[s] EXCEPT !.entries = sorted]
  OBVIOUS
<1>4. d.seq = kdesc[s].seq /\ d.entries = sorted /\ d.seq \in Nat
  <2>1. kdesc[s] \in KDescs
    BY <1>2
  <2> QED BY <1>3, <2>1 DEF KDescs
<1>5. kdesc'[s] = d /\ \A r \in Slots \ {s} : kdesc'[r] = kdesc[r]
  BY <1>1, <1>2, <1>3
<1>6. Moves(t, "HelpState", m)
  BY <1>1 DEF Step, Moves
<1>7. m.help = <<g>> /\ m.fn = l.fn /\ m.request = l.request
  BY <1>1, <1>2 DEF Locals
<1>8. g.tag = w /\ g.entries = sorted
  BY <1>1 DEF HelpFrame
<1>9. pc'[t] = "HelpState" /\ loc'[t] = m
  BY <1>6, Moved
<1>10. <<g>>[1] = g /\ Len(<<g>>) = 1 /\ <<g>> # <<>>
  OBVIOUS
<1>11. g \in Runs'
  <2>1. <<g>> \in Seq(Runs')
    BY <1>7, <1>9 DEF Inv, LocalInv
  <2>2. 1 \in 1 .. Len(<<g>>)
    BY <1>10
  <2>3. <<g>>[1] \in Runs'
    BY <2>1, <2>2, ElementOfSeq
  <2> QED BY <1>10, <2>3
<1>12. w.slot = s /\ w.seq = kdesc[s].seq
  BY <1>2 DEF KTag
<1>13. w \in DOMAIN done' /\ done'[w] = d
  <2>1. w \in Published'
    BY <1>2, <1>7, <1>8, <1>9, <1>10 DEF Published
  <2> QED BY <1>4, <1>5, <1>12, <2>1 DEF Remembered
<1>14. g \in DoneRuns'
  BY <1>4, <1>8, <1>11, <1>13 DEF DoneRuns
<1>15. Position("HelpState", m)'
  <2>1. <<g>> \in Seq(DoneRuns')
    BY <1>14
  <2> QED BY <1>7, <2>1 DEF Position
<1>16. Errand(t, "HelpState", m)'
  <2>1. w = KTag(Slot[t], kdesc'[Slot[t]].seq)
    BY <1>1, <1>2, <1>4, <1>5
  <2>2. Range(sorted) = Range(l.request)
    BY <1>1, <1>2 DEF Sortings
  <2> QED BY <1>2, <1>7, <1>8, <1>10, <2>1, <2>2 DEF Errand, Fillers
<1>17. kdesc'[Slot[t]].seq \in Nat /\ kdesc'[Slot[t]].seq >= kdesc[Slot[t]].seq
  BY <1>1, <1>4, <1>5
<1>18. pc[t] # "Start" /\ pc[t] \in {"Start"} \cup Fillers
  BY DEF Fillers
<1> QED BY <1>1, <1>5, <1>6, <1>15, <1>16, <1>17, <1>18, FillHistory

LEMMA TransactionHistory ==
    ASSUME DistinctSlots, Inv, Inv', OrderInv, HistoryInv, NEW t \in Threads, pc[t] = "Transaction",
           Transaction(t, loc[t]), Remembered
    PROVE  HistoryInv'
<1>1. PICK es : es = kdesc[Slot[t]].entries
  OBVIOUS
<1>2. CASE mem' = Written(mem, es) /\ Answer(t, loc[t], TRUE) /\ UNCHANGED <<kdesc, rdesc>>
  <2>1. ASSUME NEW a \in Addrs PROVE mem'[a] = mem[a] \/ mem'[a].tag = "none"
    <3>1. a \in DOMAIN mem
      BY DEF Inv, MemInv
    <3> QED BY <1>2, <3>1 DEF Written, Value
  <2>2. Writes(t)
    BY <1>2, <2>1 DEF Writes
  <2> QED BY <1>2, <2>2, AnswerHistory
<1>3. CASE Answer(t, loc[t], FALSE) /\ UNCHANGED <<mem, kdesc, rdesc>>
  BY <1>3, NoWrites, AnswerHistory
<1>4. CASE \E sorted \in Sortings(es) :
              /\ kdesc' = [kdesc EXCEPT ![Slot[t]].entries = sorted]
              /\ Step(t, "HelpState",
                      [loc[t] EXCEPT !.help = <<HelpFrame(loc[t].met, sorted, FALSE)>>])
              /\ UNCHANGED <<mem, rdesc>>
  BY <1>1, <1>4, FallbackHistory
<1> QED BY <1>1, <1>2, <1>3, <1>4 DEF Transaction

(* An update that is being filled is undecided. *)
FillingInv == \A t \in Threads : pc[t] \in Fillers => kdesc[Slot[t]].state = "UNDECIDED"

AtomicInv == Inv /\ OrderInv /\ HistoryInv /\ FillingInv

LEMMA FillingMoves ==
    ASSUME Inv, FillingInv, NEW t \in Threads, NEW to, NEW m, Moves(t, to, m),
           \A u \in Threads \ {t} : pc[u] \in Fillers =>
               kdesc'[Slot[u]].state = kdesc[Slot[u]].state,
           to \in Fillers => kdesc'[Slot[t]].state = "UNDECIDED"
    PROVE  FillingInv'
BY Moved DEF FillingInv

-----------------------------------------------------------------------------
(* Every step is one of the abstract words, or none *)

(* What the call of a thread at p with the locals l looks like when its    *)
(* own update has the state own.                                           *)
CallAt(p, l, own) ==
    CASE p = "idle" -> [state |-> "idle"]
      [] p = "Return" -> [state |-> "answered", result |-> l.result]
      [] p \notin {"idle", "Return"} /\ l.fn = "read" -> [state |-> "reading", addr |-> l.addr]
      [] p \notin {"idle", "Return"} /\ l.fn = "execute" ->
            IF own \in {"SUCCEEDED", "FAILED"}
            THEN [state |-> "answered", result |-> own = "SUCCEEDED"]
            ELSE [state |-> "updating", request |-> l.request]

LEMMA Calls ==
    ASSUME NEW t \in Threads
    PROVE  /\ AbstractCall(t) = CallAt(pc[t], loc[t], OwnState(t))
           /\ AbstractCall(t)' = CallAt(pc'[t], loc'[t], OwnState(t)')
BY DEF AbstractCall, CallAt

LEMMA CallForms ==
    ASSUME NEW p, NEW l, NEW own
    PROVE  /\ p = "idle" => CallAt(p, l, own) = [state |-> "idle"]
           /\ p = "Return" => CallAt(p, l, own) = [state |-> "answered", result |-> l.result]
           /\ p \notin {"idle", "Return"} /\ l.fn = "read" =>
                CallAt(p, l, own) = [state |-> "reading", addr |-> l.addr]
           /\ p \notin {"idle", "Return"} /\ l.fn = "execute" /\ own = "UNDECIDED" =>
                CallAt(p, l, own) = [state |-> "updating", request |-> l.request]
           /\ p \notin {"idle", "Return"} /\ l.fn = "execute" /\ own = "SUCCEEDED" =>
                CallAt(p, l, own) = [state |-> "answered", result |-> TRUE]
           /\ p \notin {"idle", "Return"} /\ l.fn = "execute" /\ own = "FAILED" =>
                CallAt(p, l, own) = [state |-> "answered", result |-> FALSE]
<1>1. p = "idle" => CallAt(p, l, own) = [state |-> "idle"]
  BY DEF CallAt
<1>2. p = "Return" => CallAt(p, l, own) = [state |-> "answered", result |-> l.result]
  BY DEF CallAt
<1>3. p \notin {"idle", "Return"} /\ l.fn = "read" =>
        CallAt(p, l, own) = [state |-> "reading", addr |-> l.addr]
  BY DEF CallAt
<1>4. ASSUME p \notin {"idle", "Return"}, l.fn = "execute"
      PROVE  CallAt(p, l, own) = IF own \in {"SUCCEEDED", "FAILED"}
                                 THEN [state |-> "answered", result |-> own = "SUCCEEDED"]
                                 ELSE [state |-> "updating", request |-> l.request]
  BY <1>4 DEF CallAt
<1>5. own = "SUCCEEDED" => (own = "SUCCEEDED") = TRUE
  OBVIOUS
<1>6. own = "FAILED" => (own = "SUCCEEDED") = FALSE
  OBVIOUS
<1> QED BY <1>1, <1>2, <1>3, <1>4, <1>5, <1>6

LEMMA CallGoesOn ==
    ASSUME NEW p, NEW l, NEW q, NEW m, NEW own, p \notin {"idle", "Return"}, q \notin {"idle", "Return"},
           m.fn = l.fn, m.addr = l.addr, m.request = l.request, l.fn \in {"read", "execute"}
    PROVE  CallAt(q, m, own) = CallAt(p, l, own)
BY DEF CallAt

LEMMA CallWon ==
    ASSUME NEW p, NEW l, p \notin {"idle", "Return"}, l.fn = "execute"
    PROVE  CallAt(p, l, "SUCCEEDED") = [state |-> "answered", result |-> TRUE]
BY CallForms

LEMMA CallLost ==
    ASSUME NEW p, NEW l, p \notin {"idle", "Return"}, l.fn = "execute"
    PROVE  CallAt(p, l, "FAILED") = [state |-> "answered", result |-> FALSE]
BY CallForms

(* The call of every thread but t looks as it did. *)
OtherCalls(t) == \A u \in Threads \ {t} : AbstractCall(u)' = AbstractCall(u)

LEMMA OneCall ==
    ASSUME NEW t \in Threads, OtherCalls(t), NEW c, AbstractCall(t)' = c
    PROVE  [u \in Threads |-> AbstractCall(u)]' =
           [[u \in Threads |-> AbstractCall(u)] EXCEPT ![t] = c]
BY DEF OtherCalls

LEMMA SameAll ==
    ASSUME NEW t \in Threads, OtherCalls(t), AbstractCall(t)' = AbstractCall(t), SameWords
    PROVE  UNCHANGED Abstract!avars
<1>1. [u \in Threads |-> AbstractCall(u)]' = [u \in Threads |-> AbstractCall(u)]
  BY DEF OtherCalls
<1>2. [a \in Addrs |-> Logical(a)]' = [a \in Addrs |-> Logical(a)]
  BY DEF SameWords
<1> QED BY <1>1, <1>2 DEF Abstract!avars

(* The own update of a thread in help is remembered. *)
LEMMA OwnHeld ==
    ASSUME Inv, HistoryInv, NEW t \in Threads, loc[t].help # <<>>
    PROVE  /\ loc[t].help[1].tag \in DOMAIN done
           /\ OwnState(t) = done[loc[t].help[1].tag].state /\ OwnState(t) \in States
<1>1. PICK h : h = loc[t].help
  OBVIOUS
<1>2. h \in Seq(DoneRuns) /\ h # <<>>
  BY <1>1, DoneHere
<1>3. h[1].tag \in DOMAIN done
  BY <1>2, RunsHeld
<1>4. done[h[1].tag] \in KDescs
  BY <1>3, Recall
<1> QED BY <1>1, <1>2, <1>3, <1>4 DEF OwnState, KDescs

LEMMA StillCalls ==
    ASSUME Inv, HistoryInv, Still, NEW t \in Threads, NEW to, NEW m, Moves(t, to, m)
    PROVE  OtherCalls(t)
<1> SUFFICES ASSUME NEW u \in Threads \ {t} PROVE AbstractCall(u)' = AbstractCall(u)
  BY DEF OtherCalls
<1>1. pc'[u] = pc[u] /\ loc'[u] = loc[u]
  BY Moved
<1>2. OwnState(u)' = OwnState(u)
  <2>1. CASE loc[u].help = <<>>
    BY <1>1, <2>1 DEF OwnState
  <2>2. CASE loc[u].help # <<>>
    <3>1. loc[u].help[1].tag \in DOMAIN done
      BY <2>2, OwnHeld
    <3> QED BY <1>1, <2>2, <3>1 DEF OwnState, Still
  <2> QED BY <2>1, <2>2
<1> QED BY <1>1, <1>2, Calls

(* t goes on with its call, or its execute is over. *)
LEMMA PassesCall ==
    ASSUME Inv, HistoryInv, Still, NEW t \in Threads, NEW to, NEW m, Passes(t, to, m)
    PROVE  AbstractCall(t)' = AbstractCall(t)
<1>1. PICK l, p : l = loc[t] /\ p = pc[t]
  OBVIOUS
<1>2. /\ pc'[t] = to /\ loc'[t] = m
      /\ p \notin {"idle", "Return"} /\ to \notin {"idle", "Return"} /\ Continues(l, m)
  BY <1>1, Moved DEF Passes, Between
<1>3. l.fn \in {"read", "execute"}
  BY <1>1, <1>2, DoneHere DEF Place, Locals
<1>4. CASE l.fn = "read"
  <2>1. m.fn = "read" /\ m.addr = l.addr
    BY <1>2, <1>4 DEF Continues
  <2> QED BY <1>1, <1>2, <1>4, <2>1, Calls, CallForms
<1>5. CASE l.fn = "execute"
  <2>1. m.fn = l.fn /\ m.addr = l.addr /\ m.request = l.request
    BY <1>2 DEF Continues
  <2>2. OwnState(t)' = OwnState(t) /\ OwnState(t) \in States
    <3>1. CASE l.help = <<>>
      <4>1. m.help = <<>>
        BY <1>2, <1>5, <3>1 DEF Continues
      <4> QED BY <1>1, <1>2, <3>1, <4>1 DEF OwnState, States
    <3>2. CASE l.help # <<>>
      <4>1. m.help # <<>> /\ m.help[1].tag = l.help[1].tag
        BY <1>2, <1>5, <3>2 DEF Continues
      <4>2. /\ l.help[1].tag \in DOMAIN done
            /\ OwnState(t) = done[l.help[1].tag].state /\ OwnState(t) \in States
        BY <1>1, <3>2, OwnHeld
      <4>3. OwnState(t)' = done'[l.help[1].tag].state
        BY <1>2, <4>1 DEF OwnState
      <4> QED BY <4>2, <4>3 DEF Still
    <3> QED BY <3>1, <3>2
  <2>3. PICK o : o = OwnState(t)
    OBVIOUS
  <2>4. AbstractCall(t)' = CallAt(to, m, o) /\ AbstractCall(t) = CallAt(p, l, o)
    <3>1. OwnState(t)' = o
      BY <2>2, <2>3
    <3>2. AbstractCall(t)' = CallAt(pc'[t], loc'[t], OwnState(t)')
      BY Calls
    <3>3. AbstractCall(t) = CallAt(pc[t], loc[t], OwnState(t))
      BY Calls
    <3> QED BY <1>1, <1>2, <2>3, <3>1, <3>2, <3>3
  <2>5. CallAt(to, m, o) = CallAt(p, l, o)
    BY <1>2, <1>3, <2>1, CallGoesOn
  <2> QED BY <2>4, <2>5
<1> QED BY <1>3, <1>4, <1>5

LEMMA FinishesCall ==
    ASSUME Inv, HistoryInv, NEW t \in Threads, NEW m, Finishes(t, m)
    PROVE  AbstractCall(t)' = AbstractCall(t)
<1>1. PICK l, p, o, r : l = loc[t] /\ p = pc[t] /\ o = OwnState(t) /\ r = m.result
  OBVIOUS
<1>2. pc'[t] = "Return" /\ loc'[t] = m /\ p \notin {"idle", "Return"}
  BY <1>1, Moved DEF Finishes, Between
<1>3. l.fn = "execute" /\ l.help # <<>> /\ Answers(l.help[1].tag, r)
  BY <1>1 DEF Finishes, Updating
<1>4. o = done[l.help[1].tag].state /\ o \in States
  <2>1. loc[t].help # <<>>
    BY <1>1, <1>3
  <2>2. OwnState(t) = done[loc[t].help[1].tag].state /\ OwnState(t) \in States
    BY <2>1, OwnHeld
  <2> QED BY <1>1, <2>2
<1>5. (o = "SUCCEEDED" /\ r = TRUE) \/ (o = "FAILED" /\ r = FALSE)
  <2>1. o \in {"SUCCEEDED", "FAILED"}
    BY <1>3, <1>4 DEF Answers, Decided, States
  <2>2. PICK w : w = l.help[1].tag
    OBVIOUS
  <2>3. r = (done[w].state = "SUCCEEDED")
    BY <1>3, <2>2, Zenon DEF Answers
  <2>4. o = done[w].state
    BY <1>4, <2>2
  <2>5. r = (o = "SUCCEEDED")
    BY <2>3, <2>4
  <2> QED BY <2>1, <2>5
<1>6. AbstractCall(t) = CallAt(p, l, o)
  <2>1. AbstractCall(t) = CallAt(pc[t], loc[t], OwnState(t))
    BY Calls
  <2> QED BY <1>1, <2>1
<1>7. AbstractCall(t)' = CallAt("Return", m, OwnState(t)')
  <2>1. AbstractCall(t)' = CallAt(pc'[t], loc'[t], OwnState(t)')
    BY Calls
  <2> QED BY <1>2, <2>1
<1>8. AbstractCall(t)' = [state |-> "answered", result |-> r]
  BY <1>1, <1>7, CallForms
<1>9. AbstractCall(t) = [state |-> "answered", result |-> r]
  <2>1. CallAt(p, l, o) = [state |-> "answered", result |-> r]
    <3>1. p \notin {"idle", "Return"} /\ l.fn = "execute"
      BY <1>2, <1>3
    <3>2. CallAt(p, l, "SUCCEEDED") = [state |-> "answered", result |-> TRUE]
      BY <3>1, CallWon
    <3>3. CallAt(p, l, "FAILED") = [state |-> "answered", result |-> FALSE]
      BY <3>1, CallLost
    <3> QED BY <1>5, <3>2, <3>3
  <2> QED BY <1>6, <2>1
<1> QED BY <1>8, <1>9

Matched == Abstract!ANext \/ UNCHANGED Abstract!avars

(* Most of what help does changes nothing. *)
LEMMA ProceedsMatched ==
    ASSUME DistinctSlots, Inv, Inv', OrderInv, HistoryInv, FillingInv, NEW t \in Threads, Proceeds(t),
           UNCHANGED kdesc, Writes(t), SameWords, Remembered
    PROVE  HistoryInv' /\ FillingInv' /\ Matched
<1>1. HistoryInv'
  BY ProceedsHistory
<1>2. Still
  BY SameStill DEF HistoryInv
<1>3. PICK m : Finishes(t, m) \/ \E to : Passes(t, to, m)
  BY DEF Proceeds
<1>4. PICK to : Moves(t, to, m) /\ to \notin Fillers /\ AbstractCall(t)' = AbstractCall(t)
  <2>1. CASE Finishes(t, m)
    BY <2>1, FinishesCall DEF Finishes, Fillers
  <2>2. ASSUME NEW x, Passes(t, x, m)
        PROVE  Moves(t, x, m) /\ x \notin Fillers /\ AbstractCall(t)' = AbstractCall(t)
    BY <1>2, <2>2, PassesCall DEF Passes, Between
  <2> QED BY <1>3, <2>1, <2>2
<1>5. OtherCalls(t)
  BY <1>2, <1>4, StillCalls
<1>6. FillingInv'
  BY <1>4, FillingMoves
<1> QED BY <1>1, <1>4, <1>5, <1>6, SameAll DEF Matched

LEMMA SameWord ==
    ASSUME SameWords
    PROVE  [a \in Addrs |-> Logical(a)]' = [a \in Addrs |-> Logical(a)]
BY DEF SameWords

LEMMA MatchRead ==
    ASSUME NEW t \in Threads, NEW a \in Reads, OtherCalls(t), SameWords,
           AbstractCall(t) = [state |-> "idle"],
           AbstractCall(t)' = [state |-> "reading", addr |-> a]
    PROVE  Matched
<1>1. Abstract!Read(t, a)
  BY SameWord, OneCall DEF Abstract!Read, Abstract!Idle
<1> QED BY <1>1 DEF Matched, Abstract!ANext

LEMMA MatchExecute ==
    ASSUME NEW t \in Threads, NEW r \in Requests[t], OtherCalls(t), SameWords,
           AbstractCall(t) = [state |-> "idle"],
           AbstractCall(t)' = [state |-> "updating", request |-> r]
    PROVE  Matched
<1>1. Abstract!Execute(t, r)
  BY SameWord, OneCall DEF Abstract!Execute, Abstract!Idle
<1> QED BY <1>1 DEF Matched, Abstract!ANext

LEMMA MatchLoad ==
    ASSUME NEW t \in Threads, NEW a \in Addrs, OtherCalls(t), SameWords,
           AbstractCall(t) = [state |-> "reading", addr |-> a],
           AbstractCall(t)' = [state |-> "answered", result |-> Logical(a)]
    PROVE  Matched
<1>1. Abstract!Load(t)
  <2>1. PICK v : v = Logical(a)
    OBVIOUS
  <2>2. [u \in Threads |-> AbstractCall(u)]' =
        [[u \in Threads |-> AbstractCall(u)] EXCEPT ![t] = [state |-> "answered", result |-> v]]
    BY <2>1, OneCall
  <2>3. /\ [u \in Threads |-> AbstractCall(u)][t].state = "reading"
        /\ [u \in Threads |-> AbstractCall(u)][t].addr = a
    OBVIOUS
  <2>4. [b \in Addrs |-> Logical(b)][a] = v
    BY <2>1
  <2>5. [b \in Addrs |-> Logical(b)]' = [b \in Addrs |-> Logical(b)]
    BY SameWord
  <2> QED BY <2>2, <2>3, <2>4, <2>5 DEF Abstract!Load, Abstract!Answer
<1> QED BY <1>1 DEF Matched, Abstract!ANext

LEMMA MatchFail ==
    ASSUME NEW t \in Threads, NEW r, OtherCalls(t), SameWords,
           AbstractCall(t) = [state |-> "updating", request |-> r],
           AbstractCall(t)' = [state |-> "answered", result |-> FALSE]
    PROVE  Matched
<1>1. Abstract!Fail(t)
  <2>1. [u \in Threads |-> AbstractCall(u)]' =
        [[u \in Threads |-> AbstractCall(u)] EXCEPT ![t] = [state |-> "answered", result |-> FALSE]]
    BY OneCall
  <2>2. [u \in Threads |-> AbstractCall(u)][t].state = "updating"
    OBVIOUS
  <2>3. [a \in Addrs |-> Logical(a)]' = [a \in Addrs |-> Logical(a)]
    BY SameWord
  <2> QED BY <2>1, <2>2, <2>3 DEF Abstract!Fail, Abstract!Answer
<1> QED BY <1>1 DEF Matched, Abstract!ANext

LEMMA MatchReturn ==
    ASSUME NEW t \in Threads, NEW x, OtherCalls(t), SameWords,
           AbstractCall(t) = [state |-> "answered", result |-> x],
           AbstractCall(t)' = [state |-> "idle"]
    PROVE  Matched
<1>1. Abstract!Return(t)
  BY SameWord, OneCall DEF Abstract!Return, Abstract!Idle
<1> QED BY <1>1 DEF Matched, Abstract!ANext

(* All the words of r change at once. *)
LEMMA MatchUpdate ==
    ASSUME NEW t \in Threads, NEW r, OtherCalls(t),
           AbstractCall(t) = [state |-> "updating", request |-> r],
           AbstractCall(t)' = [state |-> "answered", result |-> TRUE],
           \A i \in DOMAIN r : /\ r[i].addr \in Addrs
                               /\ Logical(r[i].addr) = r[i].old
                               /\ Logical(r[i].addr)' = r[i].new,
           \A a \in Addrs : (\A i \in DOMAIN r : r[i].addr # a) => Logical(a)' = Logical(a)
    PROVE  Matched
<1>1. ASSUME NEW a \in Addrs
      PROVE  Logical(a)' = IF \E i \in DOMAIN r : r[i].addr = a
                           THEN r[CHOOSE i \in DOMAIN r : r[i].addr = a].new ELSE Logical(a)
  <2>1. CASE \E i \in DOMAIN r : r[i].addr = a
    <3>1. PICK c : c = CHOOSE i \in DOMAIN r : r[i].addr = a
      OBVIOUS
    <3>2. c \in DOMAIN r /\ r[c].addr = a
      BY <2>1, <3>1
    <3>3. Logical(r[c].addr)' = r[c].new
      BY <3>2
    <3>4. Logical(a)' = r[c].new
      BY <3>2, <3>3
    <3> QED BY <2>1, <3>1, <3>4
  <2>2. CASE ~\E i \in DOMAIN r : r[i].addr = a
    BY <2>2
  <2> QED BY <2>1, <2>2
<1>2. Abstract!Update(t)
  <2>1. [u \in Threads |-> AbstractCall(u)]' =
        [[u \in Threads |-> AbstractCall(u)] EXCEPT ![t] = [state |-> "answered", result |-> TRUE]]
    BY OneCall
  <2>2. [a \in Addrs |-> Logical(a)]' =
        [a \in Addrs |-> IF \E i \in DOMAIN r : r[i].addr = a
                         THEN r[CHOOSE i \in DOMAIN r : r[i].addr = a].new
                         ELSE [b \in Addrs |-> Logical(b)][a]]
    BY <1>1
  <2>3. \A i \in DOMAIN r : [a \in Addrs |-> Logical(a)][r[i].addr] = r[i].old
    OBVIOUS
  <2>4. /\ [u \in Threads |-> AbstractCall(u)][t].state = "updating"
        /\ [u \in Threads |-> AbstractCall(u)][t].request = r
    OBVIOUS
  <2> QED BY <2>1, <2>2, <2>3, <2>4 DEF Abstract!Update, Abstract!Answer
<1> QED BY <1>2 DEF Matched, Abstract!ANext

LEMMA QuietMove ==
    ASSUME Inv, HistoryInv, FillingInv, NEW t \in Threads, NEW to, NEW m, Moves(t, to, m),
           to \notin Fillers, UNCHANGED <<mem, kdesc, rdesc>>, Remembered
    PROVE  SameWords /\ OtherCalls(t) /\ FillingInv' /\ pc'[t] = to /\ loc'[t] = m
<1>1. Still
  BY SameStill DEF HistoryInv
<1> QED BY <1>1, QuietWords, StillCalls, FillingMoves, Moved

LEMMA ReadMatched ==
    ASSUME DistinctSlots, Inv, Inv', OrderInv, HistoryInv, FillingInv, NEW t \in Threads,
           NEW a \in Reads, Read(t, a), Remembered
    PROVE  HistoryInv' /\ FillingInv' /\ Matched
<1>1. PICK m : m = [NoLocals EXCEPT !.fn = "read", !.addr = a]
  OBVIOUS
<1>2. m.fn = "read" /\ m.addr = a
  BY <1>1 DEF NoLocals
<1>3. Moves(t, "Load", m) /\ UNCHANGED <<mem, kdesc, rdesc>> /\ pc[t] = "idle"
  BY <1>1, <1>2 DEF Read, Call, Moves
<1>4. SameWords /\ OtherCalls(t) /\ FillingInv' /\ pc'[t] = "Load" /\ loc'[t] = m
  BY <1>3, QuietMove DEF Fillers
<1>5. AbstractCall(t) = [state |-> "idle"]
  BY <1>3, Calls, CallForms
<1>6. AbstractCall(t)' = [state |-> "reading", addr |-> a]
  BY <1>2, <1>4, Calls, CallForms
<1> QED BY <1>4, <1>5, <1>6, MatchRead, ReadHistory

LEMMA ExecuteMatched ==
    ASSUME DistinctSlots, Inv, Inv', OrderInv, HistoryInv, FillingInv, NEW t \in Threads,
           NEW r \in Requests[t], Execute(t, r), Remembered
    PROVE  HistoryInv' /\ FillingInv' /\ Matched
<1>1. PICK m : m = [NoLocals EXCEPT !.fn = "execute", !.request = r, !.todo = r]
  OBVIOUS
<1>2. m.fn = "execute" /\ m.request = r /\ m.help = <<>>
  BY <1>1 DEF NoLocals
<1>3. Moves(t, "Start", m) /\ UNCHANGED <<mem, kdesc, rdesc>> /\ pc[t] = "idle"
  BY <1>1, <1>2 DEF Execute, Call, Moves
<1>4. SameWords /\ OtherCalls(t) /\ FillingInv' /\ pc'[t] = "Start" /\ loc'[t] = m
  BY <1>3, QuietMove DEF Fillers
<1>5. AbstractCall(t) = [state |-> "idle"]
  BY <1>3, Calls, CallForms
<1>6. AbstractCall(t)' = [state |-> "updating", request |-> r]
  <2>1. OwnState(t)' = "UNDECIDED"
    BY <1>2, <1>4 DEF OwnState
  <2>2. AbstractCall(t)' = CallAt("Start", m, "UNDECIDED")
    BY <1>4, <2>1, Calls
  <2> QED BY <1>2, <2>2, CallForms
<1> QED BY <1>4, <1>5, <1>6, MatchExecute, ExecuteHistory

LEMMA ReturnMatched ==
    ASSUME DistinctSlots, Inv, Inv', OrderInv, HistoryInv, FillingInv, NEW t \in Threads,
           pc[t] = "Return", Return(t), UNCHANGED <<mem, kdesc, rdesc>>, Remembered
    PROVE  HistoryInv' /\ FillingInv' /\ Matched
<1>1. Moves(t, "idle", NoLocals)
  BY DEF Return, Step, Moves
<1>2. SameWords /\ OtherCalls(t) /\ FillingInv' /\ pc'[t] = "idle" /\ loc'[t] = NoLocals
  BY <1>1, QuietMove DEF Fillers
<1>3. AbstractCall(t) = [state |-> "answered", result |-> loc[t].result]
  BY Calls, CallForms
<1>4. AbstractCall(t)' = [state |-> "idle"]
  BY <1>2, Calls, CallForms
<1> QED BY <1>2, <1>3, <1>4, MatchReturn, ReturnHistory

LEMMA LoadMatched ==
    ASSUME DistinctSlots, Inv, Inv', OrderInv, HistoryInv, FillingInv, NEW t \in Threads,
           pc[t] = "Load", Load(t, loc[t]), UNCHANGED <<mem, kdesc, rdesc>>, Remembered
    PROVE  HistoryInv' /\ FillingInv' /\ Matched
<1>1. PICK l, a : l = loc[t] /\ a = l.addr
  OBVIOUS
<1>2. l \in Locals /\ l.fn = "read" /\ a \in Addrs
  BY <1>1, DoneHere DEF Place
<1>3. CASE mem[a].tag # "none"
  <2>1. Proceeds(t)
    BY <1>1, <1>3, LoadPass DEF Proceeds
  <2>2. SameWords
    BY QuietWords, SameStill DEF HistoryInv
  <2> QED BY <2>1, <2>2, NoWrites, ProceedsMatched
<1>4. CASE mem[a].tag = "none"
  <2>1. PICK m, v : v = mem[a].v /\ m = [l EXCEPT !.result = v]
    OBVIOUS
  <2>2. Answer(t, loc[t], v)
    BY <1>1, <1>4, <2>1 DEF Load
  <2>3. Moves(t, "Return", m) /\ m.result = v
    BY <1>1, <1>2, <2>1, <2>2 DEF Answer, Step, Moves, Locals
  <2>4. SameWords /\ OtherCalls(t) /\ FillingInv' /\ pc'[t] = "Return" /\ loc'[t] = m
    BY <2>3, QuietMove DEF Fillers
  <2>5. Logical(a) = v
    BY <1>4, <2>1 DEF Logical
  <2>6. AbstractCall(t) = [state |-> "reading", addr |-> a]
    BY <1>1, <1>2, Calls, CallForms
  <2>7. AbstractCall(t)' = [state |-> "answered", result |-> v]
    BY <2>3, <2>4, Calls, CallForms
  <2>8. HistoryInv'
    BY <2>2, NoWrites, AnswerHistory
  <2> QED BY <1>2, <2>4, <2>5, <2>6, <2>7, <2>8, MatchLoad
<1> QED BY <1>3, <1>4

(* The steps of help that only look at the words. *)
LEMMA LookingMatched ==
    ASSUME DistinctSlots, Inv, Inv', OrderInv, HistoryInv, FillingInv, NEW t \in Threads,
           UNCHANGED <<mem, kdesc, rdesc>>, Remembered,
           \/ pc[t] = "KcasSnapshot" /\ KcasSnapshot(t, loc[t])
           \/ pc[t] = "HelpState" /\ HelpState(t, loc[t])
           \/ pc[t] = "RdcssSnapshot" /\ RdcssSnapshot(t, loc[t])
           \/ pc[t] = "RdcssRead" /\ RdcssRead(t, loc[t])
           \/ pc[t] = "Outcome" /\ Outcome(t, loc[t])
    PROVE  HistoryInv' /\ FillingInv' /\ Matched
<1>1. Proceeds(t)
  <2>1. CASE pc[t] = "KcasSnapshot" /\ KcasSnapshot(t, loc[t])
    BY <2>1, KcasSnapshotPass DEF Proceeds
  <2> QED BY <2>1, HelpStatePass, RdcssSnapshotPass, RdcssReadPass, OutcomePass
<1>2. SameWords
  BY QuietWords, SameStill DEF HistoryInv
<1> QED BY <1>1, <1>2, NoWrites, ProceedsMatched

(* Those that change words or descriptors of rdcss. *)
LEMMA WritingMatched ==
    ASSUME DistinctSlots, Inv, Inv', OrderInv, HistoryInv, FillingInv, NEW t \in Threads, Remembered,
           \/ pc[t] = "Prepare" /\ Prepare(t, loc[t])
           \/ pc[t] = "RdcssCAS" /\ RdcssCAS(t, loc[t])
           \/ pc[t] = "RdcssFinish" /\ RdcssFinish(t, loc[t])
           \/ pc[t] = "Replace" /\ Replace(t, loc[t])
    PROVE  HistoryInv' /\ FillingInv' /\ Matched
<1>1. UNCHANGED kdesc
  BY DEF Prepare, RdcssCAS, RdcssFinish, Replace, CASWord
<1>2. Still
  BY <1>1, SameStill DEF HistoryInv
<1>3. Proceeds(t) /\ Writes(t) /\ SameWords
  BY <1>2, PreparePass, RdcssCASPass, RdcssFinishPass, ReplacePass
<1> QED BY <1>1, <1>3, ProceedsMatched

(* A thread fills its descriptor. *)
LEMMA FillMatched ==
    ASSUME DistinctSlots, Inv, Inv', OrderInv, HistoryInv, FillingInv, NEW t \in Threads, Remembered,
           \/ pc[t] = "Start" /\ Start(t, loc[t])
           \/ pc[t] = "Add" /\ Add(t, loc[t])
           \/ pc[t] = "Initialized" /\ Initialized(t, loc[t])
    PROVE  HistoryInv' /\ FillingInv' /\ Matched
<1>1. HistoryInv'
  BY StartHistory, AddHistory, InitializedHistory
<1>2. PICK l, s : l = loc[t] /\ s = Slot[t]
  OBVIOUS
<1>3. /\ l \in Locals /\ l.help = <<>> /\ l.fn = "execute" /\ s \in Slots
      /\ kdesc \in [Slots -> KDescs] /\ pc[t] \in {"Start"} \cup Fillers
      /\ kdesc[s] \in KDescs /\ kdesc[s].seq \in Nat
      /\ (pc[t] # "Start" => kdesc[s].state = "UNDECIDED")
  <2>1. pc[t] \in {"Start"} \cup Fillers
    BY DEF Fillers
  <2>2. l \in Locals /\ Errand(t, pc[t], l) /\ s \in Slots
    BY <1>2, DoneHere, Here
  <2>3. l.help = <<>> /\ l.fn = "execute"
    BY <2>1, <2>2 DEF Errand
  <2>4. kdesc \in [Slots -> KDescs]
    BY DEF Inv, KDescInv
  <2>5. pc[t] # "Start" => kdesc[s].state = "UNDECIDED"
    BY <1>2, <2>1 DEF FillingInv
  <2>6. kdesc[s] \in KDescs
    BY <2>2, <2>4
  <2> QED BY <2>1, <2>2, <2>3, <2>4, <2>5, <2>6 DEF KDescs
<1>4. PICK d, m, to :
          /\ Moves(t, to, m) /\ to \in Fillers /\ kdesc' = [kdesc EXCEPT ![s] = d]
          /\ d.state = "UNDECIDED" /\ d.seq \in Nat
          /\ pc[t] # "Start" => d.seq >= kdesc[s].seq
          /\ pc[t] = "Start" => d.seq > kdesc[s].seq
          /\ m.help = <<>> /\ m.fn = l.fn /\ m.addr = l.addr /\ m.request = l.request
  <2>1. CASE pc[t] = "Start" /\ Start(t, l)
    <3>1. PICK d : d = [seq |-> kdesc[s].seq + 1, state |-> "UNDECIDED", entries |-> <<>>]
      OBVIOUS
    <3>2. d.state = "UNDECIDED" /\ d.seq \in Nat /\ d.seq > kdesc[s].seq
      BY <1>3, <3>1
    <3>3. Moves(t, "Add", l) /\ kdesc' = [kdesc EXCEPT ![s] = d]
      BY <1>2, <1>3, <2>1, <3>1 DEF Start, Step, Moves
    <3> QED BY <1>3, <2>1, <3>2, <3>3 DEF Fillers
  <2>2. CASE pc[t] = "Add" /\ Add(t, l)
    <3>1. PICK d, m, to : /\ d = [kdesc[s] EXCEPT !.entries = Append(kdesc[s].entries, Head(l.todo))]
                          /\ m = [l EXCEPT !.todo = Tail(l.todo)]
                          /\ to = IF Len(l.todo) = 1 THEN "Initialized" ELSE "Add"
      OBVIOUS
    <3>2. d.state = "UNDECIDED" /\ d.seq = kdesc[s].seq
      BY <1>3, <2>2, <3>1 DEF KDescs
    <3>3. Moves(t, to, m)
      BY <2>2, <3>1 DEF Add, Step, Moves
    <3>4. kdesc' = [kdesc EXCEPT ![s] = d]
      BY <1>2, <1>3, <2>2, <3>1 DEF Add
    <3>5. m.help = <<>> /\ m.fn = l.fn /\ m.addr = l.addr /\ m.request = l.request
      BY <1>3, <3>1 DEF Locals
    <3>6. to \in Fillers /\ d.seq \in Nat /\ d.seq >= kdesc[s].seq
      BY <1>3, <3>1, <3>2 DEF Fillers
    <3> QED BY <2>2, <3>2, <3>3, <3>4, <3>5, <3>6
  <2>3. CASE pc[t] = "Initialized" /\ Initialized(t, l)
    <3>1. PICK d, m : /\ d = [kdesc[s] EXCEPT !.seq = kdesc[s].seq + 1]
                      /\ m = [l EXCEPT !.met = KTag(s, kdesc[s].seq + 1)]
      OBVIOUS
    <3>2. d.state = "UNDECIDED" /\ d.seq = kdesc[s].seq + 1
      <4>1. ASSUME NEW x \in KDescs, NEW n \in Nat
            PROVE  LET y == [x EXCEPT !.seq = n] IN y.seq = n /\ y.state = x.state
        BY DEF KDescs
      <4>2. kdesc[s].seq + 1 \in Nat
        BY <1>3
      <4> QED BY <1>3, <2>3, <3>1, <4>1, <4>2
    <3>3. Moves(t, "Transaction", m)
      BY <1>2, <2>3, <3>1 DEF Initialized, Step, Moves
    <3>4. kdesc' = [kdesc EXCEPT ![s] = d]
      BY <1>2, <1>3, <2>3, <3>1 DEF Initialized
    <3>5. m.help = <<>> /\ m.fn = l.fn /\ m.addr = l.addr /\ m.request = l.request
      BY <1>3, <3>1 DEF Locals
    <3>6. d.seq \in Nat /\ d.seq >= kdesc[s].seq
      BY <1>3, <3>2
    <3> QED BY <2>3, <3>2, <3>3, <3>4, <3>5, <3>6 DEF Fillers
  <2> QED BY <1>2, <2>1, <2>2, <2>3
<1>5. kdesc'[s] = d /\ \A r \in Slots \ {s} : kdesc'[r] = kdesc[r]
  BY <1>3, <1>4
<1>6. Still
  <2>1. \A r \in Slots \ {Slot[t]} : kdesc'[r] = kdesc[r]
    BY <1>2, <1>5
  <2>2. /\ kdesc'[Slot[t]].seq \in Nat
        /\ pc[t] # "Start" => kdesc'[Slot[t]].seq >= kdesc[Slot[t]].seq
        /\ pc[t] = "Start" => kdesc'[Slot[t]].seq > kdesc[Slot[t]].seq
    BY <1>2, <1>4, <1>5
  <2> QED BY <1>3, <2>1, <2>2, FillStill DEF HistoryInv
<1>7. OtherCalls(t)
  BY <1>4, <1>6, StillCalls
<1>8. SameWords
  <2>1. UNCHANGED <<mem, rdesc>>
    BY DEF Start, Add, Initialized
  <2> QED BY <1>6, <2>1, QuietWords
<1>9. AbstractCall(t)' = AbstractCall(t)
  <2>1. pc'[t] = to /\ loc'[t] = m
    BY <1>4, Moved
  <2>2. OwnState(t) = "UNDECIDED" /\ OwnState(t)' = "UNDECIDED"
    BY <1>2, <1>3, <1>4, <2>1 DEF OwnState
  <2>3. AbstractCall(t) = CallAt(pc[t], l, "UNDECIDED")
    BY <1>2, <2>2, Calls
  <2>4. AbstractCall(t)' = CallAt(to, m, "UNDECIDED")
    BY <2>1, <2>2, Calls
  <2>5. pc[t] \notin {"idle", "Return"} /\ to \notin {"idle", "Return"}
    BY <1>3, <1>4 DEF Fillers
  <2>6. CallAt(to, m, "UNDECIDED") = CallAt(pc[t], l, "UNDECIDED")
    BY <1>3, <1>4, <2>5, CallGoesOn
  <2> QED BY <2>3, <2>4, <2>6
<1>10. FillingInv'
  <2>1. \A u \in Threads \ {t} : Slot[u] \in Slots \ {s}
    BY <1>2 DEF Slots, DistinctSlots
  <2> QED BY <1>2, <1>4, <1>5, <2>1, FillingMoves
<1> QED BY <1>1, <1>7, <1>8, <1>9, <1>10, SameAll DEF Matched

LEMMA WrittenWord ==
    ASSUME NEW m, NEW r, OneEach(r), NEW i \in DOMAIN r, r[i].addr \in DOMAIN m
    PROVE  Written(m, r)[r[i].addr] = Value(r[i].new)
<1>1. PICK a, c : a = r[i].addr /\ c = CHOOSE e \in Range(r) : e.addr = a
  OBVIOUS
<1>2. r[i] \in Range(r)
  BY DEF Range
<1>3. c \in Range(r) /\ c.addr = a
  BY <1>1, <1>2
<1>4. PICK j \in DOMAIN r : c = r[j]
  BY <1>3 DEF Range
<1>5. c = r[i]
  BY <1>1, <1>3, <1>4 DEF OneEach
<1>6. Written(m, r)[a] = Value((CHOOSE e \in Range(r) : e.addr = a).new)
  BY <1>1, <1>2 DEF Written
<1> QED BY <1>1, <1>5, <1>6

(* A transaction that commits is the update. *)
LEMMA CommitMatched ==
    ASSUME DistinctSlots, Inv, Inv', OrderInv, HistoryInv, FillingInv, NEW t \in Threads,
           pc[t] = "Transaction", NEW r, r = kdesc[Slot[t]].entries,
           \A i \in DOMAIN r : mem[r[i].addr] = Value(r[i].old),
           mem' = Written(mem, r), Answer(t, loc[t], TRUE), UNCHANGED <<kdesc, rdesc>>, Remembered
    PROVE  FillingInv' /\ Matched
<1>1. PICK l, m : l = loc[t] /\ m = [l EXCEPT !.result = TRUE]
  OBVIOUS
<1>2. /\ l \in Locals /\ l.help = <<>> /\ l.fn = "execute"
      /\ l.request \in Requests[t] /\ l.request = r /\ r \in Seq(Entries)
  BY <1>1, Transacting
<1>3. m.result = TRUE /\ Moves(t, "Return", m)
  <2>1. m.result = TRUE
    BY <1>1, <1>2 DEF Locals
  <2> QED BY <1>1, <2>1 DEF Answer, Step, Moves
<1>4. Still
  BY SameStill DEF HistoryInv
<1>5. OtherCalls(t) /\ pc'[t] = "Return" /\ loc'[t] = m
  BY <1>3, <1>4, StillCalls, Moved
<1>6. FillingInv'
  BY <1>3, FillingMoves DEF Fillers
<1>7. AbstractCall(t) = [state |-> "updating", request |-> r]
  <2>1. OwnState(t) = "UNDECIDED"
    BY <1>1, <1>2 DEF OwnState
  <2>2. AbstractCall(t) = CallAt("Transaction", l, "UNDECIDED")
    BY <1>1, <2>1, Calls
  <2> QED BY <1>2, <2>2, CallForms
<1>8. AbstractCall(t)' = [state |-> "answered", result |-> TRUE]
  <2>1. AbstractCall(t)' = CallAt("Return", m, OwnState(t)')
    BY <1>5, Calls
  <2> QED BY <1>3, <2>1, CallForms
<1>9. OneEach(r)
  BY <1>2, RequestOneEach
<1>10. DOMAIN mem = Addrs
  BY DEF Inv, MemInv
<1>11. ASSUME NEW i \in DOMAIN r
       PROVE  r[i].addr \in Addrs /\ Logical(r[i].addr) = r[i].old /\ Logical(r[i].addr)' = r[i].new
  <2>1. r[i].addr \in Addrs
    <3>1. r[i] \in Entries
      BY <1>2, LenProperties, ElementOfSeq
    <3> QED BY <3>1 DEF Entries
  <2>2. Logical(r[i].addr) = r[i].old
    <3>1. PICK a, v : a = r[i].addr /\ v = r[i].old
      OBVIOUS
    <3>2. mem[a] = [tag |-> "none", v |-> v]
      BY <3>1 DEF Value
    <3>3. Logical(a) = v
      BY <3>2 DEF Logical
    <3> QED BY <3>1, <3>3
  <2>3. mem'[r[i].addr] = Value(r[i].new)
    BY <1>9, <1>10, <2>1, WrittenWord
  <2>4. Logical(r[i].addr)' = r[i].new
    <3>1. PICK a, v : a = r[i].addr /\ v = r[i].new
      OBVIOUS
    <3>2. mem'[a] = [tag |-> "none", v |-> v]
      BY <2>3, <3>1 DEF Value
    <3>3. Logical(a)' = v
      BY <3>2 DEF Logical
    <3> QED BY <3>1, <3>3
  <2> QED BY <2>1, <2>2, <2>4
<1>12. ASSUME NEW a \in Addrs, \A i \in DOMAIN r : r[i].addr # a
       PROVE  Logical(a)' = Logical(a)
  <2>1. mem'[a] = mem[a]
    BY <1>10, <1>12 DEF Written, Range
  <2> QED BY <1>4, <2>1, LogicalSame
<1> QED BY <1>5, <1>6, <1>7, <1>8, <1>11, <1>12, MatchUpdate

LEMMA AbortMatched ==
    ASSUME DistinctSlots, Inv, Inv', OrderInv, HistoryInv, FillingInv, NEW t \in Threads,
           pc[t] = "Transaction", Answer(t, loc[t], FALSE), UNCHANGED <<mem, kdesc, rdesc>>, Remembered
    PROVE  FillingInv' /\ Matched
<1>1. PICK l, m : l = loc[t] /\ m = [l EXCEPT !.result = FALSE]
  OBVIOUS
<1>2. l \in Locals /\ l.help = <<>> /\ l.fn = "execute"
  BY <1>1, Transacting
<1>3. m.result = FALSE /\ Moves(t, "Return", m)
  <2>1. m.result = FALSE
    BY <1>1, <1>2 DEF Locals
  <2> QED BY <1>1, <2>1 DEF Answer, Step, Moves
<1>4. SameWords /\ OtherCalls(t) /\ FillingInv' /\ pc'[t] = "Return" /\ loc'[t] = m
  BY <1>3, QuietMove DEF Fillers
<1>5. AbstractCall(t) = [state |-> "updating", request |-> l.request]
  <2>1. OwnState(t) = "UNDECIDED"
    BY <1>1, <1>2 DEF OwnState
  <2>2. AbstractCall(t) = CallAt("Transaction", l, "UNDECIDED")
    BY <1>1, <2>1, Calls
  <2> QED BY <1>2, <2>2, CallForms
<1>6. AbstractCall(t)' = [state |-> "answered", result |-> FALSE]
  <2>1. AbstractCall(t)' = CallAt("Return", m, OwnState(t)')
    BY <1>4, Calls
  <2> QED BY <1>3, <2>1, CallForms
<1> QED BY <1>4, <1>5, <1>6, MatchFail

(* The software path begins, and nothing is decided yet. *)
LEMMA FallbackMatched ==
    ASSUME DistinctSlots, Inv, Inv', OrderInv, HistoryInv, FillingInv, NEW t \in Threads,
           pc[t] = "Transaction", NEW sorted,
           kdesc' = [kdesc EXCEPT ![Slot[t]].entries = sorted],
           Step(t, "HelpState",
                [loc[t] EXCEPT !.help = <<HelpFrame(loc[t].met, sorted, FALSE)>>]),
           UNCHANGED <<mem, rdesc>>, Remembered
    PROVE  FillingInv' /\ Matched
<1>1. PICK l, s, w, g, m :
          /\ l = loc[t] /\ s = Slot[t] /\ w = l.met /\ g = HelpFrame(w, sorted, FALSE)
          /\ m = [l EXCEPT !.help = <<g>>]
  OBVIOUS
<1>2. /\ l \in Locals /\ l.help = <<>> /\ l.fn = "execute"
      /\ s \in Slots /\ kdesc \in [Slots -> KDescs] /\ w = KTag(s, kdesc[s].seq)
  BY <1>1, Transacting
<1>3. PICK d : d = [kdesc[s] EXCEPT !.entries = sorted]
  OBVIOUS
<1>4. d.seq = kdesc[s].seq /\ d.seq \in Nat /\ d.state = "UNDECIDED"
  <2>1. kdesc[s] \in KDescs
    BY <1>2
  <2>2. kdesc[s].state = "UNDECIDED"
    BY <1>1 DEF FillingInv, Fillers
  <2> QED BY <1>3, <2>1, <2>2 DEF KDescs
<1>5. kdesc'[s] = d /\ \A r \in Slots \ {s} : kdesc'[r] = kdesc[r]
  BY <1>1, <1>2, <1>3
<1>6. Moves(t, "HelpState", m)
  BY <1>1 DEF Step, Moves
<1>7. m.help = <<g>> /\ m.fn = l.fn /\ m.request = l.request /\ m.addr = l.addr
  BY <1>1, <1>2 DEF Locals
<1>8. pc'[t] = "HelpState" /\ loc'[t] = m
  BY <1>6, Moved
<1>9. g.tag = w /\ <<g>>[1] = g /\ <<g>> # <<>>
  BY <1>1 DEF HelpFrame
<1>10. done'[w] = d
  <2>1. w.slot = s /\ w.seq = kdesc[s].seq
    BY <1>2 DEF KTag
  <2>2. w \in Published'
    BY <1>2, <1>7, <1>8, <1>9 DEF Published
  <2> QED BY <1>4, <1>5, <2>1, <2>2 DEF Remembered
<1>11. Still
  <2>1. kdesc'[Slot[t]].seq \in Nat /\ kdesc'[Slot[t]].seq >= kdesc[Slot[t]].seq
    BY <1>1, <1>4, <1>5
  <2>2. pc[t] # "Start" /\ pc[t] \in {"Start"} \cup Fillers
    BY DEF Fillers
  <2> QED BY <1>1, <1>5, <2>1, <2>2, FillStill DEF HistoryInv
<1>12. OtherCalls(t)
  BY <1>6, <1>11, StillCalls
<1>13. SameWords
  BY <1>11, QuietWords
<1>14. AbstractCall(t)' = AbstractCall(t)
  <2>1. OwnState(t) = "UNDECIDED"
    BY <1>1, <1>2 DEF OwnState
  <2>2. OwnState(t)' = "UNDECIDED"
    BY <1>4, <1>7, <1>8, <1>9, <1>10 DEF OwnState
  <2>3. AbstractCall(t) = CallAt("Transaction", l, "UNDECIDED")
    BY <1>1, <2>1, Calls
  <2>4. AbstractCall(t)' = CallAt("HelpState", m, "UNDECIDED")
    BY <1>8, <2>2, Calls
  <2>5. CallAt("HelpState", m, "UNDECIDED") = CallAt("Transaction", l, "UNDECIDED")
    BY <1>2, <1>7, CallGoesOn
  <2> QED BY <2>3, <2>4, <2>5
<1>15. FillingInv'
  <2>1. \A u \in Threads \ {t} : Slot[u] \in Slots \ {s}
    BY <1>1 DEF Slots, DistinctSlots
  <2> QED BY <1>5, <1>6, <2>1, FillingMoves DEF Fillers
<1> QED BY <1>12, <1>13, <1>14, <1>15, SameAll DEF Matched

LEMMA TransactionMatched ==
    ASSUME DistinctSlots, Inv, Inv', OrderInv, HistoryInv, FillingInv, NEW t \in Threads,
           pc[t] = "Transaction", Transaction(t, loc[t]), Remembered
    PROVE  HistoryInv' /\ FillingInv' /\ Matched
<1>1. HistoryInv'
  BY TransactionHistory
<1>2. PICK es : es = kdesc[Slot[t]].entries
  OBVIOUS
<1>3. ASSUME \A i \in DOMAIN es : mem[es[i].addr] = Value(es[i].old),
             mem' = Written(mem, es), Answer(t, loc[t], TRUE), UNCHANGED <<kdesc, rdesc>>
      PROVE  FillingInv' /\ Matched
  BY <1>2, <1>3, CommitMatched
<1>4. ASSUME Answer(t, loc[t], FALSE), UNCHANGED <<mem, kdesc, rdesc>>
      PROVE  FillingInv' /\ Matched
  BY <1>4, AbortMatched
<1>5. ASSUME NEW sorted \in Sortings(es),
             kdesc' = [kdesc EXCEPT ![Slot[t]].entries = sorted],
             Step(t, "HelpState",
                  [loc[t] EXCEPT !.help = <<HelpFrame(loc[t].met, sorted, FALSE)>>]),
             UNCHANGED <<mem, rdesc>>
      PROVE  FillingInv' /\ Matched
  BY <1>5, FallbackMatched
<1>6. FillingInv' /\ Matched
  BY <1>2, <1>3, <1>4, <1>5 DEF Transaction
<1> QED BY <1>1, <1>6

(* The thread whose update it is that has not been decided. *)
LEMMA Owner ==
    ASSUME Inv, HistoryInv, NEW w \in DOMAIN done, ~Decided(w)
    PROVE  \E u \in Threads :
             /\ Slot[u] = w.slot /\ loc[u].fn = "execute" /\ loc[u].help # <<>>
             /\ loc[u].help[1].tag = w /\ Range(done[w].entries) = Range(loc[u].request)
             /\ loc[u].request \in Requests[u]
             /\ pc[u] \notin {"idle", "Return"} \cup Fillers
             /\ AbstractCall(u) = [state |-> "updating", request |-> loc[u].request]
<1>1. Memory(w) /\ w \in KTags
  BY Recall DEF HistoryInv, MemoryInv
<1>2. PICK u \in Threads : Slot[u] = w.slot /\ Updating(u) /\ kdesc[w.slot].seq = w.seq
  BY <1>1 DEF Memory
<1>3. PICK l, p : l = loc[u] /\ p = pc[u]
  OBVIOUS
<1>4. l.fn = "execute" /\ l.help # <<>> /\ Errand(u, p, l) /\ l.help \in Seq(DoneRuns)
  BY <1>2, <1>3, DoneHere DEF Updating
<1>5. w = KTag(w.slot, w.seq)
  BY <1>1 DEF KTags, KTag
<1>6. l.help[1].tag = w
  <2>1. l.help[1].tag = KTag(Slot[u], kdesc[Slot[u]].seq)
    BY <1>4 DEF Errand
  <2> QED BY <1>2, <1>5, <2>1
<1>7. Range(done[w].entries) = Range(l.request)
  <2>1. l.help[1].entries = done[l.help[1].tag].entries
    BY <1>4, RunsHeld
  <2>2. Range(l.help[1].entries) = Range(l.request)
    BY <1>4 DEF Errand
  <2> QED BY <1>6, <2>1, <2>2
<1>8. p \notin {"idle", "Return"} \cup Fillers /\ l.request \in Requests[u]
  BY <1>4 DEF Errand
<1>9. AbstractCall(u) = [state |-> "updating", request |-> l.request]
  <2>1. OwnState(u) = "UNDECIDED"
    BY <1>3, <1>4, <1>6 DEF OwnState, Decided
  <2>2. AbstractCall(u) = CallAt(p, l, "UNDECIDED")
    BY <1>3, <2>1, Calls
  <2>3. p \notin {"idle", "Return"}
    BY <1>8
  <2> QED BY <1>4, <2>2, <2>3, CallForms
<1> QED BY <1>2, <1>3, <1>4, <1>6, <1>7, <1>8, <1>9

(* A thread that decides leaves the calls of all but the owner as they are.*)
LEMMA DecideOthers ==
    ASSUME DistinctSlots, Inv, HistoryInv, NEW t \in Threads, pc[t] = "Decide",
           Moves(t, "Outcome", loc[t]), NEW w \in DOMAIN done,
           \A v \in DOMAIN done \ {w} : v \in DOMAIN done' /\ done'[v] = done[v],
           NEW u \in Threads,
           loc[u].fn # "execute" \/ loc[u].help = <<>> \/ loc[u].help[1].tag # w
    PROVE  AbstractCall(u)' = AbstractCall(u)
<1>1. PICK l, p, o : l = loc[u] /\ p = pc[u] /\ o = OwnState(u)
  OBVIOUS
<1>2. PICK q : q = pc'[u]
  OBVIOUS
<1>3. loc'[u] = l
  BY <1>1, Moved
<1>4. q = p \/ (p = "Decide" /\ q = "Outcome")
  BY <1>1, <1>2, Moved
<1>5. p \notin {"idle", "Return"} => l.fn \in {"read", "execute"}
  BY <1>1, DoneHere DEF Place, Locals
<1>6. AbstractCall(u) = CallAt(p, l, o) /\ AbstractCall(u)' = CallAt(q, l, OwnState(u)')
  <2>1. AbstractCall(u) = CallAt(pc[u], loc[u], OwnState(u))
    BY Calls
  <2>2. AbstractCall(u)' = CallAt(pc'[u], loc'[u], OwnState(u)')
    BY Calls
  <2> QED BY <1>1, <1>2, <1>3, <2>1, <2>2
<1>7. CASE p \in {"idle", "Return"}
  BY <1>4, <1>6, <1>7, CallForms
<1>8. CASE p \notin {"idle", "Return"} /\ l.fn = "read"
  BY <1>4, <1>6, <1>8, CallForms
<1>9. CASE p \notin {"idle", "Return"} /\ l.fn = "execute"
  <2>1. OwnState(u)' = o
    <3>1. CASE l.help = <<>>
      BY <1>1, <1>3, <3>1 DEF OwnState
    <3>2. CASE l.help # <<>>
      <4>1. loc[u].help[1].tag \in DOMAIN done
        BY <1>1, <3>2, OwnHeld
      <4>2. l.help[1].tag \in DOMAIN done \ {w}
        BY <1>1, <1>9, <3>2, <4>1
      <4> QED BY <1>1, <1>3, <3>2, <4>2 DEF OwnState
    <3> QED BY <3>1, <3>2
  <2>2. CallAt(q, l, o) = CallAt(p, l, o)
    <3>1. q \notin {"idle", "Return"} /\ l.fn \in {"read", "execute"}
      BY <1>4, <1>5, <1>9
    <3> QED BY <1>9, <3>1, CallGoesOn
  <2> QED BY <1>6, <2>1, <2>2
<1> QED BY <1>5, <1>7, <1>8, <1>9

(* The words that are not under the tag of the update.                     *)
LEMMA OtherLogical ==
    ASSUME Inv, HistoryInv, UNCHANGED <<mem, rdesc>>, NEW w, NEW a \in Addrs, mem[a] # w,
           \A v \in DOMAIN done \ {w} : v \in DOMAIN done' /\ done'[v] = done[v]
    PROVE  Logical(a)' = Logical(a)
<1>1. PICK x : x = mem[a]
  OBVIOUS
<1>2. x.tag \in {"none", "kcas", "rdcss"} /\ mem'[a] = x
  BY <1>1, WordTags
<1>3. CASE x.tag = "kcas"
  <2>1. x \in DOMAIN done \ {w}
    BY <1>1, <1>3 DEF HistoryInv, CoverInv, Covers
  <2>2. done'[x] = done[x]
    BY <2>1
  <2> QED BY <1>1, <1>2, <1>3, <2>2 DEF Logical
<1>4. CASE x.tag = "rdcss"
  BY <1>1, <1>2, <1>4 DEF Logical
<1>5. CASE x.tag = "none"
  BY <1>1, <1>2, <1>5 DEF Logical
<1> QED BY <1>2, <1>3, <1>4, <1>5

LEMMA LogicalDecided ==
    ASSUME Inv, HistoryInv, UNCHANGED mem, NEW a \in Addrs, NEW w \in DOMAIN done, mem[a] = w,
           done'[w].entries = done[w].entries,
           NEW i \in DOMAIN done[w].entries, done[w].entries[i].addr = a
    PROVE  Logical(a)' = IF done'[w].state = "SUCCEEDED" THEN done[w].entries[i].new
                                                         ELSE done[w].entries[i].old
<1>1. w.tag = "kcas" /\ OneEach(done[w].entries)
  BY Recall
<1>2. EntryAt(done[w].entries, a) = done[w].entries[i]
  <2>1. PICK es : es = done[w].entries
    OBVIOUS
  <2>2. EntryAt(es, es[i].addr) = es[i]
    BY <1>1, <2>1, EntryFound
  <2> QED BY <2>1, <2>2
<1>3. Logical(a)' = IF done'[w].state = "SUCCEEDED" THEN EntryAt(done'[w].entries, a).new
                                                    ELSE EntryAt(done'[w].entries, a).old
  BY <1>1 DEF Logical, EntryAt
<1> QED BY <1>2, <1>3

(* Who fills a descriptor is not in the way of a decision. *)
LEMMA DecideFilling ==
    ASSUME DistinctSlots, Inv, HistoryInv, FillingInv, NEW t \in Threads,
           Moves(t, "Outcome", loc[t]), NEW w \in DOMAIN done, NEW state,
           kdesc' = IF StateOf(w) = "UNDECIDED" THEN [kdesc EXCEPT ![w.slot].state = state] ELSE kdesc
    PROVE  FillingInv'
<1>1. kdesc \in [Slots -> KDescs] /\ w \in IssuedK
  BY Recall DEF Inv, KDescInv
<1>2. ASSUME NEW u \in Threads \ {t}, pc[u] \in Fillers
      PROVE  kdesc'[Slot[u]].state = kdesc[Slot[u]].state
  <2>1. CASE StateOf(w) # "UNDECIDED"
    BY <2>1
  <2>2. CASE StateOf(w) = "UNDECIDED"
    <3>1. kdesc[w.slot].seq = w.seq
      BY <2>2 DEF StateOf
    <3>2. w.slot \notin Filling
      BY <1>1, <3>1 DEF IssuedK, KTags
    <3>3. Slot[u] # w.slot /\ Slot[u] \in Slots
      BY <1>2, <3>2 DEF Filling, Slots
    <3> QED BY <1>1, <2>2, <3>3
  <2> QED BY <2>1, <2>2
<1> QED BY <1>2, FillingMoves DEF Fillers

(* An update is decided once: this is where it takes effect, or fails.     *)
LEMMA DecideMatched ==
    ASSUME DistinctSlots, Inv, Inv', OrderInv, HistoryInv, FillingInv, NEW t \in Threads,
           pc[t] = "Decide", Decide(t, loc[t]), Remembered
    PROVE  HistoryInv' /\ FillingInv' /\ Matched
<1>1. PICK f, w : f = Top(loc[t]) /\ w = f.tag
  OBVIOUS
<1>2. PICK l : l = loc[t]
  OBVIOUS
<1>3. /\ Moves(t, "Outcome", loc[t]) /\ UNCHANGED <<mem, rdesc>>
      /\ w \in DOMAIN done /\ w \in KTags /\ f.newstate \in {"SUCCEEDED", "FAILED"}
      /\ kdesc' = IF StateOf(w) = "UNDECIDED" THEN [kdesc EXCEPT ![w.slot].state = f.newstate]
                                              ELSE kdesc
      /\ \A v \in DOMAIN done \ {w} : done'[v] = done[v]
      /\ done'[w].state = IF Decided(w) THEN done[w].state ELSE f.newstate
      /\ ~Decided(w) /\ f.newstate = "SUCCEEDED" =>
           \A i \in DOMAIN done[w].entries : mem[done[w].entries[i].addr] = w
  BY <1>1, Deciding
<1>4. done'[w].entries = done[w].entries
  BY <1>1, Deciding
<1>5. HistoryInv'
  BY DecideHistory
<1>6. FillingInv'
  BY <1>2, <1>3, DecideFilling
<1>7. CASE Decided(w)
  <2>1. UNCHANGED kdesc
    BY <1>3, <1>7, Recall DEF Undecided
  <2>2. SameWords
    BY <1>3, <2>1, SameStill, QuietWords DEF HistoryInv
  <2>3. l.help # <<>> /\ l.help \in Seq(DoneRuns)
    BY <1>2, DoneHere DEF Place, Helping
  <2>4. Continues(l, l)
    BY SameContinues
  <2>5. Passes(t, "Outcome", l)
    BY <1>2, <1>3, <2>3, <2>4, PlainPass DEF Between, Fillers, Meeting
  <2>6. Proceeds(t)
    BY <2>5 DEF Proceeds
  <2> QED BY <1>3, <2>1, <2>2, <2>6, NoWrites, ProceedsMatched
<1>8. CASE ~Decided(w)
  <2>1. PICK es : es = done[w].entries /\ OneEach(es) /\ done[w].state = "UNDECIDED"
    BY <1>3, <1>8, Recall DEF Decided
  <2>2. PICK u \in Threads :
             /\ Slot[u] = w.slot /\ loc[u].fn = "execute" /\ loc[u].help # <<>>
             /\ loc[u].help[1].tag = w /\ Range(done[w].entries) = Range(loc[u].request)
             /\ loc[u].request \in Requests[u]
             /\ pc[u] \notin {"idle", "Return"} \cup Fillers
             /\ AbstractCall(u) = [state |-> "updating", request |-> loc[u].request]
    BY <1>3, <1>8, Owner
  <2>3. PICK r : r = loc[u].request /\ Range(es) = Range(r)
    BY <2>1, <2>2
  <2>4. \A v \in DOMAIN done \ {w} : v \in DOMAIN done' /\ done'[v] = done[v]
    BY <1>3 DEF Remembered
  <2>5. OtherCalls(u)
    <3>1. ASSUME NEW v \in Threads \ {u}
          PROVE  loc[v].fn # "execute" \/ loc[v].help = <<>> \/ loc[v].help[1].tag # w
      <4>1. SUFFICES ASSUME loc[v].fn = "execute", loc[v].help # <<>> PROVE loc[v].help[1].tag # w
        OBVIOUS
      <4>2. loc[v].help[1].tag = KTag(Slot[v], kdesc[Slot[v]].seq)
        BY <4>1, DoneHere DEF Errand
      <4>3. Slot[v] # w.slot
        BY <2>2 DEF DistinctSlots
      <4> QED BY <4>2, <4>3 DEF KTag
    <3> QED BY <1>2, <1>3, <2>4, <3>1, DecideOthers DEF OtherCalls
  <2>6. done'[w].state = f.newstate /\ done'[w].entries = es
    BY <1>3, <1>4, <1>8, <2>1
  <2>7. PICK q : AbstractCall(u)' = CallAt(q, loc[u], f.newstate) /\ q \notin {"idle", "Return"}
    <3>1. pc'[u] \notin {"idle", "Return"} /\ loc'[u] = loc[u]
      BY <1>2, <1>3, <2>2, Moved
    <3>2. OwnState(u)' = f.newstate
      BY <2>2, <2>6, <3>1 DEF OwnState
    <3>3. AbstractCall(u)' = CallAt(pc'[u], loc'[u], OwnState(u)')
      BY Calls
    <3> QED BY <3>1, <3>2, <3>3
  <2>8. ASSUME NEW a \in Addrs, mem[a] = w PROVE \E i \in DOMAIN es : es[i].addr = a
    <3>1. mem[a].tag = "kcas"
      BY <1>3, <2>8 DEF KTags
    <3> QED BY <2>1, <2>8, <3>1 DEF HistoryInv, CoverInv, Covers
  <2>9. CASE f.newstate = "FAILED"
    <3>1. AbstractCall(u)' = [state |-> "answered", result |-> FALSE]
      <4>1. PICK x : x = loc[u]
        OBVIOUS
      <4>2. q \notin {"idle", "Return"} /\ x.fn = "execute"
        BY <2>2, <2>7, <4>1
      <4>3. CallAt(q, x, "FAILED") = [state |-> "answered", result |-> FALSE]
        BY <4>2, CallLost
      <4>4. AbstractCall(u)' = CallAt(q, x, "FAILED")
        BY <2>7, <2>9, <4>1
      <4> QED BY <4>3, <4>4
    <3>2. ASSUME NEW a \in Addrs PROVE Logical(a)' = Logical(a)
      <4>1. CASE mem[a] # w
        BY <1>3, <2>4, <4>1, OtherLogical
      <4>2. CASE mem[a] = w
        <5>1. PICK i \in DOMAIN es : es[i].addr = a
          BY <2>8, <4>2
        <5>2. Logical(a) = es[i].old
          BY <1>3, <2>1, <4>2, <5>1, LogicalUnder
        <5>3. Logical(a)' = IF done'[w].state = "SUCCEEDED" THEN es[i].new ELSE es[i].old
          BY <1>3, <1>4, <2>1, <4>2, <5>1, LogicalDecided
        <5>4. Logical(a)' = es[i].old
          BY <2>6, <2>9, <5>3
        <5> QED BY <5>2, <5>4
      <4> QED BY <4>1, <4>2
    <3>3. SameWords
      BY <3>2 DEF SameWords
    <3>4. Matched
      BY <2>2, <2>5, <3>1, <3>3, MatchFail
    <3> QED BY <1>5, <1>6, <3>4
  <2>10. CASE f.newstate = "SUCCEEDED"
    <3>1. AbstractCall(u)' = [state |-> "answered", result |-> TRUE]
      <4>1. PICK x : x = loc[u]
        OBVIOUS
      <4>2. q \notin {"idle", "Return"} /\ x.fn = "execute"
        BY <2>2, <2>7, <4>1
      <4>3. CallAt(q, x, "SUCCEEDED") = [state |-> "answered", result |-> TRUE]
        BY <4>2, CallWon
      <4>4. AbstractCall(u)' = CallAt(q, x, "SUCCEEDED")
        BY <2>7, <2>10, <4>1
      <4> QED BY <4>3, <4>4
    <3>2. r \in Seq(Entries)
      BY <2>2, <2>3, KCASAssumption
    <3>3. ASSUME NEW i \in DOMAIN r
          PROVE  /\ r[i].addr \in Addrs /\ Logical(r[i].addr) = r[i].old
                 /\ Logical(r[i].addr)' = r[i].new
      <4>1. r[i] \in Entries
        BY <3>2, LenProperties, ElementOfSeq
      <4>2. PICK a, e : e = r[i] /\ a = e.addr /\ a \in Addrs
        BY <4>1 DEF Entries
      <4>3. PICK j \in DOMAIN es : es[j] = e
        BY <2>3, <4>2 DEF Range
      <4>4. mem[a] = w
        BY <1>3, <1>8, <2>1, <2>10, <4>2, <4>3
      <4>5. Logical(a) = e.old
        BY <1>3, <2>1, <4>2, <4>3, <4>4, LogicalUnder
      <4>6. Logical(a)' = IF done'[w].state = "SUCCEEDED" THEN es[j].new ELSE es[j].old
        BY <1>3, <1>4, <2>1, <4>2, <4>3, <4>4, LogicalDecided
      <4>7. Logical(a)' = e.new
        BY <2>6, <2>10, <4>3, <4>6
      <4> QED BY <4>2, <4>5, <4>7
    <3>4. ASSUME NEW a \in Addrs, \A i \in DOMAIN r : r[i].addr # a
          PROVE  Logical(a)' = Logical(a)
      <4>1. mem[a] # w
        <5>1. SUFFICES ASSUME mem[a] = w PROVE FALSE
          OBVIOUS
        <5>2. PICK i \in DOMAIN es : es[i].addr = a
          BY <2>8, <5>1
        <5>3. es[i] \in Range(r)
          BY <2>3 DEF Range
        <5> QED BY <3>4, <5>2, <5>3 DEF Range
      <4> QED BY <1>3, <2>4, <4>1, OtherLogical
    <3>5. Matched
      <4>1. AbstractCall(u) = [state |-> "updating", request |-> r]
        BY <2>2, <2>3
      <4> QED BY <2>5, <3>1, <3>3, <3>4, <4>1, MatchUpdate
    <3> QED BY <1>5, <1>6, <3>5
  <2> QED BY <1>3, <2>9, <2>10
<1> QED BY <1>7, <1>8

LEMMA StutterMatched ==
    ASSUME HistoryInv, FillingInv, UNCHANGED hvars
    PROVE  HistoryInv' /\ FillingInv' /\ Matched
<1>1. /\ mem' = mem /\ kdesc' = kdesc /\ rdesc' = rdesc /\ pc' = pc /\ loc' = loc /\ done' = done
  BY DEF hvars
<1>2. IssuedK' = IssuedK
  BY <1>1 DEF IssuedK, Filling
<1>3. MemoryInv'
  BY <1>1, <1>2 DEF HistoryInv, MemoryInv, Memory, Decided, Updating
<1>4. CoverInv' /\ ServesInv'
  BY <1>1 DEF HistoryInv, CoverInv, Covers, ServesInv, Serves
<1>5. LateInv' /\ FreshInv' /\ FillingInv'
  BY <1>1 DEF HistoryInv, LateInv, FreshInv, FillingInv, Intends
<1>6. DoneRuns' = DoneRuns
  BY <1>1, <1>2 DEF DoneRuns, Runs
<1>7. ASSUME NEW t \in Threads PROVE Position(pc[t], loc[t])' /\ Errand(t, pc[t], loc[t])'
  <2>1. Position(pc[t], loc[t])'
    BY <1>1, <1>6 DEF HistoryInv, Position, Serves, Decided, Top
  <2>2. Errand(t, pc[t], loc[t])'
    BY <1>1 DEF HistoryInv, Errand, Filled
  <2> QED BY <2>1, <2>2
<1>8. HistoryInv'
  BY <1>3, <1>4, <1>5, <1>7 DEF HistoryInv
<1>9. UNCHANGED Abstract!avars
  <2>1. ASSUME NEW a \in Addrs PROVE Logical(a)' = Logical(a)
    BY <1>1 DEF Logical, EntryAt
  <2>2. ASSUME NEW t \in Threads PROVE AbstractCall(t)' = AbstractCall(t)
    <3>1. OwnState(t)' = OwnState(t)
      BY <1>1 DEF OwnState
    <3> QED BY <1>1, <3>1, Calls
  <2> QED BY <2>1, <2>2 DEF Abstract!avars
<1> QED BY <1>5, <1>8, <1>9 DEF Matched

(* A step of any thread. *)
LEMMA WorkMatched ==
    ASSUME DistinctSlots, Inv, Inv', OrderInv, HistoryInv, FillingInv, NEW t \in Threads,
           Work(t, loc[t]), Remembered
    PROVE  HistoryInv' /\ FillingInv' /\ Matched
<1>1. ASSUME UNCHANGED <<mem, kdesc, rdesc>>,
             \/ At(t, "Load")          /\ Load(t, loc[t])
             \/ At(t, "KcasSnapshot")  /\ KcasSnapshot(t, loc[t])
             \/ At(t, "HelpState")     /\ HelpState(t, loc[t])
             \/ At(t, "RdcssSnapshot") /\ RdcssSnapshot(t, loc[t])
             \/ At(t, "RdcssRead")     /\ RdcssRead(t, loc[t])
             \/ At(t, "Outcome")       /\ Outcome(t, loc[t])
             \/ At(t, "Return")        /\ Return(t)
      PROVE  HistoryInv' /\ FillingInv' /\ Matched
  BY <1>1, LoadMatched, LookingMatched, ReturnMatched DEF At
<1>2. CASE \/ At(t, "Start")       /\ Start(t, loc[t])
           \/ At(t, "Add")         /\ Add(t, loc[t])
           \/ At(t, "Initialized") /\ Initialized(t, loc[t])
  BY <1>2, FillMatched DEF At
<1>3. CASE At(t, "Transaction") /\ Transaction(t, loc[t])
  BY <1>3, TransactionMatched DEF At
<1>4. CASE \/ At(t, "Prepare")     /\ Prepare(t, loc[t])
           \/ At(t, "RdcssCAS")    /\ RdcssCAS(t, loc[t])
           \/ At(t, "RdcssFinish") /\ RdcssFinish(t, loc[t])
           \/ At(t, "Replace")     /\ Replace(t, loc[t])
  BY <1>4, WritingMatched DEF At
<1>5. CASE At(t, "Decide") /\ Decide(t, loc[t])
  BY <1>5, DecideMatched DEF At
<1> QED BY <1>1, <1>2, <1>3, <1>4, <1>5 DEF Work

LEMMA NextMatched ==
    ASSUME DistinctSlots, AtomicInv, [HNext]_hvars
    PROVE  AtomicInv' /\ Matched
<1>1. Inv /\ OrderInv /\ HistoryInv /\ FillingInv
  BY DEF AtomicInv
<1>2. [Next]_vars
  BY DEF HNext, hvars, vars
<1>3. Inv' /\ OrderInv'
  BY <1>1, <1>2, NextInv, NextOrder
<1>4. CASE UNCHANGED hvars
  BY <1>1, <1>3, <1>4, StutterMatched DEF AtomicInv
<1>5. ASSUME NEW t \in Threads, NEW a \in Reads, Read(t, a), Remembered
      PROVE  HistoryInv' /\ FillingInv' /\ Matched
  BY <1>1, <1>3, <1>5, ReadMatched
<1>6. ASSUME NEW t \in Threads, NEW r \in Requests[t], Execute(t, r), Remembered
      PROVE  HistoryInv' /\ FillingInv' /\ Matched
  BY <1>1, <1>3, <1>6, ExecuteMatched
<1>7. ASSUME NEW t \in Threads, Work(t, loc[t]), Remembered
      PROVE  HistoryInv' /\ FillingInv' /\ Matched
  BY <1>1, <1>3, <1>7, WorkMatched
<1>8. CASE HNext
  <2>1. HistoryInv' /\ FillingInv' /\ Matched
    BY <1>5, <1>6, <1>7, <1>8 DEF HNext, Next
  <2> QED BY <1>3, <2>1 DEF AtomicInv
<1> QED BY <1>4, <1>8

LEMMA InitMatched ==
    ASSUME HInit
    PROVE  AtomicInv /\ Abstract!AInit
<1>1. Init /\ done = <<>> /\ DOMAIN done = {}
  BY DEF HInit
<1>2. Inv /\ OrderInv
  BY <1>1, InitInv, InitOrder
<1>3. /\ \A a \in Addrs : mem[a] = Value(Initial[a])
      /\ \A s \in Slots : rdesc[s] = Unused
      /\ \A t \in Threads : pc[t] = "idle" /\ loc[t] = NoLocals
  BY <1>1 DEF Init, Unused
<1>4. NoLocals.help = <<>> /\ NoLocals.fn = "none"
  BY DEF NoLocals
<1>5. MemoryInv /\ CoverInv /\ ServesInv
  <2>1. MemoryInv
    BY <1>1 DEF MemoryInv
  <2>2. \A a \in Addrs : mem[a].tag = "none"
    BY <1>1 DEF Init, Value
  <2>3. CoverInv
    BY <2>2 DEF CoverInv
  <2>4. ServesInv
    BY <1>3 DEF ServesInv
  <2> QED BY <2>1, <2>3, <2>4
<1>6. LateInv /\ FreshInv /\ FillingInv
  BY <1>3 DEF LateInv, FreshInv, FillingInv, Fillers, Intends
<1>7. ASSUME NEW t \in Threads PROVE Position(pc[t], loc[t]) /\ Errand(t, pc[t], loc[t])
  <2>1. pc[t] = "idle" /\ loc[t].help = <<>> /\ loc[t].fn = "none"
    BY <1>3, <1>4
  <2>2. <<>> \in Seq(DoneRuns)
    BY EmptySeq
  <2>3. Position(pc[t], loc[t])
    BY <2>1, <2>2 DEF Position
  <2>4. Errand(t, pc[t], loc[t])
    BY <2>1 DEF Errand, Fillers
  <2> QED BY <2>3, <2>4
<1>8. AtomicInv
  BY <1>2, <1>5, <1>6, <1>7 DEF AtomicInv, HistoryInv
<1>9. [a \in Addrs |-> Logical(a)] = Initial
  <2>1. ASSUME NEW a \in Addrs PROVE Logical(a) = Initial[a]
    <3>1. mem[a] = [tag |-> "none", v |-> Initial[a]]
      BY <1>3 DEF Value
    <3> QED BY <3>1 DEF Logical
  <2>2. Initial \in [Addrs -> Int]
    BY KCASAssumption
  <2> QED BY <2>1, <2>2
<1>10. ASSUME NEW t \in Threads PROVE AbstractCall(t) = Abstract!Idle
  BY <1>3, Calls, CallForms DEF Abstract!Idle
<1>11. Abstract!AInit
  BY <1>9, <1>10 DEF Abstract!AInit
<1> QED BY <1>8, <1>11

(* The history variable only looks on: what holds of every behaviour of    *)
(* Spec holds of those with the history.                                   *)
LEMMA HistoryLooksOn == HSpec => Spec
<1>1. HInit => Init
  BY DEF HInit
<1>2. [HNext]_hvars => [Next]_vars
  BY DEF HNext, hvars, vars
<1> QED BY <1>1, <1>2, PTL DEF HSpec, Spec

(* A k-word update takes effect at one instant, in all its words or in     *)
(* none: when its transaction commits, or when it is decided to succeed.   *)
(* Loads see the words before or after it, whoever helps, for any number   *)
(* of threads with slots of their own, of words and of updates             *)
(* (kcas_reuse_htm_impl.h:390-451, 468-513).                               *)
THEOREM Atomic == ASSUME DistinctSlots PROVE HSpec => ImplementsAtomicWords
<1>1. HInit => AtomicInv /\ Abstract!AInit
  BY InitMatched
<1>2. AtomicInv /\ [HNext]_hvars => AtomicInv' /\ [Abstract!ANext]_(Abstract!avars)
  BY NextMatched DEF Matched
<1> QED BY <1>1, <1>2, PTL DEF HSpec, ImplementsAtomicWords, Abstract!ASpec

-----------------------------------------------------------------------------
(* What is left in the words *)

(* The update with the tag w is in the hands of t, its owner, who has not  *)
(* yet passed the word at a on its way through the tagged words.           *)
Clears(t, w, a) ==
    /\ Updating(t) /\ loc[t].help[1].tag = w
    /\ pc[t] = "Replace" /\ Front(loc[t].help) = <<>> =>
         \E i \in DOMAIN Top(loc[t]).entries :
             Top(loc[t]).i <= i /\ Top(loc[t]).entries[i].addr = a

(* The owner of an update that has succeeded has the tagged words before   *)
(* it.                                                                     *)
ClearedInv ==
    \A a \in Addrs :
        mem[a].tag = "kcas" /\ done[mem[a]].state = "SUCCEEDED" =>
            \E t \in Threads : Clears(t, mem[a], a)

(* Success comes only to what was undecided. *)
NoneRevised ==
    \A w \in DOMAIN done :
        done'[w].state = "SUCCEEDED" => done[w].state = "SUCCEEDED" \/ ~Decided(w)

(* Nobody puts the tag of an update that has succeeded in a word.          *)
NoneTagged ==
    \A a \in Addrs :
        mem'[a].tag = "kcas" => mem'[a] = mem[a] \/ done'[mem'[a]].state # "SUCCEEDED"

LEMMA StillRevised == ASSUME Still PROVE NoneRevised
BY DEF Still, NoneRevised

LEMMA FillRevised ==
    ASSUME HistoryInv, Remembered, NEW s, kdesc'[s].state = "UNDECIDED",
           \A r \in Slots \ {s} : kdesc'[r] = kdesc[r]
    PROVE  NoneRevised
<1> SUFFICES ASSUME NEW w \in DOMAIN done, done'[w].state = "SUCCEEDED"
             PROVE  done[w].state = "SUCCEEDED"
  BY DEF NoneRevised
<1>1. /\ w.slot \in Slots
      /\ kdesc[w.slot].seq = w.seq => done[w] = kdesc[w.slot]
      /\ done'[w] = IF kdesc'[w.slot].seq = w.seq THEN kdesc'[w.slot] ELSE done[w]
  BY Recall DEF Remembered, KTags
<1>2. CASE w.slot = s
  BY <1>1, <1>2
<1>3. CASE w.slot # s
  BY <1>1, <1>3
<1> QED BY <1>2, <1>3

(* An update that is not decided yet is its owner's to clear. *)
LEMMA UndecidedClears ==
    ASSUME Inv, HistoryInv, NEW w \in DOMAIN done, ~Decided(w), NEW a
    PROVE  \E t \in Threads : Clears(t, w, a)
<1>1. PICK u \in Threads : loc[u].fn = "execute" /\ loc[u].help # <<>> /\ loc[u].help[1].tag = w
  BY Owner
<1>2. loc[u].help \in Seq(Runs) /\ Position(pc[u], loc[u])
  BY DoneHere
<1>3. ~(pc[u] = "Replace" /\ Front(loc[u].help) = <<>>)
  <2>1. Front(loc[u].help) = <<>> => Top(loc[u]) = loc[u].help[1]
    BY <1>1, <1>2, BottomFront DEF Top
  <2>2. pc[u] = "Replace" => Decided(Top(loc[u]).tag)
    BY <1>2 DEF Position
  <2> QED BY <1>1, <2>1, <2>2
<1> QED BY <1>1, <1>3 DEF Clears, Updating

(* What a step of t must show. *)
LEMMA ClearedStep ==
    ASSUME Inv, HistoryInv, ClearedInv, NEW t \in Threads, NEW to, NEW m, Moves(t, to, m),
           NoneRevised, NoneTagged,
           \A a \in Addrs : \A w : mem[a] = w /\ mem'[a] = w /\ w.tag = "kcas" /\ Clears(t, w, a) =>
               Clears(t, w, a)'
    PROVE  ClearedInv'
<1> SUFFICES ASSUME NEW a \in Addrs, NEW w, w = mem'[a], w.tag = "kcas",
                    done'[w].state = "SUCCEEDED"
             PROVE  \E u \in Threads : Clears(u, w, a)'
  BY DEF ClearedInv
<1>1. w = mem[a]
  BY DEF NoneTagged
<1>2. w \in DOMAIN done
  BY <1>1 DEF HistoryInv, CoverInv, Covers
<1>3. PICK u \in Threads : Clears(u, w, a)
  <2>1. done[w].state = "SUCCEEDED" \/ ~Decided(w)
    BY <1>2 DEF NoneRevised
  <2>2. CASE done[w].state = "SUCCEEDED"
    BY <1>1, <2>2 DEF ClearedInv
  <2>3. CASE ~Decided(w)
    BY <1>2, <2>3, UndecidedClears
  <2> QED BY <2>1, <2>2, <2>3
<1>4. CASE u = t
  BY <1>1, <1>3, <1>4
<1>5. CASE u # t
  <2>1. pc'[u] = pc[u] /\ loc'[u] = loc[u]
    BY <1>5, Moved
  <2> QED BY <1>3, <2>1 DEF Clears, Updating, Top
<1> QED BY <1>4, <1>5

(* A thread that goes on, and not to the tagged words, has them before it. *)
LEMMA PassClears ==
    ASSUME Inv, NEW t \in Threads, NEW to, NEW m, Moves(t, to, m), Continues(loc[t], m),
           NEW w, NEW a, Clears(t, w, a),
           to = "Replace" => Front(m.help) # <<>> \/ \E i \in DOMAIN Top(m).entries :
                                 Top(m).i <= i /\ Top(m).entries[i].addr = a
    PROVE  Clears(t, w, a)'
<1>1. pc'[t] = to /\ loc'[t] = m
  BY Moved
<1>2. m.fn = "execute" /\ m.help # <<>> /\ m.help[1].tag = w
  BY DEF Clears, Updating, Continues
<1>3. to = "Replace" /\ Front(m.help) = <<>> =>
        \E i \in DOMAIN Top(m).entries : Top(m).i <= i /\ Top(m).entries[i].addr = a
  OBVIOUS
<1> HIDE DEF Moves
<1> QED BY <1>1, <1>2, <1>3 DEF Clears, Updating, Top

LEMMA ProceedsClears ==
    ASSUME Inv, NEW t \in Threads, Proceeds(t), pc'[t] \notin {"Replace", "Return"},
           NEW w, NEW a, Clears(t, w, a)
    PROVE  Clears(t, w, a)'
<1>1. PICK m : Finishes(t, m) \/ \E to : Passes(t, to, m)
  BY DEF Proceeds
<1>2. ~Finishes(t, m)
  BY Moved DEF Finishes
<1>3. PICK to : Passes(t, to, m)
  BY <1>1, <1>2
<1>4. Moves(t, to, m) /\ Continues(loc[t], m) /\ to # "Replace"
  BY <1>3, Moved DEF Passes
<1> QED BY <1>4, PassClears

(* Where a run of help returns to. *)
LEMMA Returned ==
    ASSUME Inv, NEW t \in Threads, NEW r, HelpReturns(t, loc[t], r),
           ~(Front(loc[t].help) = <<>> /\ loc[t].fn = "execute")
    PROVE  pc'[t] \in {"Load", "Prepare"}
<1>1. loc[t] \in Locals /\ pc \in [Threads -> PCs]
  BY Here
<1>2. [loc[t] EXCEPT !.help = Front(@)].help = Front(loc[t].help)
  BY <1>1 DEF Locals
<1> QED BY <1>1, <1>2 DEF HelpReturns, Step, AfterHelp

(* An owner passes the words one after the other. *)
LEMMA ReplaceClears ==
    ASSUME DistinctSlots, Inv, OrderInv, HistoryInv, Still, NEW t \in Threads, pc[t] = "Replace",
           Replace(t, loc[t]), NEW a \in Addrs, mem'[a] = mem[a], Clears(t, mem[a], a)
    PROVE  Clears(t, mem[a], a)'
<1>1. PICK l, f, w, e, new : /\ l = loc[t] /\ f = Top(l) /\ w = mem[a] /\ e = f.entries[f.i]
                             /\ new = Value(IF f.newstate = "SUCCEEDED" THEN e.new ELSE e.old)
  OBVIOUS
<1>2. /\ l \in Locals /\ mem \in [Addrs -> Words] /\ l.help # <<>> /\ l.help \in Seq(Runs)
      /\ l.fn = "execute" /\ l.help[1].tag = w /\ l.help \in Seq(DoneRuns)
  BY <1>1, DoneHere DEF Inv, MemInv, Clears, Updating
<1>3. /\ f \in Runs /\ f \in Frames /\ f.i \in Nat \ {0} /\ f.entries \in Seq(Entries)
      /\ Front(l.help) \in Seq(Runs) /\ f.tag.tag = "kcas"
  BY <1>1, <1>2, TopRun, RunEntries
<1>4. /\ CASWord(e.addr, f.tag, new)
      /\ \/ f.i = Len(f.entries) /\ HelpReturns(t, l, f.newstate = "SUCCEEDED")
         \/ f.i # Len(f.entries) /\ Step(t, "Replace", NextEntry(l))
  BY <1>1 DEF Replace
<1>5. PICK next, m : next = [f EXCEPT !.i = @ + 1] /\ m = [l EXCEPT !.help = Append(Front(l.help), next)]
  OBVIOUS
<1>6. next \in Runs /\ next.tag = f.tag /\ next.entries = f.entries /\ next.i = f.i + 1
  <2>1. next \in Frames /\ next.tag = f.tag /\ next.entries = f.entries /\ next.i = f.i + 1
    BY <1>3, <1>5 DEF Frames
  <2> QED BY <1>3, <2>1 DEF Runs
<1>7. /\ m.fn = l.fn /\ m.addr = l.addr /\ m.request = l.request
      /\ m.help = Append(Front(l.help), next)
  BY <1>2, <1>5 DEF Locals
<1>8. Continues(l, m) /\ Front(m.help) = Front(l.help) /\ Top(m) = next
  <2>1. Continues(l, m)
    BY <1>1, <1>2, <1>6, <1>7, SwapContinues
  <2>2. Front(m.help) = Front(l.help)
    BY <1>3, <1>6, <1>7, FrontPush
  <2>3. Top(m) = next
    BY <1>3, <1>6, <1>7, Push DEF Top
  <2> QED BY <2>1, <2>2, <2>3
<1>9. CASE Front(l.help) # <<>>
  <2>1. CASE HelpReturns(t, l, f.newstate = "SUCCEEDED")
    <3>1. pc'[t] \in {"Load", "Prepare"}
      BY <1>1, <1>9, <2>1, Returned
    <3>2. Proceeds(t)
      BY ReplacePass
    <3> QED BY <1>1, <3>1, <3>2, ProceedsClears
  <2>2. CASE Step(t, "Replace", NextEntry(l))
    <3>1. Moves(t, "Replace", m)
      BY <1>1, <1>5, <2>2 DEF NextEntry, WithTop, Step, Moves
    <3> QED BY <1>1, <1>8, <1>9, <3>1, PassClears
  <2> QED BY <1>4, <2>1, <2>2
<1>10. CASE Front(l.help) = <<>>
  <2>1. f.tag = w
    <3>1. Top(l) = l.help[1]
      BY <1>2, <1>10, BottomFront DEF Top
    <3> QED BY <1>1, <1>2, <3>1
  <2>2. PICK i \in DOMAIN f.entries : f.i <= i /\ f.entries[i].addr = a
    BY <1>1, <1>10 DEF Clears
  <2>3. i # f.i
    <3> SUFFICES ASSUME i = f.i PROVE FALSE
      OBVIOUS
    <3>1. e.addr = a
      BY <1>1, <2>2
    <3>2. mem'[a] = new
      BY <1>1, <1>2, <1>4, <2>1, <3>1 DEF CASWord
    <3>3. new.tag = "none"
      BY <1>1 DEF Value
    <3> QED BY <1>1, <1>3, <2>1, <3>2, <3>3
  <2>4. i \in Nat /\ i <= Len(f.entries) /\ Len(f.entries) \in Nat /\ f.i + 1 <= i
    BY <1>3, <2>2, <2>3, LenProperties
  <2>5. Moves(t, "Replace", m)
    <3>1. f.i # Len(f.entries)
      BY <1>3, <2>4
    <3> QED BY <1>1, <1>4, <1>5, <3>1 DEF NextEntry, WithTop, Step, Moves
  <2>6. Top(m).i <= i /\ i \in DOMAIN Top(m).entries /\ Top(m).entries[i].addr = a
    BY <1>6, <1>8, <2>2, <2>4
  <2> QED BY <1>1, <1>8, <2>5, <2>6, PassClears
<1> QED BY <1>9, <1>10

(* An owner comes to the tagged words at the first.                        *)
LEMMA OutcomeClears ==
    ASSUME Inv, OrderInv, HistoryInv, NEW t \in Threads, pc[t] = "Outcome", Outcome(t, loc[t]),
           NEW a \in Addrs, NEW w, mem[a] = w, w.tag = "kcas", Clears(t, w, a)
    PROVE  Clears(t, w, a)'
<1>1. PICK l, f, state, g, m :
          /\ l = loc[t] /\ f = Top(l) /\ state = StateOf(f.tag)
          /\ g = [f EXCEPT !.i = 1, !.newstate = state]
          /\ m = [l EXCEPT !.help = Append(Front(l.help), g)]
  OBVIOUS
<1>2. /\ l \in Locals /\ l.help # <<>> /\ l.help \in Seq(Runs) /\ l.help \in Seq(DoneRuns)
      /\ l.fn = "execute" /\ l.help[1].tag = w /\ pc[t] \in Helping
  BY <1>1, DoneHere DEF Clears, Updating, Helping
<1>3. CASE state = "GONE"
  <2>1. HelpReturns(t, l, FALSE)
    BY <1>1, <1>3 DEF Outcome
  <2>2. Front(l.help) # <<>>
    BY <1>1, <1>2, <1>3, OwnStays
  <2>3. pc'[t] \in {"Load", "Prepare"}
    BY <1>1, <2>1, <2>2, Returned
  <2> QED BY <1>1, <2>3, OutcomePass, ProceedsClears
<1>4. CASE state # "GONE"
  <2>1. PICK x : x = [f EXCEPT !.i = 1]
    OBVIOUS
  <2>2. f \in Frames /\ f \in Runs /\ Front(l.help) \in Seq(Runs)
        /\ f.tag \in DOMAIN done /\ f.entries = done[f.tag].entries
    BY <1>1, <1>2, TopRun, RunEntries, TopDone
  <2>3. state \in States
    <3>1. done[f.tag] \in KDescs /\ done[f.tag].state = state
      BY <1>1, <1>4, <2>2, Recall
    <3> QED BY <3>1 DEF KDescs
  <2>4. x \in Frames /\ x.tag = f.tag /\ x.entries = f.entries /\ x.i = 1
    BY <2>1, <2>2 DEF Frames
  <2>5. g = [x EXCEPT !.newstate = state]
    BY <1>1, <2>1
  <2>6. g \in Frames /\ g.tag = f.tag /\ g.entries = f.entries /\ g.i = 1
    <3>1. ASSUME NEW y \in Frames, NEW st \in States
          PROVE  LET z == [y EXCEPT !.newstate = st]
                 IN  z \in Frames /\ z.tag = y.tag /\ z.entries = y.entries /\ z.i = y.i
      BY DEF Frames
    <3>2. /\ g \in Frames /\ g.tag = x.tag /\ g.entries = x.entries /\ g.i = x.i
      BY <2>3, <2>4, <2>5, <3>1, Zenon
    <3> QED BY <2>4, <3>2
  <2>7. g \in Runs
    BY <2>2, <2>6 DEF Runs
  <2>8. /\ m.fn = l.fn /\ m.addr = l.addr /\ m.request = l.request
        /\ m.help = Append(Front(l.help), g)
    BY <1>1, <1>2 DEF Locals
  <2>9. Continues(l, m) /\ Top(m) = g /\ Front(m.help) = Front(l.help)
    <3>1. Continues(l, m)
      <4>1. g.tag = Top(l).tag /\ g.entries = Top(l).entries
        BY <1>1, <2>6
      <4> QED BY <1>2, <2>7, <2>8, <4>1, SwapContinues
    <3>2. Top(m) = g
      BY <2>2, <2>7, <2>8, Push DEF Top
    <3>3. Front(m.help) = Front(l.help)
      BY <2>2, <2>7, <2>8, FrontPush
    <3> QED BY <3>1, <3>2, <3>3
  <2>10. Moves(t, "Replace", m)
    <3>1. m = WithTop(l, g)
      BY <1>1 DEF WithTop
    <3> QED BY <1>1, <1>4, <3>1 DEF Outcome, Step, Moves
  <2>11. CASE Front(l.help) # <<>>
    BY <1>1, <2>9, <2>10, <2>11, PassClears
  <2>12. CASE Front(l.help) = <<>>
    <3>1. f.tag = w
      <4>1. Top(l) = l.help[1]
        BY <1>2, <2>12, BottomFront DEF Top
      <4> QED BY <1>1, <1>2, <4>1
    <3>2. PICK i \in DOMAIN done[w].entries : done[w].entries[i].addr = a
      BY <1>1 DEF HistoryInv, CoverInv, Covers
    <3>3. i \in DOMAIN Top(m).entries /\ Top(m).entries[i].addr = a /\ Top(m).i = 1
      BY <2>2, <2>6, <2>9, <3>1, <3>2
    <3>4. 1 <= i
      <4>1. f.entries \in Seq(Entries) /\ i \in DOMAIN f.entries
        BY <2>2, <3>1, <3>2, RunEntries
      <4> QED BY <4>1, LenProperties
    <3>5. Top(m).i <= i
      BY <3>3, <3>4
    <3> QED BY <1>1, <2>9, <2>10, <3>3, <3>5, PassClears
  <2> QED BY <2>11, <2>12
<1> QED BY <1>3, <1>4

(* Elsewhere in help an owner has all its words before it. *)
LEMMA HelpClears ==
    ASSUME DistinctSlots, Inv, OrderInv, HistoryInv, Still, NEW t \in Threads,
           NEW w, NEW a, Clears(t, w, a),
           \/ pc[t] = "KcasSnapshot" /\ KcasSnapshot(t, loc[t])
           \/ pc[t] = "HelpState" /\ HelpState(t, loc[t])
           \/ pc[t] = "Prepare" /\ Prepare(t, loc[t])
           \/ pc[t] = "RdcssCAS" /\ RdcssCAS(t, loc[t])
           \/ pc[t] = "RdcssSnapshot" /\ RdcssSnapshot(t, loc[t]) /\ UNCHANGED rdesc
           \/ pc[t] = "RdcssRead" /\ RdcssRead(t, loc[t]) /\ UNCHANGED rdesc
           \/ pc[t] = "RdcssFinish" /\ RdcssFinish(t, loc[t])
    PROVE  Clears(t, w, a)'
<1>1. /\ loc[t] \in Locals /\ pc \in [Threads -> PCs] /\ Place(t, pc[t], loc[t], kdesc, rdesc)
      /\ loc[t].help # <<>> /\ loc[t].fn = "execute"
  BY Here DEF Clears, Updating
<1>2. Proceeds(t)
  BY KcasSnapshotPass, HelpStatePass, PreparePass, RdcssCASPass, RdcssSnapshotPass, RdcssReadPass,
     RdcssFinishPass DEF Proceeds
<1>3. ASSUME NEW to, NEW m, Step(t, to, m) PROVE pc'[t] = to
  BY <1>1, <1>3 DEF Step
<1>4. AfterHelp(loc[t]) = "Prepare" /\ AfterRdcss(loc[t]) = "RdcssCAS"
  BY <1>1 DEF AfterHelp, AfterRdcss
<1>5. CASE pc[t] = "KcasSnapshot" /\ KcasSnapshot(t, loc[t])
  BY <1>2, <1>3, <1>4, <1>5, ProceedsClears DEF KcasSnapshot
<1>6. CASE pc[t] = "HelpState" /\ HelpState(t, loc[t])
  <2>1. CASE StateOf(Top(loc[t]).tag) = "GONE"
    <3>1. HelpReturns(t, loc[t], FALSE) /\ pc[t] \in Helping
      BY <1>6, <2>1 DEF HelpState, Helping
    <3>2. Front(loc[t].help) # <<>>
      BY <1>1, <2>1, <3>1, OwnStays
    <3>3. pc'[t] \in {"Load", "Prepare"}
      BY <3>1, <3>2, Returned
    <3> QED BY <1>2, <3>3, ProceedsClears
  <2>2. CASE StateOf(Top(loc[t]).tag) # "GONE"
    <3>1. pc'[t] \in {"Prepare", "Outcome"}
      BY <1>3, <1>6, <2>2 DEF HelpState
    <3> QED BY <1>2, <3>1, ProceedsClears
  <2> QED BY <2>1, <2>2
<1>7. CASE pc[t] = "Prepare" /\ Prepare(t, loc[t])
  <2>1. pc'[t] \in {"Decide", "RdcssCAS"}
    BY <1>3, <1>7 DEF Prepare
  <2> QED BY <1>2, <2>1, ProceedsClears
<1>8. CASE pc[t] = "RdcssCAS" /\ RdcssCAS(t, loc[t])
  <2>1. pc'[t] \in {"RdcssRead", "RdcssSnapshot", "Prepare", "KcasSnapshot", "Decide"}
    BY <1>3, <1>8 DEF RdcssCAS
  <2> QED BY <1>2, <2>1, ProceedsClears
<1>9. CASE pc[t] = "RdcssSnapshot" /\ RdcssSnapshot(t, loc[t])
  <2>1. pc'[t] \in {"RdcssRead", "RdcssCAS"}
    BY <1>3, <1>4, <1>9 DEF RdcssSnapshot
  <2> QED BY <1>2, <2>1, ProceedsClears
<1>10. CASE pc[t] = "RdcssRead" /\ RdcssRead(t, loc[t])
  BY <1>2, <1>3, <1>10, ProceedsClears DEF RdcssRead
<1>11. CASE pc[t] = "RdcssFinish" /\ RdcssFinish(t, loc[t])
  <2>1. pc'[t] \in {"Load", "RdcssCAS", "Prepare"}
    BY <1>1, <1>3, <1>11 DEF RdcssFinish, Place
  <2> QED BY <1>2, <2>1, ProceedsClears
<1> QED BY <1>5, <1>6, <1>7, <1>8, <1>9, <1>10, <1>11

(* A tag comes into a word only where an rdcss is finished that was met    *)
(* while its update was undecided.                                         *)
LEMMA FinishTags ==
    ASSUME Inv, HistoryInv, Still, NEW t \in Threads, pc[t] = "RdcssFinish", RdcssFinish(t, loc[t])
    PROVE  NoneTagged
<1>1. PICK l, d, new : /\ l = loc[t] /\ d = l.snapshot
                       /\ new = IF l.v = "UNDECIDED" THEN d.tag ELSE d.old
  OBVIOUS
<1>2. d \in RDescs /\ Serves(d) /\ mem \in [Addrs -> Words]
  BY <1>1, DoneHere DEF Inv, MemInv, Place, Position
<1>3. CASWord(d.addr, l.met, new)
  BY <1>1 DEF RdcssFinish
<1>4. ASSUME NEW a \in Addrs, mem'[a].tag = "kcas", mem'[a] # mem[a]
      PROVE  done'[mem'[a]].state # "SUCCEEDED"
  <2>1. mem[d.addr] = l.met /\ mem'[a] = new
    BY <1>2, <1>3, <1>4 DEF CASWord
  <2>2. l.v = "UNDECIDED" /\ new = d.tag
    BY <1>1, <1>2, <1>4, <2>1 DEF RDescs, Plain
  <2>3. done[d.tag].state # "SUCCEEDED"
    BY <1>1, <2>1, <2>2 DEF HistoryInv, LateInv
  <2>4. d.tag \in DOMAIN done
    BY <1>2 DEF Serves
  <2> QED BY <2>1, <2>2, <2>3, <2>4 DEF Still
<1> QED BY <1>4 DEF NoneTagged

LEMMA OthersTag ==
    ASSUME Inv, HistoryInv, NEW t \in Threads,
           \/ UNCHANGED mem
           \/ Transaction(t, loc[t])
           \/ RdcssCAS(t, loc[t])
           \/ pc[t] = "Replace" /\ Replace(t, loc[t])
    PROVE  NoneTagged
<1>1. mem \in [Addrs -> Words]
  BY DEF Inv, MemInv
<1>2. ASSUME NEW x, NEW old, NEW new, CASWord(x, old, new), new.tag # "kcas" PROVE NoneTagged
  <2>1. ASSUME NEW a \in Addrs PROVE mem'[a] = mem[a] \/ mem'[a] = new
    BY <1>1, <1>2 DEF CASWord
  <2> QED BY <1>2, <2>1 DEF NoneTagged
<1>3. CASE UNCHANGED mem
  BY <1>3 DEF NoneTagged
<1>4. CASE Transaction(t, loc[t])
  <2>1. UNCHANGED mem \/ mem' = Written(mem, kdesc[Slot[t]].entries)
    BY <1>4 DEF Transaction
  <2>2. ASSUME mem' = Written(mem, kdesc[Slot[t]].entries), NEW a \in Addrs
        PROVE  mem'[a] = mem[a] \/ mem'[a].tag = "none"
    BY <1>1, <2>2 DEF Written, Value
  <2> QED BY <1>3, <2>1, <2>2 DEF NoneTagged
<1>5. CASE RdcssCAS(t, loc[t])
  BY <1>2, <1>5 DEF RdcssCAS, RTag
<1>6. CASE Replace(t, loc[t])
  BY <1>2, <1>6 DEF Replace, Value
<1> QED BY <1>3, <1>4, <1>5, <1>6

LEMMA DecideCleared ==
    ASSUME DistinctSlots, Inv, OrderInv, HistoryInv, ClearedInv, NEW t \in Threads,
           pc[t] = "Decide", Decide(t, loc[t]), Remembered
    PROVE  ClearedInv'
<1>1. PICK l, f, w : l = loc[t] /\ f = Top(loc[t]) /\ w = f.tag
  OBVIOUS
<1>2. /\ Moves(t, "Outcome", l) /\ UNCHANGED <<mem, rdesc>>
      /\ w \in DOMAIN done /\ w \in KTags /\ f.newstate \in {"SUCCEEDED", "FAILED"}
      /\ kdesc' = IF StateOf(w) = "UNDECIDED" THEN [kdesc EXCEPT ![w.slot].state = f.newstate]
                                              ELSE kdesc
      /\ \A s \in Slots : kdesc'[s].seq = kdesc[s].seq /\ kdesc'[s].entries = kdesc[s].entries
      /\ \A v \in DOMAIN done \ {w} : done'[v] = done[v]
      /\ done'[w].state = IF Decided(w) THEN done[w].state ELSE f.newstate
      /\ ~Decided(w) /\ f.newstate = "SUCCEEDED" =>
           \A i \in DOMAIN done[w].entries : mem[done[w].entries[i].addr] = w
  BY <1>1, Deciding
<1>3. NoneRevised
  BY <1>2 DEF NoneRevised
<1>4. NoneTagged
  BY <1>2 DEF NoneTagged
<1>5. Continues(l, l)
  BY DEF Continues
<1>6. \A a \in Addrs : \A v : mem[a] = v /\ mem'[a] = v /\ v.tag = "kcas" /\ Clears(t, v, a) =>
          Clears(t, v, a)'
  BY <1>1, <1>2, <1>5, PassClears
<1> QED BY <1>2, <1>3, <1>4, <1>6, ClearedStep

LEMMA WorkCleared ==
    ASSUME DistinctSlots, AtomicInv, ClearedInv, NEW t \in Threads, Work(t, loc[t]), Remembered
    PROVE  ClearedInv'
<1>1. Inv /\ OrderInv /\ HistoryInv /\ FillingInv
  BY DEF AtomicInv
<1>2. /\ pc[t] \in Between \cup {"Load"} => loc[t].help = <<>>
      /\ Slot[t] \in Slots /\ kdesc \in [Slots -> KDescs]
  BY <1>1, NotUpdating, Here DEF Inv, KDescInv
<1>3. PICK to, m : Moves(t, to, m)
  BY DEF Work, Load, KcasSnapshot, HelpState, RdcssSnapshot, RdcssRead, Outcome, Return, Start, Add,
         Initialized, Transaction, Prepare, RdcssCAS, RdcssFinish, Decide, Replace, HelpReturns,
         Answer, Step, Moves
<1>4. CASE \/ At(t, "Load") /\ Load(t, loc[t]) /\ UNCHANGED <<mem, kdesc, rdesc>>
           \/ At(t, "Return") /\ Return(t) /\ UNCHANGED <<mem, kdesc, rdesc>>
  <2>1. NoneRevised /\ NoneTagged
    BY <1>1, <1>4, SameStill, StillRevised, OthersTag DEF HistoryInv
  <2>2. \A a, w : ~Clears(t, w, a)
    BY <1>2, <1>4 DEF At, Between, Clears, Updating
  <2> QED BY <1>1, <1>3, <2>1, <2>2, ClearedStep
<1>5. CASE \/ At(t, "Start") /\ Start(t, loc[t])
           \/ At(t, "Add") /\ Add(t, loc[t])
           \/ At(t, "Initialized") /\ Initialized(t, loc[t])
           \/ At(t, "Transaction") /\ Transaction(t, loc[t])
  <2>1. \A a, w : ~Clears(t, w, a)
    BY <1>2, <1>5 DEF At, Between, Fillers, Clears, Updating
  <2>2. NoneTagged
    BY <1>1, <1>5, OthersTag DEF Start, Add, Initialized
  <2>3. NoneRevised
    <3>1. pc[t] # "Start" => kdesc[Slot[t]].state = "UNDECIDED"
      BY <1>1, <1>5 DEF FillingInv, Fillers, At
    <3>2. kdesc[Slot[t]] \in KDescs
      BY <1>2
    <3>3. ASSUME NEW d, kdesc' = [kdesc EXCEPT ![Slot[t]] = d], d.state = "UNDECIDED"
          PROVE  NoneRevised
      <4>1. kdesc'[Slot[t]].state = "UNDECIDED" /\ \A r \in Slots \ {Slot[t]} : kdesc'[r] = kdesc[r]
        BY <1>2, <3>3
      <4> QED BY <1>1, <4>1, FillRevised
    <3>4. ASSUME UNCHANGED kdesc PROVE NoneRevised
      BY <1>1, <3>4, SameStill, StillRevised DEF HistoryInv
    <3>5. ASSUME NEW d \in KDescs
          PROVE  /\ \A es : [d EXCEPT !.entries = es].state = d.state
                 /\ \A n : [d EXCEPT !.seq = n].state = d.state
      BY DEF KDescs
    <3>6. CASE At(t, "Start") /\ Start(t, loc[t])
      <4>1. PICK d : d = [seq |-> kdesc[Slot[t]].seq + 1, state |-> "UNDECIDED", entries |-> <<>>]
        OBVIOUS
      <4>2. kdesc' = [kdesc EXCEPT ![Slot[t]] = d] /\ d.state = "UNDECIDED"
        BY <1>2, <3>6, <4>1 DEF Start
      <4> QED BY <3>3, <4>2
    <3>7. ASSUME pc[t] # "Start", NEW es,
                 kdesc' = [kdesc EXCEPT ![Slot[t]] = [kdesc[Slot[t]] EXCEPT !.entries = es]]
          PROVE  NoneRevised
      <4>1. [kdesc[Slot[t]] EXCEPT !.entries = es].state = "UNDECIDED"
        BY <3>1, <3>2, <3>5, <3>7
      <4> QED BY <3>3, <3>7, <4>1
    <3>8. CASE At(t, "Add") /\ Add(t, loc[t])
      <4>1. PICK es : es = Append(kdesc[Slot[t]].entries, Head(loc[t].todo))
        OBVIOUS
      <4>2. kdesc' = [kdesc EXCEPT ![Slot[t]] = [kdesc[Slot[t]] EXCEPT !.entries = es]]
        BY <1>2, <3>8, <4>1 DEF Add
      <4> QED BY <3>7, <3>8, <4>2 DEF At
    <3>9. CASE At(t, "Initialized") /\ Initialized(t, loc[t])
      <4>1. PICK n : n = kdesc[Slot[t]].seq + 1
        OBVIOUS
      <4>2. kdesc' = [kdesc EXCEPT ![Slot[t]] = [kdesc[Slot[t]] EXCEPT !.seq = n]]
        BY <1>2, <3>9, <4>1 DEF Initialized
      <4>3. [kdesc[Slot[t]] EXCEPT !.seq = n].state = "UNDECIDED"
        BY <3>1, <3>2, <3>5, <3>9 DEF At
      <4> QED BY <3>3, <4>2, <4>3
    <3>10. CASE At(t, "Transaction") /\ Transaction(t, loc[t])
      <4>1. \/ UNCHANGED kdesc
            \/ \E es : kdesc' = [kdesc EXCEPT ![Slot[t]] = [kdesc[Slot[t]] EXCEPT !.entries = es]]
        BY <1>2, <3>10 DEF Transaction
      <4> QED BY <3>4, <3>7, <3>10, <4>1 DEF At
    <3> QED BY <1>5, <3>6, <3>8, <3>9, <3>10
  <2> QED BY <1>1, <1>3, <2>1, <2>2, <2>3, ClearedStep
<1>6. CASE At(t, "Decide") /\ Decide(t, loc[t])
  BY <1>1, <1>6, DecideCleared DEF At
<1>7. CASE \/ /\ \/ At(t, "KcasSnapshot")  /\ KcasSnapshot(t, loc[t])
                 \/ At(t, "HelpState")     /\ HelpState(t, loc[t])
                 \/ At(t, "RdcssSnapshot") /\ RdcssSnapshot(t, loc[t])
                 \/ At(t, "RdcssRead")     /\ RdcssRead(t, loc[t])
                 \/ At(t, "Outcome")       /\ Outcome(t, loc[t])
              /\ UNCHANGED <<mem, kdesc, rdesc>>
           \/ At(t, "Prepare")     /\ Prepare(t, loc[t])
           \/ At(t, "RdcssCAS")    /\ RdcssCAS(t, loc[t])
           \/ At(t, "RdcssFinish") /\ RdcssFinish(t, loc[t])
           \/ At(t, "Replace")     /\ Replace(t, loc[t])
  <2>1. UNCHANGED kdesc
    BY <1>7 DEF Prepare, RdcssCAS, RdcssFinish, Replace, CASWord
  <2>2. Still /\ NoneRevised
    BY <1>1, <2>1, SameStill, StillRevised DEF HistoryInv
  <2>3. NoneTagged
    BY <1>1, <1>7, <2>2, FinishTags, OthersTag DEF At, Prepare
  <2>4. ASSUME NEW a \in Addrs, NEW w, mem[a] = w, mem'[a] = w, w.tag = "kcas", Clears(t, w, a)
        PROVE  Clears(t, w, a)'
    <3>1. CASE At(t, "Outcome") /\ Outcome(t, loc[t])
      BY <1>1, <2>4, <3>1, OutcomeClears DEF At
    <3>2. CASE At(t, "Replace") /\ Replace(t, loc[t])
      BY <1>1, <2>2, <2>4, <3>2, ReplaceClears DEF At
    <3>3. CASE ~At(t, "Outcome") /\ ~At(t, "Replace")
      BY <1>1, <1>7, <2>2, <2>4, <3>3, HelpClears DEF At
    <3> QED BY <1>7, <3>1, <3>2, <3>3 DEF At
  <2> QED BY <1>1, <1>3, <2>2, <2>3, <2>4, ClearedStep
<1> QED BY <1>4, <1>5, <1>6, <1>7 DEF Work

LEMMA NextCleared ==
    ASSUME DistinctSlots, AtomicInv, ClearedInv, [HNext]_hvars
    PROVE  ClearedInv'
<1>1. Inv /\ HistoryInv
  BY DEF AtomicInv
<1>2. CASE UNCHANGED hvars
  <2>1. mem' = mem /\ pc' = pc /\ loc' = loc /\ done' = done
    BY <1>2 DEF hvars
  <2> QED BY <2>1 DEF ClearedInv, Clears, Updating, Top
<1>3. ASSUME NEW t \in Threads, NEW l, Call(t, l), Remembered PROVE ClearedInv'
  <2>1. PICK to : Moves(t, to, l)
    BY <1>3 DEF Call, Moves
  <2>2. NoneRevised /\ NoneTagged
    BY <1>1, <1>3, SameStill, StillRevised, OthersTag DEF HistoryInv, Call
  <2>3. \A a, w : ~Clears(t, w, a)
    BY <1>1, <1>3, NotUpdating DEF Call, Between, Clears
  <2> QED BY <1>1, <2>1, <2>2, <2>3, ClearedStep
<1>4. CASE HNext
  BY <1>3, <1>4, WorkCleared DEF HNext, Next, Read, Execute
<1> QED BY <1>2, <1>4

(* The tag of an rdcss in a word always leads to its descriptor, and so    *)
(* does that of an update that is not decided or has succeeded: its owner  *)
(* takes it out of every word before it goes on, and no late helper puts   *)
(* it there again.  What can be left in a word is the tag of an update     *)
(* that failed (kcas_reuse_htm_impl.h:326-347, 434-450, 531-536).          *)
THEOREM FailuresLeaveTags == ASSUME DistinctSlots PROVE HSpec => []OnlyFailuresLeaveTags
<1>1. HInit => AtomicInv /\ ClearedInv
  <2>1. HInit => \A a \in Addrs : mem[a].tag = "none"
    BY DEF HInit, Init, Value
  <2> QED BY <2>1, InitMatched DEF ClearedInv
<1>2. AtomicInv /\ ClearedInv /\ [HNext]_hvars => (AtomicInv /\ ClearedInv)'
  BY NextMatched, NextCleared
<1>3. AtomicInv /\ ClearedInv => OnlyFailuresLeaveTags
  <2> SUFFICES ASSUME AtomicInv, ClearedInv, NEW a \in Addrs, NEW w, w = mem[a]
               PROVE  /\ w.tag = "rdcss" => rdesc[w.slot].seq = w.seq
                      /\ w.tag = "kcas" => kdesc[w.slot].seq = w.seq \/ done[w].state = "FAILED"
    BY DEF OnlyFailuresLeaveTags
  <2>1. Inv /\ OrderInv /\ HistoryInv
    BY DEF AtomicInv
  <2>2. w.tag = "rdcss" => rdesc[w.slot].seq = w.seq
    <3> SUFFICES ASSUME w.tag = "rdcss" PROVE rdesc[w.slot].seq = w.seq
      OBVIOUS
    <3>1. PICK t \in Threads : Attends(t, pc[t], loc[t], a)
      BY <2>1 DEF OrderInv, AttendedInv
    <3>2. Installs(pc[t], loc[t]) /\ Course(t, pc[t], loc[t]) /\ loc[t].met = w
      BY <2>1, <3>1 DEF OrderInv, Attends
    <3>3. w = RTag(Slot[t], rdesc[Slot[t]].seq)
      BY <3>2 DEF Course
    <3> QED BY <3>3 DEF RTag
  <2>3. ASSUME w.tag = "kcas", done[w].state # "FAILED" PROVE kdesc[w.slot].seq = w.seq
    <3>1. w \in DOMAIN done
      BY <2>1, <2>3 DEF HistoryInv, CoverInv, Covers
    <3>2. CASE ~Decided(w)
      BY <2>1, <3>1, <3>2 DEF HistoryInv, MemoryInv, Memory
    <3>3. CASE done[w].state = "SUCCEEDED"
      <4>1. PICK t \in Threads : Clears(t, w, a)
        BY <2>3, <3>3 DEF ClearedInv
      <4>2. Errand(t, pc[t], loc[t]) /\ Updating(t) /\ loc[t].help[1].tag = w
        BY <2>1, <4>1, DoneHere DEF Clears
      <4>3. w = KTag(Slot[t], kdesc[Slot[t]].seq)
        BY <4>2 DEF Errand, Updating
      <4> QED BY <4>3 DEF KTag
    <3>4. done[w].state \in States
      BY <2>1, <3>1, Recall DEF KDescs
    <3> QED BY <2>3, <3>2, <3>3, <3>4 DEF States, Decided
  <2> QED BY <2>2, <2>3
<1> QED BY <1>1, <1>2, <1>3, PTL DEF HSpec
=============================================================================
