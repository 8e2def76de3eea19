------------------------------ MODULE KCAS_proofs ------------------------------
(***************************************************************************)
(* Proofs about KCAS for any number of threads, words and requests, as     *)
(* long as each thread has a descriptor of its own: what is found under a  *)
(* tag is never the data of another operation, and words are tagged in     *)
(* their order.                                                            *)
(***************************************************************************)
EXTENDS KCASWords, SequenceTheorems, TLAPS

(* What the design of TIDGenerator promises and its code does not keep.    *)
DistinctSlots == \A t, u \in Threads : Slot[t] = Slot[u] => t = u

KTags == [tag : {"kcas"}, slot : Slots, seq : Nat]
RTags == [tag : {"rdcss"}, slot : Slots, seq : Nat]
Plain == [tag : {"none"}, v : Int]

States == {"UNDECIDED", "SUCCEEDED", "FAILED"}

KDescs == [seq : Nat, state : States, entries : Seq(Entries)]

(* A descriptor of rdcss once it is used. *)
RDescs == [seq : Nat, tag : KTags, addr : Addrs, old : Plain]
Unused == [seq |-> 1]

Frames == [tag : KTags, entries : Seq(Entries) \ {<<>>}, i : Nat \ {0}, newstate : States]

Locals ==
    [fn : {"none", "read", "execute"}, addr : Nat, request : Seq(Entries), todo : Seq(Entries),
     help : Seq(Frames), met : Plain \cup KTags \cup RTags, snapshot : {[seq |-> 0]} \cup RDescs,
     v : States \cup {"GONE"}, then : {"none", "Load", "RdcssCAS", "Prepare"},
     result : Int \cup BOOLEAN]

(* While a thread is here its descriptor is being filled; no other thread  *)
(* knows its number.                                                       *)
Fillers == {"Add", "Initialized", "Transaction"}
Filling == {Slot[t] : t \in {u \in Threads : pc[u] \in Fillers}}

Helping == {"HelpState", "Prepare", "RdcssCAS", "Decide", "Outcome", "Replace"}

PCs == {"idle", "Start", "Load", "KcasSnapshot", "RdcssSnapshot", "RdcssRead", "RdcssFinish",
        "Return"} \cup Fillers \cup Helping

(* The tags that may be about, and what is known of what is behind them.   *)
IssuedK ==
    {w \in KTags : /\ 1 < w.seq /\ w.seq <= kdesc[w.slot].seq
                   /\ w.slot \in Filling => w.seq < kdesc[w.slot].seq}

IssuedR ==
    {w \in RTags : w.seq <= rdesc[w.slot].seq /\ rdesc[w.slot] \in RDescs}

Words == Plain \cup IssuedK \cup IssuedR

Snapshots == {r \in RDescs : r.tag \in IssuedK}

Runs ==
    {f \in Frames : /\ f.tag \in IssuedK
                    /\ kdesc[f.tag.slot].seq = f.tag.seq => f.entries = kdesc[f.tag.slot].entries}

MemInv == mem \in [Addrs -> Words]

KDescInv ==
    /\ kdesc \in [Slots -> KDescs]
    /\ \A s \in Slots :
         /\ kdesc[s].seq >= 1
         /\ kdesc[s].entries = <<>> /\ s \notin Filling => kdesc[s].seq = 1

RDescInv == rdesc \in [Slots -> {Unused} \cup Snapshots]

(* What holds of the locals l of t at p, given the descriptors.            *)
Place(t, p, l, kd, rd) ==
    /\ p = "KcasSnapshot" => l.met.tag = "kcas"
    /\ p \in {"RdcssSnapshot", "RdcssRead", "RdcssFinish"} => l.met.tag = "rdcss"
    /\ p \in {"RdcssRead", "RdcssFinish"} =>
         /\ l.snapshot \in RDescs
         /\ rd[l.met.slot].seq = l.met.seq => l.snapshot = rd[l.met.slot]
         /\ l.then = "Load" => l.fn = "read" /\ l.help = <<>>
         /\ l.then # "Load" => l.then \in {"RdcssCAS", "Prepare"} /\ l.help # <<>>
    /\ p \in {"RdcssSnapshot", "RdcssRead", "RdcssFinish", "RdcssCAS"} /\ l.help # <<>> =>
         rd[Slot[t]] \in RDescs
    /\ p \in Helping => l.help # <<>>
    /\ p = "Replace" => Top(l).i <= Len(Top(l).entries)
    /\ p = "Load" => l.fn = "read" /\ l.help = <<>>
    /\ p \in {"KcasSnapshot", "RdcssSnapshot"} /\ l.help = <<>> => l.fn = "read"
    /\ p # "idle" => l.fn # "none"
    /\ l.fn = "read" => l.addr \in Addrs
    /\ p \in {"Start", "Add"} => l.todo # <<>>
    /\ p \in {"Start", "Add", "Initialized"} => l.met = Value(0)
    /\ p \in {"Initialized", "Transaction"} => kd[Slot[t]].entries # <<>>
    /\ p = "Transaction" => l.met = KTag(Slot[t], kd[Slot[t]].seq) /\ 1 < kd[Slot[t]].seq

LocalInv ==
    /\ pc \in [Threads -> PCs]
    /\ loc \in [Threads -> Locals]
    /\ \A t \in Threads :
         /\ loc[t].help \in Seq(Runs)
         /\ loc[t].snapshot \in {[seq |-> 0]} \cup Snapshots
         /\ pc[t] # "Transaction" => loc[t].met \in Words
         /\ Place(t, pc[t], loc[t], kdesc, rdesc)

Inv == MemInv /\ KDescInv /\ RDescInv /\ LocalInv

-----------------------------------------------------------------------------

(* A stack of runs of help: its last element, without it, and with another *)
(* in its place.                                                           *)
LEMMA Stack ==
    ASSUME NEW S, NEW h \in Seq(S), h # <<>>, NEW f \in S
    PROVE  /\ Last(h) \in S
           /\ Front(h) \in Seq(S)
           /\ Append(Front(h), f) \in Seq(S)
           /\ Append(Front(h), f) # <<>>
           /\ Last(Append(Front(h), f)) = f
<1>1. Len(h) \in Nat \ {0}
  BY EmptySeq
<1>2. \A i \in 1 .. Len(h) : h[i] \in S
  BY ElementOfSeq
<1>3. Front(h) \in Seq(S)
  <2>1. \A i \in 1 .. Len(h) - 1 : h[i] \in S
    BY <1>1, <1>2
  <2>2. Len(h) - 1 \in Int /\ 1 \in Int
    BY <1>1
  <2> QED BY <2>1, <2>2, SubSeqProperties DEF Front
<1>4. Append(Front(h), f) \in Seq(S) /\ Append(Front(h), f) # <<>>
      /\ Len(Append(Front(h), f)) = Len(Front(h)) + 1
      /\ Append(Front(h), f)[Len(Front(h)) + 1] = f
  BY <1>3, AppendProperties
<1> QED BY <1>1, <1>2, <1>3, <1>4 DEF Last

(* One more run on the stack. *)
LEMMA Push ==
    ASSUME NEW S, NEW h \in Seq(S), NEW f \in S
    PROVE  /\ Append(h, f) \in Seq(S)
           /\ Append(h, f) # <<>>
           /\ Last(Append(h, f)) = f
BY AppendProperties DEF Last

(* A step of t to another place changes at most whether its own descriptor *)
(* is one that is being filled.                                            *)
LEMMA FillingStep ==
    ASSUME pc \in [Threads -> PCs], NEW t \in Threads, NEW to, pc' = [pc EXCEPT ![t] = to]
    PROVE  /\ to \notin Fillers => Filling' \subseteq Filling
           /\ Filling' \subseteq Filling \cup {Slot[t]}
           /\ Filling \ {Slot[t]} \subseteq Filling'
           /\ to \in Fillers => Slot[t] \in Filling'
           /\ pc[t] \in Fillers => Slot[t] \in Filling
           /\ DistinctSlots /\ to \notin Fillers => Slot[t] \notin Filling'
BY DEF Filling, DistinctSlots

(* What a step of t does to the descriptors at most. *)
Grows(t) ==
    /\ \A s \in Slots :
         /\ kdesc'[s].seq \in Nat /\ kdesc'[s].seq >= kdesc[s].seq
         /\ s \in Filling' => s \in Filling \/ kdesc'[s].seq > kdesc[s].seq
         /\ \/ kdesc'[s].entries = kdesc[s].entries
            \/ s \in Filling
            \/ kdesc'[s].seq > kdesc[s].seq
         /\ \/ rdesc'[s] = rdesc[s]
            \/ rdesc'[s].seq > rdesc[s].seq /\ rdesc'[s] \in RDescs
    /\ \A u \in Threads \ {t} : pc[u] \in Fillers =>
         /\ kdesc'[Slot[u]].seq = kdesc[Slot[u]].seq
         /\ kdesc'[Slot[u]].entries = kdesc[Slot[u]].entries

(* What was issued stays issued: numbers only grow, and a descriptor that  *)
(* is filled again has a number that is on no tag.                         *)
LEMMA GrowsIssued ==
    ASSUME Inv, NEW t \in Threads, Grows(t)
    PROVE  /\ IssuedK \subseteq IssuedK' /\ IssuedR \subseteq IssuedR' /\ Words \subseteq Words'
           /\ Snapshots \subseteq Snapshots' /\ Runs \subseteq Runs'
<1>1. \A s \in Slots : kdesc[s].seq \in Nat
  BY DEF Inv, KDescInv, KDescs
<1>2. IssuedK \subseteq IssuedK'
  <2> SUFFICES ASSUME NEW w \in IssuedK PROVE w \in IssuedK'
    OBVIOUS
  <2>1. w \in KTags /\ w.slot \in Slots /\ w.seq \in Nat
    BY DEF IssuedK, KTags
  <2> QED BY <1>1, <2>1 DEF IssuedK, Grows
<1>3. IssuedR \subseteq IssuedR'
  <2> SUFFICES ASSUME NEW w \in IssuedR PROVE w \in IssuedR'
    OBVIOUS
  <2>1. w \in RTags /\ w.slot \in Slots /\ w.seq \in Nat
    BY DEF IssuedR, RTags
  <2>2. rdesc[w.slot] \in RDescs /\ w.seq <= rdesc[w.slot].seq /\ rdesc[w.slot].seq \in Nat
    BY DEF IssuedR, RDescs
  <2>3. CASE rdesc'[w.slot] = rdesc[w.slot]
    BY <2>1, <2>2, <2>3 DEF IssuedR
  <2>4. CASE rdesc'[w.slot].seq > rdesc[w.slot].seq /\ rdesc'[w.slot] \in RDescs
    <3>1. rdesc'[w.slot].seq \in Nat
      BY <2>4 DEF RDescs
    <3> QED BY <2>1, <2>2, <2>4, <3>1 DEF IssuedR
  <2> QED BY <2>1, <2>3, <2>4 DEF Grows
<1>4. Words \subseteq Words' /\ Snapshots \subseteq Snapshots'
  BY <1>2, <1>3 DEF Words, Snapshots
<1>5. Runs \subseteq Runs'
  <2> SUFFICES ASSUME NEW f \in Runs PROVE f \in Runs'
    OBVIOUS
  <2> DEFINE s == f.tag.slot
  <2>1. f \in Frames /\ f.tag \in IssuedK
        /\ (kdesc[s].seq = f.tag.seq => f.entries = kdesc[s].entries)
    BY DEF Runs
  <2>2. s \in Slots /\ f.tag.seq \in Nat /\ f.tag.seq <= kdesc[s].seq
        /\ (s \in Filling => f.tag.seq < kdesc[s].seq)
    BY <2>1 DEF IssuedK, KTags
  <2>3. f.tag \in IssuedK'
    BY <1>2, <2>1
  <2>4. kdesc'[s].seq = f.tag.seq => f.entries = kdesc'[s].entries
    BY <1>1, <2>1, <2>2 DEF Grows
  <2> QED BY <2>1, <2>3, <2>4 DEF Runs
<1> QED BY <1>2, <1>3, <1>4, <1>5

(* What a step of t must show of the place and locals it leaves. *)
LEMMA StepInv ==
    ASSUME Inv, NEW t \in Threads, Grows(t), NEW to \in PCs, NEW l \in Locals,
           pc' = [pc EXCEPT ![t] = to], loc' = [loc EXCEPT ![t] = l],
           l.help \in Seq(Runs'), l.snapshot \in {[seq |-> 0]} \cup Snapshots',
           to # "Transaction" => l.met \in Words',
           Place(t, to, l, kdesc', rdesc')
    PROVE  LocalInv'
<1>1. /\ pc' \in [Threads -> PCs] /\ loc' \in [Threads -> Locals]
      /\ pc'[t] = to /\ loc'[t] = l
      /\ \A u \in Threads \ {t} : pc'[u] = pc[u] /\ loc'[u] = loc[u]
  BY DEF Inv, LocalInv
<1>2. ASSUME NEW u \in Threads \ {t}
      PROVE  /\ loc[u].help \in Seq(Runs')
             /\ loc[u].snapshot \in {[seq |-> 0]} \cup Snapshots'
             /\ pc[u] # "Transaction" => loc[u].met \in Words'
             /\ Place(u, pc[u], loc[u], kdesc', rdesc')
  <2> DEFINE m == loc[u]
             p == pc[u]
  <2>1. /\ m \in Locals /\ m.help \in Seq(Runs) /\ m.snapshot \in {[seq |-> 0]} \cup Snapshots
        /\ p # "Transaction" => m.met \in Words
        /\ Place(u, p, m, kdesc, rdesc)
    BY DEF Inv, LocalInv
  <2>2. m.help \in Seq(Runs')
    BY <2>1, GrowsIssued, SeqMonotonic
  <2>3. m.snapshot \in {[seq |-> 0]} \cup Snapshots' /\ (p # "Transaction" => m.met \in Words')
    BY <2>1, GrowsIssued
  <2>4. Slot[u] \in Slots
    BY DEF Slots
  <2>5. p \in Fillers => /\ kdesc'[Slot[u]].seq = kdesc[Slot[u]].seq
                         /\ kdesc'[Slot[u]].entries = kdesc[Slot[u]].entries
    BY DEF Grows
  <2>6. rdesc[Slot[u]] \in RDescs => rdesc'[Slot[u]] \in RDescs
    BY <2>4 DEF Grows
  <2>7. p \in {"RdcssRead", "RdcssFinish"} /\ rdesc'[m.met.slot].seq = m.met.seq =>
          m.snapshot = rdesc'[m.met.slot]
    <3> SUFFICES ASSUME p \in {"RdcssRead", "RdcssFinish"}, rdesc'[m.met.slot].seq = m.met.seq
                 PROVE  m.snapshot = rdesc'[m.met.slot]
      OBVIOUS
    <3>1. m.met \in IssuedR
      BY <2>1 DEF Place, Words, Plain, IssuedK, KTags
    <3>2. /\ m.met.slot \in Slots /\ m.met.seq \in Nat
          /\ rdesc[m.met.slot].seq \in Nat /\ m.met.seq <= rdesc[m.met.slot].seq
      BY <3>1 DEF IssuedR, RTags, RDescs
    <3>3. rdesc'[m.met.slot] = rdesc[m.met.slot]
      BY <3>2 DEF Grows
    <3> QED BY <2>1, <3>3 DEF Place
  <2> HIDE DEF m, p
  <2>8. Place(u, p, m, kdesc', rdesc')
    BY <2>1, <2>5, <2>6, <2>7 DEF Place, Fillers
  <2> QED BY <2>2, <2>3, <2>8 DEF m, p
<1> QED BY <1>1, <1>2 DEF LocalInv

(* A step of t that leaves the descriptors alone. *)
LEMMA QuietStep ==
    ASSUME Inv, NEW t \in Threads, pc[t] \notin {"Add", "Initialized"},
           NEW to \in PCs \ Fillers, NEW m \in Locals,
           pc' = [pc EXCEPT ![t] = to], loc' = [loc EXCEPT ![t] = m],
           UNCHANGED <<kdesc, rdesc>>, mem' \in [Addrs -> Words],
           m.help \in Seq(Runs), m.snapshot \in {[seq |-> 0]} \cup Snapshots,
           m.met \in Words \/ m.met \in Words',
           Place(t, to, m, kdesc, rdesc)
    PROVE  Inv'
<1>1. /\ KDescInv /\ RDescInv /\ LocalInv
      /\ pc \in [Threads -> PCs]
      /\ Place(t, pc[t], loc[t], kdesc, rdesc)
  BY DEF Inv, LocalInv
<1>2. Filling' \subseteq Filling /\ Filling \ {Slot[t]} \subseteq Filling'
  BY <1>1, FillingStep
<1>3. Grows(t)
  BY <1>1, <1>2 DEF Grows, KDescInv, KDescs
<1>4. KDescInv'
  <2>1. ASSUME NEW s \in Slots, kdesc[s].entries = <<>>, s \notin Filling'
        PROVE  kdesc[s].seq = 1
    <3>1. CASE s \notin Filling
      BY <2>1, <3>1, <1>1 DEF KDescInv
    <3>2. CASE s \in Filling
      <4>1. s = Slot[t]
        BY <1>2, <2>1, <3>2
      <4>2. pc[t] = "Transaction" \/ pc[t] \notin Fillers
        BY DEF Fillers
      <4>3. CASE pc[t] = "Transaction"
        BY <4>1, <4>3, <2>1, <1>1 DEF Place
      <4>4. CASE pc[t] \notin Fillers
        <5>1. Filling \subseteq Filling'
          BY <1>1, <4>4 DEF Filling
        <5> QED BY <5>1, <2>1, <3>2
      <4> QED BY <4>2, <4>3, <4>4
    <3> QED BY <3>1, <3>2
  <2> QED BY <1>1, <2>1 DEF KDescInv
<1>5. Words \subseteq Words' /\ Snapshots \subseteq Snapshots' /\ Runs \subseteq Runs'
  BY <1>3, GrowsIssued
<1>6. MemInv' /\ RDescInv'
  <2>1. mem' \in [Addrs -> Words']
    BY <1>5
  <2>2. rdesc' \in [Slots -> {Unused} \cup Snapshots']
    BY <1>1, <1>5 DEF RDescInv
  <2> QED BY <2>1, <2>2 DEF MemInv, RDescInv, Unused
<1>7. LocalInv'
  <2>1. m.help \in Seq(Runs')
    BY <1>5, SeqMonotonic
  <2>2. m.snapshot \in {[seq |-> 0]} \cup Snapshots' /\ m.met \in Words'
    BY <1>5
  <2>3. Place(t, to, m, kdesc', rdesc')
    OBVIOUS
  <2> QED BY <1>3, <2>1, <2>2, <2>3, StepInv
<1> QED BY <1>4, <1>6, <1>7 DEF Inv

(* What holds of the locals of a thread. *)
LEMMA Here ==
    ASSUME Inv, NEW t \in Threads
    PROVE  /\ loc[t] \in Locals /\ pc[t] \in PCs /\ pc \in [Threads -> PCs]
           /\ loc[t].help \in Seq(Runs)
           /\ loc[t].snapshot \in {[seq |-> 0]} \cup Snapshots
           /\ pc[t] # "Transaction" => loc[t].met \in Words
           /\ Place(t, pc[t], loc[t], kdesc, rdesc)
           /\ Slot[t] \in Slots
BY DEF Inv, LocalInv, Slots

(* Sequences of runs are stacks. *)
LEMMA RunsType == ASSUME NEW h \in Seq(Runs) PROVE h \in Seq(Frames)
BY SeqMonotonic DEF Runs

(* The locals with another run on top. *)
LEMMA WithTopOK ==
    ASSUME NEW l \in Locals, l.help \in Seq(Runs), l.help # <<>>, NEW f \in Runs
    PROVE  /\ Top(l) \in Runs
           /\ WithTop(l, f) \in Locals
           /\ WithTop(l, f).help \in Seq(Runs) /\ WithTop(l, f).help # <<>>
           /\ Top(WithTop(l, f)) = f
           /\ WithTop(l, f) = [l EXCEPT !.help = Append(Front(l.help), f)]
<1>1. /\ Last(l.help) \in Runs
      /\ Append(Front(l.help), f) \in Seq(Runs)
      /\ Append(Front(l.help), f) # <<>>
      /\ Last(Append(Front(l.help), f)) = f
  BY Stack
<1>2. Append(Front(l.help), f) \in Seq(Frames)
  BY <1>1, RunsType
<1>3. WithTop(l, f) = [l EXCEPT !.help = Append(Front(l.help), f)]
  BY DEF WithTop
<1>4. WithTop(l, f) \in Locals /\ WithTop(l, f).help = Append(Front(l.help), f)
  BY <1>2, <1>3 DEF Locals
<1> QED BY <1>1, <1>3, <1>4 DEF Top

(* Another entry of the same run. *)
LEMMA RunEntry ==
    ASSUME NEW f \in Runs, NEW i \in Nat \ {0}
    PROVE  [f EXCEPT !.i = i] \in Runs
BY DEF Runs, Frames

(* The state of the operation behind a tag. *)
LEMMA StateOfType ==
    ASSUME Inv, NEW w \in KTags PROVE StateOf(w) \in States \cup {"GONE"}
BY DEF StateOf, KTags, Inv, KDescInv, KDescs

(* A run of help is over: the call is, or what the run was for goes on.    *)
LEMMA HelpReturnsInv ==
    ASSUME Inv, NEW t \in Threads, pc[t] \in Helping, NEW r \in BOOLEAN,
           HelpReturns(t, loc[t], r), UNCHANGED <<kdesc, rdesc>>, mem' \in [Addrs -> Words]
    PROVE  Inv'
<1> DEFINE l == loc[t]
           rest == [l EXCEPT !.help = Front(@)]
<1>1. /\ l \in Locals /\ l.help \in Seq(Runs) /\ l.help # <<>>
      /\ l.snapshot \in {[seq |-> 0]} \cup Snapshots /\ l.met \in Words
      /\ Place(t, pc[t], l, kdesc, rdesc)
      /\ pc[t] \notin {"Add", "Initialized"}
  BY Here DEF Place, Helping
<1>2. Front(l.help) \in Seq(Runs) /\ Front(l.help) \in Seq(Frames)
  <2>1. Last(l.help) \in Runs
    BY <1>1, EmptySeq, ElementOfSeq DEF Last
  <2> QED BY <1>1, <2>1, Stack, RunsType
<1>3. /\ rest \in Locals /\ rest.help = Front(l.help) /\ rest.fn = l.fn /\ rest.addr = l.addr
      /\ rest.snapshot = l.snapshot /\ rest.met = l.met
      /\ l.fn # "none" /\ l.fn \in {"none", "read", "execute"}
      /\ l.fn = "read" => l.addr \in Addrs
  BY <1>1, <1>2 DEF Locals, Place, Helping
<1> HIDE DEF rest
<1>4. CASE rest.help = <<>> /\ l.fn = "execute"
  <2> DEFINE m == [rest EXCEPT !.result = r]
  <2>1. /\ m \in Locals /\ m.help = rest.help /\ m.fn = l.fn
        /\ m.snapshot = l.snapshot /\ m.met = l.met
    BY <1>3 DEF Locals
  <2>2. Step(t, "Return", m)
    BY <1>4 DEF HelpReturns, Answer, rest
  <2> HIDE DEF m
  <2>3. Place(t, "Return", m, kdesc, rdesc)
    BY <1>4, <2>1 DEF Place, Helping
  <2>4. "Return" \in PCs \ Fillers
    BY DEF PCs, Fillers
  <2> QED BY <1>1, <1>2, <1>3, <2>1, <2>2, <2>3, <2>4, QuietStep DEF Step
<1>5. CASE ~(rest.help = <<>> /\ l.fn = "execute")
  <2>1. Step(t, AfterHelp(rest), rest)
    BY <1>5 DEF HelpReturns, rest
  <2>2. AfterHelp(rest) \in PCs \ Fillers
    BY DEF AfterHelp, PCs, Fillers, Helping
  <2>3. Place(t, AfterHelp(rest), rest, kdesc, rdesc)
    BY <1>3, <1>5 DEF Place, Helping, AfterHelp
  <2> QED BY <1>1, <1>2, <1>3, <2>1, <2>2, <2>3, QuietStep DEF Step
<1> QED BY <1>4, <1>5

(* The frame of every quiet step but those of help: memory as it was.      *)
LEMMA SameMem == ASSUME Inv, UNCHANGED mem PROVE mem' \in [Addrs -> Words]
BY DEF Inv, MemInv

(* A CAS of a word that puts a value or an issued tag there.               *)
LEMMA CASWordOK ==
    ASSUME Inv, NEW a, NEW old, NEW new \in Words, CASWord(a, old, new)
    PROVE  mem' \in [Addrs -> Words] /\ UNCHANGED <<kdesc, rdesc>>
BY DEF Inv, MemInv, CASWord

(* readPtr and execute begin. *)
LEMMA CallInv ==
    ASSUME Inv, NEW t \in Threads,
           \/ \E a \in Reads : Read(t, a)
           \/ \E r \in Requests[t] : Execute(t, r)
    PROVE  Inv'
<1>1. NoLocals.help \in Seq(Runs) /\ NoLocals.help \in Seq(Frames)
  BY EmptySeq DEF NoLocals
<1>2. Value(0) \in Words /\ Value(0) \in Plain
  BY DEF Words, Plain, Value
<1>3. <<>> \in Seq(Entries)
  BY EmptySeq
<1>4. CASE \E a \in Reads : Read(t, a)
  <2>1. PICK a \in Reads : Read(t, a)
    BY <1>4
  <2> DEFINE m == [NoLocals EXCEPT !.fn = "read", !.addr = a]
  <2>2. a \in Addrs /\ a \in Nat
    BY KCASAssumption
  <2>3. /\ m \in Locals /\ m.help = <<>> /\ m.help \in Seq(Runs) /\ m.met = Value(0)
        /\ m.fn = "read" /\ m.addr = a /\ m.snapshot = [seq |-> 0]
    BY <1>1, <1>2, <1>3, <2>2 DEF NoLocals, Locals, States
  <2>4. /\ pc[t] = "idle" /\ pc' = [pc EXCEPT ![t] = "Load"] /\ loc' = [loc EXCEPT ![t] = m]
        /\ UNCHANGED <<mem, kdesc, rdesc>>
    BY <2>1 DEF Read, Call, NoLocals
  <2> HIDE DEF m
  <2>5. Place(t, "Load", m, kdesc, rdesc)
    BY <2>2, <2>3 DEF Place, Helping
  <2>6. "Load" \in PCs \ Fillers
    BY DEF PCs, Fillers
  <2> QED BY <1>2, <2>3, <2>4, <2>5, <2>6, SameMem, QuietStep
<1>5. CASE \E r \in Requests[t] : Execute(t, r)
  <2>1. PICK r \in Requests[t] : Execute(t, r)
    BY <1>5
  <2> DEFINE m == [NoLocals EXCEPT !.fn = "execute", !.request = r, !.todo = r]
  <2>2. r \in Seq(Entries) /\ r # <<>>
    BY KCASAssumption
  <2>3. /\ m \in Locals /\ m.help = <<>> /\ m.help \in Seq(Runs) /\ m.met = Value(0)
        /\ m.fn = "execute" /\ m.todo = r /\ m.snapshot = [seq |-> 0]
    BY <1>1, <1>2, <1>3, <2>2 DEF NoLocals, Locals, States
  <2>4. /\ pc[t] = "idle" /\ pc' = [pc EXCEPT ![t] = "Start"] /\ loc' = [loc EXCEPT ![t] = m]
        /\ UNCHANGED <<mem, kdesc, rdesc>>
    BY <2>1 DEF Execute, Call, NoLocals
  <2> HIDE DEF m
  <2>5. Place(t, "Start", m, kdesc, rdesc)
    BY <2>2, <2>3 DEF Place, Helping
  <2>6. "Start" \in PCs \ Fillers
    BY DEF PCs, Fillers
  <2> QED BY <1>2, <2>3, <2>4, <2>5, <2>6, SameMem, QuietStep
<1> QED BY <1>4, <1>5

(* An answer leaves all but the result as it was. *)
LEMMA AnswerInv ==
    ASSUME Inv, NEW t \in Threads, pc[t] \notin {"idle", "Add", "Initialized"},
           NEW r \in Int \cup BOOLEAN, Answer(t, loc[t], r),
           UNCHANGED <<kdesc, rdesc>>, mem' \in [Addrs -> Words],
           loc[t].met \in Words \/ loc[t].met \in Words'
    PROVE  Inv'
<1> DEFINE l == loc[t]
           m == [l EXCEPT !.result = r]
<1>1. /\ l \in Locals /\ l.help \in Seq(Runs) /\ l.snapshot \in {[seq |-> 0]} \cup Snapshots
      /\ Place(t, pc[t], l, kdesc, rdesc)
  BY Here
<1>2. /\ m \in Locals /\ m.help = l.help /\ m.snapshot = l.snapshot /\ m.met = l.met
      /\ m.fn = l.fn /\ m.addr = l.addr
  BY <1>1 DEF Locals
<1>3. Step(t, "Return", m)
  BY DEF Answer
<1> HIDE DEF m
<1>4. Place(t, "Return", m, kdesc, rdesc)
  BY <1>1, <1>2 DEF Place, Helping
<1>5. "Return" \in PCs \ Fillers
  BY DEF PCs, Fillers
<1> QED BY <1>1, <1>2, <1>3, <1>4, <1>5, QuietStep DEF Step

(* A load of a word. *)
LEMMA LoadInv ==
    ASSUME Inv, NEW t \in Threads, pc[t] = "Load", Load(t, loc[t]),
           UNCHANGED <<mem, kdesc, rdesc>>
    PROVE  Inv'
<1> DEFINE l == loc[t]
           r == mem[l.addr]
           m == [l EXCEPT !.met = r]
<1>1. /\ l \in Locals /\ l.help \in Seq(Runs) /\ l.snapshot \in {[seq |-> 0]} \cup Snapshots
      /\ l.met \in Words /\ Place(t, "Load", l, kdesc, rdesc)
  BY Here
<1>2. l.fn = "read" /\ l.addr \in Addrs /\ r \in Words
  BY <1>1 DEF Place, Inv, MemInv
<1>3. CASE r.tag = "none" /\ Answer(t, l, r.v)
  <2>1. r.v \in Int
    BY <1>2, <1>3 DEF Words, Plain, IssuedK, IssuedR, KTags, RTags
  <2> QED BY <1>1, <1>3, <2>1, SameMem, AnswerInv
<1>4. /\ m \in Locals /\ m.help = l.help /\ m.snapshot = l.snapshot /\ m.met = r
      /\ m.fn = l.fn /\ m.addr = l.addr
  BY <1>1, <1>2 DEF Locals, Words, IssuedK, IssuedR
<1>5. CASE r.tag = "rdcss" /\ Step(t, "RdcssSnapshot", m)
  <2> HIDE DEF m
  <2>1. Place(t, "RdcssSnapshot", m, kdesc, rdesc)
    <3>1. l.help = <<>>
      BY <1>1 DEF Place
    <3> QED BY <1>2, <1>4, <1>5, <3>1 DEF Place, Helping
  <2>2. "RdcssSnapshot" \in PCs \ Fillers
    BY DEF PCs, Fillers
  <2> QED BY <1>1, <1>2, <1>4, <1>5, <2>1, <2>2, SameMem, QuietStep DEF Step
<1>6. CASE r.tag = "kcas" /\ Step(t, "KcasSnapshot", m)
  <2> HIDE DEF m
  <2>1. Place(t, "KcasSnapshot", m, kdesc, rdesc)
    BY <1>2, <1>4, <1>6 DEF Place, Helping
  <2>2. "KcasSnapshot" \in PCs \ Fillers
    BY DEF PCs, Fillers
  <2> QED BY <1>1, <1>2, <1>4, <1>6, <2>1, <2>2, SameMem, QuietStep DEF Step
<1> QED BY <1>3, <1>5, <1>6 DEF Load

(* A thread goes on at another place with the locals it has. *)
LEMMA GoOnInv ==
    ASSUME Inv, NEW t \in Threads, pc[t] \notin Fillers, NEW to \in PCs \ Fillers,
           Step(t, to, loc[t]), UNCHANGED <<kdesc, rdesc>>, mem' \in [Addrs -> Words],
           Place(t, to, loc[t], kdesc, rdesc)
    PROVE  Inv'
BY Here, QuietStep DEF Step, Fillers

(* A thread meets the tag of an update: it copies the descriptor, if that  *)
(* still serves the update, and runs help.                                 *)
LEMMA KcasSnapshotInv ==
    ASSUME Inv, NEW t \in Threads, pc[t] = "KcasSnapshot", KcasSnapshot(t, loc[t]),
           UNCHANGED <<mem, kdesc, rdesc>>
    PROVE  Inv'
<1> DEFINE l == loc[t]
           d == kdesc[l.met.slot]
           f == HelpFrame(l.met, d.entries, TRUE)
           m == [l EXCEPT !.help = Append(@, f)]
<1>1. /\ l \in Locals /\ l.help \in Seq(Runs) /\ l.snapshot \in {[seq |-> 0]} \cup Snapshots
      /\ l.met \in Words /\ Place(t, "KcasSnapshot", l, kdesc, rdesc)
  BY Here
<1>2. l.met \in IssuedK
  BY <1>1 DEF Place, Words, Plain, IssuedR, RTags
<1>3. CASE d.seq = l.met.seq
  <2>1. /\ l.met \in KTags /\ l.met.slot \in Slots /\ 1 < l.met.seq /\ l.met.seq \in Nat
        /\ l.met.slot \notin Filling
    BY <1>2, <1>3 DEF IssuedK, KTags
  <2>2. d \in KDescs /\ d.entries # <<>>
    BY <1>3, <2>1 DEF Inv, KDescInv
  <2>3. f \in Runs /\ f.tag = l.met
    BY <1>2, <2>1, <2>2 DEF Runs, Frames, HelpFrame, KDescs, States
  <2>4. /\ Append(l.help, f) \in Seq(Runs) /\ Append(l.help, f) # <<>>
        /\ Append(l.help, f) \in Seq(Frames)
    BY <1>1, <2>3, Push, RunsType
  <2>5. /\ m \in Locals /\ m.help = Append(l.help, f) /\ m.snapshot = l.snapshot
        /\ m.met = l.met /\ m.fn = l.fn /\ m.addr = l.addr
    BY <1>1, <2>4 DEF Locals
  <2>6. Step(t, "HelpState", m)
    BY <1>3 DEF KcasSnapshot
  <2> HIDE DEF m, f
  <2>7. Place(t, "HelpState", m, kdesc, rdesc)
    BY <1>1, <2>4, <2>5 DEF Place, Helping
  <2>8. "HelpState" \in PCs \ Fillers
    BY DEF PCs, Fillers, Helping
  <2> QED BY <1>1, <2>4, <2>5, <2>6, <2>7, <2>8, SameMem, QuietStep DEF Step
<1>4. CASE d.seq # l.met.seq
  <2>1. Step(t, AfterHelp(l), l)
    BY <1>4 DEF KcasSnapshot
  <2>2. AfterHelp(l) \in PCs \ Fillers
    BY DEF AfterHelp, PCs, Fillers, Helping
  <2>3. Place(t, AfterHelp(l), l, kdesc, rdesc)
    BY <1>1 DEF Place, Helping, AfterHelp
  <2>4. pc[t] \notin Fillers
    BY DEF Fillers
  <2> QED BY <2>1, <2>2, <2>3, <2>4, SameMem, GoOnInv
<1> QED BY <1>3, <1>4

(* help looks at the state. *)
LEMMA HelpStateInv ==
    ASSUME Inv, NEW t \in Threads, pc[t] = "HelpState", HelpState(t, loc[t]),
           UNCHANGED <<mem, kdesc, rdesc>>
    PROVE  Inv'
<1>1. loc[t].help # <<>> /\ Place(t, "HelpState", loc[t], kdesc, rdesc)
  BY Here DEF Place, Helping
<1>2. CASE HelpReturns(t, loc[t], FALSE)
  BY <1>2, SameMem, HelpReturnsInv DEF Helping
<1>3. ASSUME NEW to \in {"Prepare", "Outcome"}, Step(t, to, loc[t]) PROVE Inv'
  <2>1. Place(t, to, loc[t], kdesc, rdesc)
    BY <1>1, <1>3 DEF Place, Helping
  <2>2. to \in PCs \ Fillers /\ pc[t] \notin Fillers
    BY <1>3 DEF PCs, Fillers, Helping
  <2> QED BY <1>3, <2>1, <2>2, SameMem, GoOnInv
<1> QED BY <1>2, <1>3 DEF HelpState

(* A snapshot of an rdcss descriptor. *)
LEMMA RdcssSnapshotInv ==
    ASSUME Inv, NEW t \in Threads, pc[t] = "RdcssSnapshot", RdcssSnapshot(t, loc[t]),
           UNCHANGED <<mem, kdesc, rdesc>>
    PROVE  Inv'
<1> DEFINE l == loc[t]
           d == rdesc[l.met.slot]
           m == [l EXCEPT !.snapshot = d, !.then = AfterRdcss(l)]
<1>1. /\ l \in Locals /\ l.help \in Seq(Runs) /\ l.snapshot \in {[seq |-> 0]} \cup Snapshots
      /\ l.met \in Words /\ Place(t, "RdcssSnapshot", l, kdesc, rdesc)
  BY Here
<1>2. l.met \in IssuedR
  BY <1>1 DEF Place, Words, Plain, IssuedK, KTags
<1>3. d \in RDescs /\ d \in Snapshots
  BY <1>2 DEF IssuedR, RTags, Inv, RDescInv, Unused, Snapshots, RDescs
<1>4. CASE d.seq = l.met.seq
  <2>1. /\ m \in Locals /\ m.help = l.help /\ m.snapshot = d /\ m.then = AfterRdcss(l)
        /\ m.met = l.met /\ m.fn = l.fn /\ m.addr = l.addr
    BY <1>1, <1>3 DEF Locals, AfterRdcss
  <2>2. Step(t, "RdcssRead", m)
    BY <1>4 DEF RdcssSnapshot
  <2> HIDE DEF m
  <2>3. Place(t, "RdcssRead", m, kdesc, rdesc)
    BY <1>1, <1>3, <2>1 DEF Place, Helping, AfterRdcss
  <2>4. "RdcssRead" \in PCs \ Fillers
    BY DEF PCs, Fillers
  <2> QED BY <1>1, <1>3, <2>1, <2>2, <2>3, <2>4, SameMem, QuietStep DEF Step
<1>5. CASE d.seq # l.met.seq
  <2>1. Step(t, AfterRdcss(l), l)
    BY <1>5 DEF RdcssSnapshot
  <2>2. AfterRdcss(l) \in PCs \ Fillers
    BY DEF AfterRdcss, PCs, Fillers, Helping
  <2>3. Place(t, AfterRdcss(l), l, kdesc, rdesc)
    BY <1>1 DEF Place, Helping, AfterRdcss
  <2>4. pc[t] \notin Fillers
    BY DEF Fillers
  <2> QED BY <2>1, <2>2, <2>3, <2>4, SameMem, GoOnInv
<1> QED BY <1>4, <1>5

(* rdcss reads the state of the update ...                                 *)
LEMMA RdcssReadInv ==
    ASSUME Inv, NEW t \in Threads, pc[t] = "RdcssRead", RdcssRead(t, loc[t]),
           UNCHANGED <<mem, kdesc, rdesc>>
    PROVE  Inv'
<1> DEFINE l == loc[t]
           m == [l EXCEPT !.v = StateOf(l.snapshot.tag)]
<1>1. /\ l \in Locals /\ l.help \in Seq(Runs) /\ l.snapshot \in {[seq |-> 0]} \cup Snapshots
      /\ l.met \in Words /\ Place(t, "RdcssRead", l, kdesc, rdesc)
  BY Here
<1>2. l.snapshot.tag \in KTags
  BY <1>1 DEF Place, RDescs
<1>3. StateOf(l.snapshot.tag) \in States \cup {"GONE"}
  BY <1>2, StateOfType
<1>4. /\ m \in Locals /\ m.help = l.help /\ m.snapshot = l.snapshot /\ m.then = l.then
      /\ m.met = l.met /\ m.fn = l.fn /\ m.addr = l.addr
  BY <1>1, <1>3 DEF Locals
<1>5. Step(t, "RdcssFinish", m)
  BY DEF RdcssRead
<1> HIDE DEF m
<1>6. Place(t, "RdcssFinish", m, kdesc, rdesc)
  BY <1>1, <1>4 DEF Place, Helping
<1>7. "RdcssFinish" \in PCs \ Fillers
  BY DEF PCs, Fillers
<1> QED BY <1>1, <1>4, <1>5, <1>6, <1>7, SameMem, QuietStep DEF Step

(* ... and puts the tag of the update in the word, or the old value.       *)
LEMMA RdcssFinishInv ==
    ASSUME Inv, NEW t \in Threads, pc[t] = "RdcssFinish", RdcssFinish(t, loc[t])
    PROVE  Inv'
<1> DEFINE l == loc[t]
           new == IF l.v = "UNDECIDED" THEN l.snapshot.tag ELSE l.snapshot.old
<1>1. /\ l \in Locals /\ l.snapshot \in {[seq |-> 0]} \cup Snapshots
      /\ Place(t, "RdcssFinish", l, kdesc, rdesc)
  BY Here
<1>2. l.snapshot \in Snapshots
  <2>1. l.snapshot \in RDescs
    BY <1>1 DEF Place
  <2>2. l.snapshot # [seq |-> 0]
    BY <2>1 DEF RDescs
  <2> QED BY <1>1, <2>2
<1>3. new \in Words
  BY <1>2 DEF Snapshots, RDescs, Words
<1>4. Step(t, l.then, l) /\ CASWord(l.snapshot.addr, l.met, new)
  BY DEF RdcssFinish
<1> HIDE DEF new
<1>5. mem' \in [Addrs -> Words] /\ UNCHANGED <<kdesc, rdesc>>
  BY <1>3, <1>4, CASWordOK
<1>6. l.then \in {"Load", "RdcssCAS", "Prepare"}
  BY <1>1 DEF Place
<1>7. l.then \in PCs \ Fillers /\ pc[t] \notin Fillers
  BY <1>6 DEF PCs, Fillers, Helping
<1>8. Place(t, l.then, l, kdesc, rdesc)
  BY <1>1, <1>6 DEF Place, Helping
<1> QED BY <1>4, <1>5, <1>7, <1>8, GoOnInv

(* help takes up an entry, or has none left. *)
LEMMA PrepareInv ==
    ASSUME Inv, NEW t \in Threads, pc[t] = "Prepare", Prepare(t, loc[t])
    PROVE  Inv'
<1> DEFINE l == loc[t]
           f == Top(l)
           s == Slot[t]
           d == [seq |-> rdesc[s].seq + 1, tag |-> f.tag, addr |-> f.entries[f.i].addr,
                 old |-> Value(f.entries[f.i].old)]
<1>1. /\ l \in Locals /\ l.help \in Seq(Runs) /\ l.help # <<>>
      /\ l.snapshot \in {[seq |-> 0]} \cup Snapshots /\ l.met \in Words
      /\ Place(t, "Prepare", l, kdesc, rdesc)
      /\ pc \in [Threads -> PCs] /\ pc[t] \notin Fillers /\ s \in Slots
  BY Here DEF Place, Helping, Fillers
<1>2. f \in Runs
  <2>1. Len(l.help) \in Nat \ {0}
    BY <1>1, EmptySeq
  <2> QED BY <1>1, <2>1, ElementOfSeq DEF Top, Last
<1>3. CASE f.i > Len(f.entries)
  <2>1. Step(t, "Decide", l) /\ UNCHANGED <<mem, kdesc, rdesc>>
    BY <1>3 DEF Prepare
  <2>2. Place(t, "Decide", l, kdesc, rdesc)
    BY <1>1 DEF Place, Helping
  <2>3. "Decide" \in PCs \ Fillers
    BY DEF PCs, Fillers, Helping
  <2> QED BY <1>1, <2>1, <2>2, <2>3, SameMem, GoOnInv
<1>4. CASE ~(f.i > Len(f.entries))
  <2>1. /\ rdesc' = [rdesc EXCEPT ![s] = d]
        /\ Step(t, "RdcssCAS", l) /\ UNCHANGED <<mem, kdesc>>
    BY <1>4 DEF Prepare
  <2>2. f.entries[f.i] \in Entries
    <3>1. f.entries \in Seq(Entries) /\ f.i \in Nat \ {0}
      BY <1>2 DEF Runs, Frames
    <3>2. f.i \in 1 .. Len(f.entries)
      BY <1>4, <3>1, LenProperties
    <3> QED BY <3>1, <3>2, ElementOfSeq
  <2>3. rdesc[s].seq \in Nat /\ rdesc \in [Slots -> {Unused} \cup Snapshots]
    BY <1>1 DEF Inv, RDescInv, Unused, Snapshots, RDescs
  <2>4. d \in RDescs /\ d.tag \in IssuedK /\ d.seq = rdesc[s].seq + 1
    BY <1>2, <2>2, <2>3 DEF RDescs, Runs, IssuedK, Entries, Value, Plain
  <2> HIDE DEF d
  <2>5. /\ rdesc'[s] = d
        /\ \A r \in Slots \ {s} : rdesc'[r] = rdesc[r]
        /\ pc' = [pc EXCEPT ![t] = "RdcssCAS"] /\ loc' = [loc EXCEPT ![t] = l]
    BY <1>1, <2>1, <2>3 DEF Step
  <2>6. Filling' = Filling
    BY <1>1, <2>5 DEF Filling, Fillers
  <2>7. Grows(t)
    <3>1. \A r \in Slots : kdesc'[r].seq \in Nat /\ kdesc'[r].seq >= kdesc[r].seq
      BY <2>1 DEF Inv, KDescInv, KDescs
    <3>2. \A r \in Slots : \/ rdesc'[r] = rdesc[r]
                           \/ rdesc'[r].seq > rdesc[r].seq /\ rdesc'[r] \in RDescs
      BY <2>3, <2>4, <2>5
    <3> QED BY <2>1, <2>6, <3>1, <3>2 DEF Grows
  <2>8. /\ Words \subseteq Words' /\ Snapshots \subseteq Snapshots' /\ Runs \subseteq Runs'
        /\ IssuedK \subseteq IssuedK'
    BY <2>7, GrowsIssued
  <2>9. RDescInv'
    <3>1. d \in Snapshots'
      BY <2>4, <2>8 DEF Snapshots
    <3>2. \A r \in Slots : rdesc'[r] \in {Unused} \cup Snapshots'
      BY <2>3, <2>5, <2>8, <3>1
    <3>3. rdesc' = [r \in Slots |-> rdesc'[r]]
      BY <2>1, <2>3
    <3> QED BY <3>2, <3>3 DEF RDescInv, Unused
  <2>10. MemInv' /\ KDescInv'
    BY <2>1, <2>6, <2>8 DEF Inv, MemInv, KDescInv
  <2>11. LocalInv'
    <3>1. l.help \in Seq(Runs')
      BY <1>1, <2>8, SeqMonotonic
    <3>2. Place(t, "RdcssCAS", l, kdesc', rdesc')
      BY <1>1, <2>4, <2>5 DEF Place, Helping
    <3>3. "RdcssCAS" \in PCs
      BY DEF PCs, Helping
    <3> QED BY <1>1, <2>5, <2>7, <2>8, <3>1, <3>2, <3>3, StepInv
  <2> QED BY <2>9, <2>10, <2>11 DEF Inv
<1> QED BY <1>3, <1>4

(* rdcss tries to put its tag in the word, and goes by what it finds.      *)
LEMMA RdcssCASInv ==
    ASSUME Inv, NEW t \in Threads, pc[t] = "RdcssCAS", RdcssCAS(t, loc[t])
    PROVE  Inv'
<1> DEFINE l == loc[t]
           d == rdesc[Slot[t]]
           tag == RTag(Slot[t], d.seq)
           r == mem[d.addr]
           next == [Top(l) EXCEPT !.i = @ + 1]
<1>1. /\ l \in Locals /\ l.help \in Seq(Runs) /\ l.help # <<>>
      /\ l.snapshot \in {[seq |-> 0]} \cup Snapshots /\ l.met \in Words
      /\ Place(t, "RdcssCAS", l, kdesc, rdesc)
      /\ pc[t] \notin Fillers /\ Slot[t] \in Slots
  BY Here DEF Place, Helping, Fillers
<1>2. d \in RDescs /\ d \in Snapshots
  <2>1. d \in RDescs
    BY <1>1 DEF Place
  <2>2. d # Unused
    BY <2>1 DEF RDescs, Unused
  <2>3. d \in {Unused} \cup Snapshots
    BY <1>1 DEF Inv, RDescInv
  <2> QED BY <2>1, <2>2, <2>3
<1>3. tag \in IssuedR /\ tag.tag = "rdcss" /\ tag.slot = Slot[t] /\ tag \in RTags
  BY <1>1, <1>2 DEF IssuedR, RTags, RTag, RDescs
<1>4. r \in Words
  BY <1>2 DEF RDescs, Inv, MemInv
<1>5. /\ mem' \in [Addrs -> Words] /\ UNCHANGED <<kdesc, rdesc>>
  <2>1. tag \in Words
    BY <1>3 DEF Words
  <2>2. CASWord(d.addr, d.old, tag)
    BY DEF RdcssCAS
  <2> HIDE DEF tag
  <2> QED BY <2>1, <2>2, CASWordOK
<1>6. Top(l) \in Runs /\ Top(l).i \in Nat \ {0}
  <2>1. Len(l.help) \in Nat \ {0}
    BY <1>1, EmptySeq
  <2> QED BY <1>1, <2>1, ElementOfSeq DEF Top, Last, Runs, Frames
<1>7. next \in Runs
  BY <1>6, RunEntry
<1>8. /\ NextEntry(l) = WithTop(l, next)
      /\ NextEntry(l) \in Locals /\ NextEntry(l).help \in Seq(Runs) /\ NextEntry(l).help # <<>>
      /\ NextEntry(l) = [l EXCEPT !.help = Append(Front(l.help), next)]
  BY <1>1, <1>7, WithTopOK DEF NextEntry
<1>9. /\ NextEntry(l).fn = l.fn /\ NextEntry(l).addr = l.addr
      /\ NextEntry(l).snapshot = l.snapshot /\ NextEntry(l).met = l.met
  BY <1>1, <1>8 DEF Locals
<1>10. CASE Step(t, "RdcssRead", [NextEntry(l) EXCEPT !.met = tag, !.snapshot = d,
                                                      !.then = "Prepare"])
  <2> DEFINE n == NextEntry(l)
             m == [n EXCEPT !.met = tag, !.snapshot = d, !.then = "Prepare"]
  <2> HIDE DEF n
  <2>1. /\ m \in Locals /\ m.help = n.help /\ m.snapshot = d /\ m.then = "Prepare"
        /\ m.met = tag /\ m.fn = n.fn /\ m.addr = n.addr
    BY <1>2, <1>3, <1>8 DEF Locals, n
  <2>2. Place(t, "RdcssRead", m, kdesc, rdesc)
    <3>1. m.fn = l.fn /\ m.addr = l.addr /\ m.help # <<>>
      BY <1>8, <1>9, <2>1 DEF n
    <3>2. m.met.tag = "rdcss" /\ rdesc[m.met.slot] = d
      BY <1>3, <2>1
    <3> HIDE DEF m
    <3> QED BY <1>1, <1>2, <2>1, <3>1, <3>2 DEF Place, Helping
  <2>3. "RdcssRead" \in PCs \ Fillers
    BY DEF PCs, Fillers
  <2>4. m.help \in Seq(Runs) /\ m.met \in Words
    BY <1>3, <1>8, <2>1 DEF n, Words
  <2>5. Step(t, "RdcssRead", m)
    BY <1>10 DEF n
  <2> HIDE DEF m
  <2> QED BY <1>1, <1>2, <1>5, <2>1, <2>2, <2>3, <2>4, <2>5, QuietStep DEF Step, Fillers
<1>11. ASSUME NEW to \in {"RdcssSnapshot", "KcasSnapshot"}, Step(t, to, [l EXCEPT !.met = r]),
              to = "RdcssSnapshot" => r.tag = "rdcss", to = "KcasSnapshot" => r.tag = "kcas"
       PROVE  Inv'
  <2> DEFINE m == [l EXCEPT !.met = r]
  <2>1. /\ m \in Locals /\ m.help = l.help /\ m.snapshot = l.snapshot /\ m.met = r
        /\ m.fn = l.fn /\ m.addr = l.addr
    BY <1>1, <1>4 DEF Locals, Words, IssuedK, IssuedR
  <2>2. Step(t, to, m)
    BY <1>11
  <2> HIDE DEF m
  <2>3. Place(t, to, m, kdesc, rdesc)
    BY <1>1, <1>11, <2>1 DEF Place, Helping
  <2>4. to \in PCs \ Fillers
    BY <1>11 DEF PCs, Fillers
  <2> QED BY <1>1, <1>4, <1>5, <2>1, <2>2, <2>3, <2>4, QuietStep DEF Step, Fillers
<1>12. CASE Step(t, "Prepare", NextEntry(l))
  <2> DEFINE m == NextEntry(l)
  <2> HIDE DEF m
  <2>1. Place(t, "Prepare", m, kdesc, rdesc)
    BY <1>1, <1>8, <1>9 DEF Place, Helping, m
  <2>2. "Prepare" \in PCs \ Fillers
    BY DEF PCs, Fillers, Helping
  <2>3. /\ Step(t, "Prepare", m)
        /\ m \in Locals /\ m.help \in Seq(Runs) /\ m.snapshot = l.snapshot /\ m.met = l.met
    BY <1>8, <1>9, <1>12 DEF m
  <2> QED BY <1>1, <1>5, <2>1, <2>2, <2>3, QuietStep DEF Step, Fillers
<1>13. CASE Step(t, "Decide", WithTop(l, [Top(l) EXCEPT !.newstate = "FAILED"]))
  <2> DEFINE f == [Top(l) EXCEPT !.newstate = "FAILED"]
             m == WithTop(l, f)
  <2>1. f \in Runs
    BY <1>6 DEF Runs, Frames, States
  <2> HIDE DEF f
  <2>2. /\ m \in Locals /\ m.help \in Seq(Runs) /\ m.help # <<>>
        /\ m = [l EXCEPT !.help = Append(Front(l.help), f)]
    BY <1>1, <2>1, WithTopOK
  <2>3. m.snapshot = l.snapshot /\ m.met = l.met /\ m.fn = l.fn /\ m.addr = l.addr
    BY <1>1, <2>2 DEF Locals
  <2>4. Step(t, "Decide", m)
    BY <1>13 DEF f
  <2> HIDE DEF m
  <2>5. Place(t, "Decide", m, kdesc, rdesc)
    BY <1>1, <2>2, <2>3 DEF Place, Helping
  <2>6. "Decide" \in PCs \ Fillers
    BY DEF PCs, Fillers, Helping
  <2> QED BY <1>1, <1>5, <2>2, <2>3, <2>4, <2>5, <2>6, QuietStep DEF Step, Fillers
<1> QED BY <1>10, <1>11, <1>12, <1>13 DEF RdcssCAS

(* Whoever runs help sets the state, if the operation is undecided: the    *)
(* owner of a descriptor that is being filled need not fear it.            *)
LEMMA DecideInv ==
    ASSUME Inv, NEW t \in Threads, pc[t] = "Decide", Decide(t, loc[t])
    PROVE  Inv'
<1> DEFINE l == loc[t]
           f == Top(l)
           s == f.tag.slot
<1>1. /\ l \in Locals /\ l.help \in Seq(Runs) /\ l.help # <<>>
      /\ l.snapshot \in {[seq |-> 0]} \cup Snapshots /\ l.met \in Words
      /\ Place(t, "Decide", l, kdesc, rdesc)
      /\ pc \in [Threads -> PCs] /\ pc[t] \notin Fillers
  BY Here DEF Place, Helping, Fillers
<1>2. f \in Runs
  <2>1. Len(l.help) \in Nat \ {0}
    BY <1>1, EmptySeq
  <2> QED BY <1>1, <2>1, ElementOfSeq DEF Top, Last
<1>3. s \in Slots /\ f.newstate \in States
  BY <1>2 DEF Runs, IssuedK, KTags, Frames
<1> HIDE DEF f, s
<1>4. /\ kdesc' \in [Slots -> KDescs]
      /\ \A r \in Slots : kdesc'[r].seq = kdesc[r].seq /\ kdesc'[r].entries = kdesc[r].entries
  <2>1. kdesc \in [Slots -> KDescs]
    BY DEF Inv, KDescInv
  <2>2. kdesc' = kdesc \/ kdesc' = [kdesc EXCEPT ![s].state = f.newstate]
    BY DEF Decide, f, s
  <2>3. ASSUME NEW x \in KDescs, NEW st \in States
        PROVE  LET y == [x EXCEPT !.state = st]
               IN  y \in KDescs /\ y.seq = x.seq /\ y.entries = x.entries
    BY DEF KDescs
  <2>4. PICK e : e = [kdesc[s] EXCEPT !.state = f.newstate]
    OBVIOUS
  <2>5. e \in KDescs /\ e.seq = kdesc[s].seq /\ e.entries = kdesc[s].entries
    BY <1>3, <2>1, <2>3, <2>4, Zenon
  <2>6. kdesc' = kdesc \/ kdesc' = [kdesc EXCEPT ![s] = e]
    BY <1>3, <2>1, <2>2, <2>4
  <2> QED BY <1>3, <2>1, <2>5, <2>6
<1>5. /\ pc' = [pc EXCEPT ![t] = "Outcome"] /\ loc' = [loc EXCEPT ![t] = l]
      /\ UNCHANGED <<mem, rdesc>>
  BY DEF Decide, Step
<1>6. Filling' = Filling
  BY <1>1, <1>5 DEF Filling, Fillers
<1>7. Grows(t)
  <2>1. \A r \in Slots : kdesc[r].seq \in Nat
    BY DEF Inv, KDescInv, KDescs
  <2> QED BY <1>4, <1>5, <1>6, <2>1 DEF Grows, Slots
<1>8. Words \subseteq Words' /\ Snapshots \subseteq Snapshots' /\ Runs \subseteq Runs'
  BY <1>7, GrowsIssued
<1>9. MemInv' /\ RDescInv' /\ KDescInv'
  BY <1>4, <1>5, <1>6, <1>8 DEF Inv, MemInv, RDescInv, KDescInv, Unused
<1>10. LocalInv'
  <2>1. l.help \in Seq(Runs')
    BY <1>1, <1>8, SeqMonotonic
  <2>2. Place(t, "Outcome", l, kdesc', rdesc')
    BY <1>1 DEF Place, Helping
  <2>3. "Outcome" \in PCs
    BY DEF PCs, Helping
  <2> QED BY <1>1, <1>5, <1>7, <1>8, <2>1, <2>2, <2>3, StepInv
<1> QED BY <1>9, <1>10 DEF Inv

(* help turns to the outcome. *)
LEMMA OutcomeInv ==
    ASSUME Inv, NEW t \in Threads, pc[t] = "Outcome", Outcome(t, loc[t]),
           UNCHANGED <<mem, kdesc, rdesc>>
    PROVE  Inv'
<1> DEFINE l == loc[t]
           state == StateOf(Top(l).tag)
           f == [Top(l) EXCEPT !.i = 1, !.newstate = state]
           m == WithTop(l, f)
<1>1. /\ l \in Locals /\ l.help \in Seq(Runs) /\ l.help # <<>>
      /\ l.snapshot \in {[seq |-> 0]} \cup Snapshots /\ l.met \in Words
      /\ Place(t, "Outcome", l, kdesc, rdesc)
      /\ pc[t] \notin Fillers
  BY Here DEF Place, Helping, Fillers
<1>2. CASE state = "GONE"
  BY <1>2, SameMem, HelpReturnsInv DEF Outcome, Helping
<1>3. CASE state # "GONE"
  <2>1. Top(l) \in Runs
    <3>1. Len(l.help) \in Nat \ {0}
      BY <1>1, EmptySeq
    <3> QED BY <1>1, <3>1, ElementOfSeq DEF Top, Last
  <2>2. state \in States
    <3>1. Top(l).tag \in KTags
      BY <2>1 DEF Runs, IssuedK
    <3> QED BY <1>3, <3>1, StateOfType
  <2>3. Step(t, "Replace", m)
    BY <1>3 DEF Outcome
  <2> HIDE DEF state
  <2>4. f \in Runs /\ f.i = 1 /\ f.entries \in Seq(Entries) \ {<<>>}
    <3>1. ASSUME NEW x \in Frames, NEW j \in Nat \ {0}, NEW st \in States
          PROVE  LET y == [x EXCEPT !.i = j, !.newstate = st]
                 IN  y \in Frames /\ y.i = j /\ y.tag = x.tag /\ y.entries = x.entries
      BY DEF Frames
    <3>2. /\ Top(l) \in Frames /\ f \in Frames /\ f.i = 1
          /\ f.tag = Top(l).tag /\ f.entries = Top(l).entries
      <4>1. 1 \in Nat \ {0} /\ Top(l) \in Frames
        BY <2>1 DEF Runs
      <4> QED BY <2>2, <3>1, <4>1, Zenon
    <3> QED BY <2>1, <3>2 DEF Runs, Frames
  <2> HIDE DEF f
  <2>5. /\ m \in Locals /\ m.help \in Seq(Runs) /\ m.help # <<>> /\ Top(m) = f
        /\ m = [l EXCEPT !.help = Append(Front(l.help), f)]
    BY <1>1, <2>4, WithTopOK
  <2>6. m.snapshot = l.snapshot /\ m.met = l.met /\ m.fn = l.fn /\ m.addr = l.addr
    BY <1>1, <2>5 DEF Locals
  <2>7. 1 <= Len(f.entries)
    BY <2>4, EmptySeq
  <2> HIDE DEF m
  <2>8. Place(t, "Replace", m, kdesc, rdesc)
    BY <1>1, <2>4, <2>5, <2>6, <2>7 DEF Place, Helping
  <2>9. "Replace" \in PCs \ Fillers
    BY DEF PCs, Fillers, Helping
  <2> QED BY <1>1, <2>3, <2>5, <2>6, <2>8, <2>9, SameMem, QuietStep DEF Step, Fillers
<1> QED BY <1>2, <1>3

(* One tag is replaced by the old or the new value. *)
LEMMA ReplaceInv ==
    ASSUME Inv, NEW t \in Threads, pc[t] = "Replace", Replace(t, loc[t])
    PROVE  Inv'
<1> DEFINE l == loc[t]
           f == Top(l)
           e == f.entries[f.i]
           succeeded == f.newstate = "SUCCEEDED"
           new == Value(IF succeeded THEN e.new ELSE e.old)
           next == [f EXCEPT !.i = @ + 1]
           m == WithTop(l, next)
<1>1. /\ l \in Locals /\ l.help \in Seq(Runs) /\ l.help # <<>>
      /\ l.snapshot \in {[seq |-> 0]} \cup Snapshots /\ l.met \in Words
      /\ Place(t, "Replace", l, kdesc, rdesc)
      /\ pc[t] \notin Fillers
  BY Here DEF Place, Helping, Fillers
<1>2. f \in Runs
  <2>1. Len(l.help) \in Nat \ {0}
    BY <1>1, EmptySeq
  <2> QED BY <1>1, <2>1, ElementOfSeq DEF Top, Last
<1>3. f.entries \in Seq(Entries) /\ f.i \in Nat \ {0} /\ f.i <= Len(f.entries)
  BY <1>1, <1>2 DEF Runs, Frames, Place
<1>4. e \in Entries
  <2>1. f.i \in 1 .. Len(f.entries)
    BY <1>3, LenProperties
  <2> QED BY <1>3, <2>1, ElementOfSeq
<1>5. new \in Words
  BY <1>4 DEF Entries, Value, Words, Plain
<1>6. CASWord(e.addr, f.tag, new)
  BY DEF Replace
<1>7. \/ f.i = Len(f.entries) /\ HelpReturns(t, l, succeeded)
      \/ f.i # Len(f.entries) /\ Step(t, "Replace", m)
  BY DEF Replace, NextEntry
<1>8. next \in Runs /\ next.i = f.i + 1 /\ next.entries = f.entries
  BY <1>2, <1>3, RunEntry DEF Runs, Frames
<1>9. mem' \in [Addrs -> Words] /\ UNCHANGED <<kdesc, rdesc>>
  <2> HIDE DEF new
  <2> QED BY <1>5, <1>6, CASWordOK
<1> HIDE DEF next
<1>10. /\ m \in Locals /\ m.help \in Seq(Runs) /\ m.help # <<>> /\ Top(m) = next
       /\ m = [l EXCEPT !.help = Append(Front(l.help), next)]
  BY <1>1, <1>8, WithTopOK
<1>11. m.snapshot = l.snapshot /\ m.met = l.met /\ m.fn = l.fn /\ m.addr = l.addr
  BY <1>1, <1>10 DEF Locals
<1> HIDE DEF m, f
<1>12. CASE f.i = Len(f.entries) /\ HelpReturns(t, l, succeeded)
  BY <1>9, <1>12, HelpReturnsInv DEF Helping
<1>13. CASE f.i # Len(f.entries) /\ Step(t, "Replace", m)
  <2>1. next.i <= Len(next.entries)
    BY <1>3, <1>8, <1>13, LenProperties
  <2>2. Place(t, "Replace", m, kdesc, rdesc)
    BY <1>1, <1>10, <1>11, <2>1 DEF Place, Helping
  <2>3. "Replace" \in PCs \ Fillers
    BY DEF PCs, Fillers, Helping
  <2> QED BY <1>1, <1>9, <1>10, <1>11, <1>13, <2>2, <2>3, QuietStep DEF Step, Fillers
<1> QED BY <1>7, <1>12, <1>13

(* The owner takes its descriptor for a new operation: its number goes up, *)
(* and no tag has the new one.                                             *)
LEMMA StartInv ==
    ASSUME DistinctSlots, Inv, NEW t \in Threads, pc[t] = "Start", Start(t, loc[t])
    PROVE  Inv'
<1> DEFINE l == loc[t]
           s == Slot[t]
           d == [seq |-> kdesc[s].seq + 1, state |-> "UNDECIDED", entries |-> <<>>]
<1>1. /\ l \in Locals /\ l.help \in Seq(Runs) /\ l.snapshot \in {[seq |-> 0]} \cup Snapshots
      /\ l.met \in Words /\ Place(t, "Start", l, kdesc, rdesc)
      /\ pc \in [Threads -> PCs] /\ s \in Slots
  BY Here
<1>2. /\ kdesc \in [Slots -> KDescs] /\ kdesc[s].seq \in Nat
      /\ \A r \in Slots : kdesc[r].seq >= 1 /\ kdesc[r].seq \in Nat
  BY <1>1 DEF Inv, KDescInv, KDescs
<1>3. d \in KDescs
  BY <1>2, EmptySeq DEF KDescs, States
<1>4. /\ kdesc' = [kdesc EXCEPT ![s] = d]
      /\ pc' = [pc EXCEPT ![t] = "Add"] /\ loc' = [loc EXCEPT ![t] = l]
      /\ UNCHANGED <<mem, rdesc>>
  BY DEF Start, Step
<1>5. d.seq = kdesc[s].seq + 1 /\ d.entries = <<>>
  OBVIOUS
<1> HIDE DEF d
<1>6. /\ kdesc' \in [Slots -> KDescs] /\ kdesc'[s] = d
      /\ \A r \in Slots \ {s} : kdesc'[r] = kdesc[r]
  BY <1>1, <1>2, <1>3, <1>4
<1>7. s \in Filling' /\ Filling' \subseteq Filling \cup {s} /\ Filling \ {s} \subseteq Filling'
  BY <1>1, <1>4, FillingStep DEF Fillers
<1>8. Grows(t)
  <2>1. \A u \in Threads \ {t} : Slot[u] # s /\ Slot[u] \in Slots
    BY DEF DistinctSlots, Slots
  <2> QED BY <1>2, <1>4, <1>5, <1>6, <1>7, <2>1 DEF Grows
<1>9. Words \subseteq Words' /\ Snapshots \subseteq Snapshots' /\ Runs \subseteq Runs'
  BY <1>8, GrowsIssued
<1>10. MemInv' /\ RDescInv'
  BY <1>4, <1>9 DEF Inv, MemInv, RDescInv, Unused
<1>11. KDescInv'
  BY <1>2, <1>5, <1>6, <1>7 DEF Inv, KDescInv
<1>12. LocalInv'
  <2>1. l.help \in Seq(Runs')
    BY <1>1, <1>9, SeqMonotonic
  <2>2. Place(t, "Add", l, kdesc', rdesc')
    BY <1>1 DEF Place, Helping
  <2>3. "Add" \in PCs
    BY DEF PCs, Fillers
  <2> QED BY <1>1, <1>4, <1>8, <1>9, <2>1, <2>2, <2>3, StepInv
<1> QED BY <1>10, <1>11, <1>12 DEF Inv

(* A step of the owner of a descriptor that is being filled and stays so,  *)
(* which gives it more entries or a new number.                            *)
LEMMA FillInv ==
    ASSUME DistinctSlots, Inv, NEW t \in Threads, pc[t] \in Fillers,
           NEW to \in Fillers, NEW m \in Locals, NEW d \in KDescs,
           kdesc' = [kdesc EXCEPT ![Slot[t]] = d], d.seq >= kdesc[Slot[t]].seq,
           pc' = [pc EXCEPT ![t] = to], loc' = [loc EXCEPT ![t] = m], UNCHANGED <<mem, rdesc>>,
           m.help \in Seq(Runs), m.snapshot \in {[seq |-> 0]} \cup Snapshots,
           to # "Transaction" => m.met \in Words,
           Place(t, to, m, kdesc', rdesc)
    PROVE  Inv'
<1> DEFINE s == Slot[t]
<1>1. pc \in [Threads -> PCs] /\ s \in Slots
  BY Here
<1>2. /\ kdesc \in [Slots -> KDescs] /\ d.seq \in Nat
      /\ \A r \in Slots : kdesc[r].seq >= 1 /\ kdesc[r].seq \in Nat
  BY DEF Inv, KDescInv, KDescs
<1>3. /\ kdesc' \in [Slots -> KDescs] /\ kdesc'[s] = d
      /\ \A r \in Slots \ {s} : kdesc'[r] = kdesc[r]
  BY <1>1, <1>2
<1>4. s \in Filling' /\ s \in Filling
      /\ Filling' \subseteq Filling \cup {s} /\ Filling \ {s} \subseteq Filling'
  BY <1>1, FillingStep
<1>5. Grows(t)
  <2>1. \A u \in Threads \ {t} : Slot[u] # s /\ Slot[u] \in Slots
    BY DEF DistinctSlots, Slots
  <2> QED BY <1>2, <1>3, <1>4, <2>1 DEF Grows
<1>6. Words \subseteq Words' /\ Snapshots \subseteq Snapshots' /\ Runs \subseteq Runs'
  BY <1>5, GrowsIssued
<1>7. MemInv' /\ RDescInv'
  BY <1>6 DEF Inv, MemInv, RDescInv, Unused
<1>8. KDescInv'
  BY <1>2, <1>3, <1>4 DEF Inv, KDescInv
<1>9. LocalInv'
  <2>1. m.help \in Seq(Runs')
    BY <1>6, SeqMonotonic
  <2>2. Place(t, to, m, kdesc', rdesc')
    OBVIOUS
  <2>3. to \in PCs
    BY DEF PCs
  <2> QED BY <1>5, <1>6, <2>1, <2>2, <2>3, StepInv
<1> QED BY <1>7, <1>8, <1>9 DEF Inv

(* One more entry. *)
LEMMA AddInv ==
    ASSUME DistinctSlots, Inv, NEW t \in Threads, pc[t] = "Add", Add(t, loc[t])
    PROVE  Inv'
<1> DEFINE l == loc[t]
           s == Slot[t]
           es == Append(kdesc[s].entries, Head(l.todo))
           d == [kdesc[s] EXCEPT !.entries = es]
           to == IF Len(l.todo) = 1 THEN "Initialized" ELSE "Add"
           m == [l EXCEPT !.todo = Tail(@)]
<1>1. /\ l \in Locals /\ l.help \in Seq(Runs) /\ l.snapshot \in {[seq |-> 0]} \cup Snapshots
      /\ l.met \in Words /\ Place(t, "Add", l, kdesc, rdesc) /\ s \in Slots
  BY Here
<1>2. l.todo \in Seq(Entries) /\ l.todo # <<>>
  BY <1>1 DEF Locals, Place
<1>3. /\ Head(l.todo) \in Entries /\ Tail(l.todo) \in Seq(Entries)
      /\ Len(l.todo) # 1 => Tail(l.todo) # <<>>
  <2>1. /\ Head(l.todo) \in Entries /\ Tail(l.todo) \in Seq(Entries)
        /\ Len(Tail(l.todo)) = Len(l.todo) - 1
    BY <1>2, HeadTailProperties
  <2>2. Len(l.todo) # 1 => Len(Tail(l.todo)) # 0
    BY <1>2, <2>1, LenProperties
  <2>3. Len(<<>>) = 0
    OBVIOUS
  <2> QED BY <2>1, <2>2, <2>3
<1>4. kdesc \in [Slots -> KDescs] /\ kdesc[s].entries \in Seq(Entries)
  BY <1>1 DEF Inv, KDescInv, KDescs
<1>5. es \in Seq(Entries) /\ es # <<>>
  <2>1. es \in Seq(Entries) /\ Len(es) = Len(kdesc[s].entries) + 1
    BY <1>3, <1>4, AppendProperties
  <2>2. Len(kdesc[s].entries) \in Nat
    BY <1>4, LenProperties
  <2>3. Len(es) # 0
    BY <2>1, <2>2
  <2> QED BY <2>1, <2>3, EmptySeq
<1>6. /\ kdesc' = [kdesc EXCEPT ![s] = d]
      /\ pc' = [pc EXCEPT ![t] = to] /\ loc' = [loc EXCEPT ![t] = m]
      /\ UNCHANGED <<mem, rdesc>>
  <2>1. /\ kdesc' = [kdesc EXCEPT ![s].entries = es]
        /\ Step(t, to, m) /\ UNCHANGED <<mem, rdesc>>
    <3>1. kdesc' = [kdesc EXCEPT ![s].entries = Append(@, Head(l.todo))]
          /\ Step(t, to, m) /\ UNCHANGED <<mem, rdesc>>
      BY DEF Add
    <3> QED BY <1>1, <1>4, <3>1
  <2> QED BY <1>1, <1>4, <2>1 DEF Step
<1> HIDE DEF es
<1>7. d \in KDescs /\ d.seq = kdesc[s].seq /\ d.entries = es /\ d.seq >= kdesc[s].seq
  <2>1. kdesc[s] \in KDescs
    BY <1>1, <1>4
  <2> QED BY <1>5, <2>1 DEF KDescs
<1>8. /\ m \in Locals /\ m.help = l.help /\ m.snapshot = l.snapshot /\ m.met = l.met
      /\ m.fn = l.fn /\ m.addr = l.addr /\ m.todo = Tail(l.todo)
  BY <1>1, <1>3 DEF Locals
<1> HIDE DEF d, m
<1>9. Place(t, to, m, kdesc', rdesc)
  <2>1. kdesc'[s] = d
    BY <1>1, <1>4, <1>6
  <2> QED BY <1>1, <1>3, <1>5, <1>7, <1>8, <2>1 DEF Place, Helping
<1>10. to \in Fillers /\ pc[t] \in Fillers /\ to # "Transaction"
  BY DEF Fillers
<1> HIDE DEF to
<1> QED BY <1>1, <1>6, <1>7, <1>8, <1>9, <1>10, FillInv

(* The number goes up again; the tag of the operation has the new one.     *)
LEMMA InitializedInv ==
    ASSUME DistinctSlots, Inv, NEW t \in Threads, pc[t] = "Initialized", Initialized(t, loc[t])
    PROVE  Inv'
<1> DEFINE l == loc[t]
           s == Slot[t]
           d == [kdesc[s] EXCEPT !.seq = @ + 1]
           tag == KTag(s, kdesc[s].seq + 1)
           m == [l EXCEPT !.met = tag]
<1>1. /\ l \in Locals /\ l.help \in Seq(Runs) /\ l.snapshot \in {[seq |-> 0]} \cup Snapshots
      /\ Place(t, "Initialized", l, kdesc, rdesc) /\ s \in Slots
  BY Here
<1>2. /\ kdesc \in [Slots -> KDescs] /\ kdesc[s] \in KDescs
      /\ kdesc[s].seq \in Nat /\ kdesc[s].seq >= 1
  BY <1>1 DEF Inv, KDescInv, KDescs
<1>3. /\ kdesc' = [kdesc EXCEPT ![s] = d]
      /\ pc' = [pc EXCEPT ![t] = "Transaction"] /\ loc' = [loc EXCEPT ![t] = m]
      /\ UNCHANGED <<mem, rdesc>>
  BY <1>1, <1>2 DEF Initialized, Step
<1>4. d \in KDescs /\ d.seq = kdesc[s].seq + 1 /\ d.entries = kdesc[s].entries
  <2>1. ASSUME NEW x \in KDescs, NEW n \in Nat
        PROVE  LET y == [x EXCEPT !.seq = n]
               IN  y \in KDescs /\ y.seq = n /\ y.entries = x.entries
    BY DEF KDescs
  <2>2. kdesc[s].seq + 1 \in Nat
    BY <1>2
  <2> QED BY <1>2, <2>1, <2>2
<1>5. tag \in KTags
  BY <1>1, <1>2 DEF KTags, KTag
<1>6. tag = KTag(s, d.seq)
  BY <1>4
<1> HIDE DEF tag, d
<1>7. /\ m \in Locals /\ m.help = l.help /\ m.snapshot = l.snapshot /\ m.met = tag
      /\ m.fn = l.fn /\ m.addr = l.addr
  BY <1>1, <1>5 DEF Locals
<1> HIDE DEF m
<1>8. Place(t, "Transaction", m, kdesc', rdesc)
  <2>1. kdesc'[s] = d
    BY <1>1, <1>2, <1>3
  <2>2. 1 < d.seq
    BY <1>2, <1>4
  <2> QED BY <1>1, <1>4, <1>6, <1>7, <2>1, <2>2 DEF Place, Helping
<1>9. "Transaction" \in Fillers /\ pc[t] \in Fillers /\ d.seq >= kdesc[s].seq
  BY <1>2, <1>4 DEF Fillers
<1> QED BY <1>1, <1>3, <1>4, <1>7, <1>8, <1>9, FillInv

(* Sorting loses no entry. *)
LEMMA SortingsType ==
    ASSUME NEW es \in Seq(Entries), es # <<>>, NEW s \in Sortings(es)
    PROVE  s \in Seq(Entries) \ {<<>>}
<1>1. Len(es) \in Nat \ {0} /\ DOMAIN es = 1 .. Len(es) /\ Range(es) \subseteq Entries
  <2>1. Len(es) \in Nat \ {0} /\ DOMAIN es = 1 .. Len(es)
    BY EmptySeq, LenProperties
  <2>2. \A i \in 1 .. Len(es) : es[i] \in Entries
    BY ElementOfSeq
  <2> QED BY <2>1, <2>2 DEF Range
<1>2. s \in [1 .. Len(es) -> Entries]
  BY <1>1 DEF Sortings
<1>3. s \in Seq(Entries)
  BY <1>1, <1>2, SeqDef
<1>4. s # <<>>
  <2>1. 1 \in DOMAIN s
    BY <1>1, <1>2
  <2>2. DOMAIN <<>> = {}
    OBVIOUS
  <2> QED BY <2>1, <2>2
<1> QED BY <1>3, <1>4

(* A transaction leaves values where it writes. *)
LEMMA WrittenType ==
    ASSUME MemInv, NEW es \in Seq(Entries) PROVE Written(mem, es) \in [Addrs -> Words]
<1>1. DOMAIN mem = Addrs /\ mem \in [Addrs -> Words]
  BY DEF MemInv
<1>2. \A e \in Range(es) : e \in Entries
  <2>1. \A i \in DOMAIN es : es[i] \in Entries
    BY LenProperties, ElementOfSeq
  <2> QED BY <2>1 DEF Range
<1>3. ASSUME NEW a \in Addrs, \E e \in Range(es) : e.addr = a
      PROVE  Value((CHOOSE e \in Range(es) : e.addr = a).new) \in Words
  <2> DEFINE c == CHOOSE e \in Range(es) : e.addr = a
  <2>1. c \in Range(es)
    BY <1>3
  <2>2. c.new \in Int
    BY <1>2, <2>1 DEF Entries
  <2> QED BY <2>2 DEF Value, Words, Plain
<1> QED BY <1>1, <1>3 DEF Written

(* A transaction ends the call, or the software path begins: the entries   *)
(* are put in order before any thread but the owner has the tag.           *)
LEMMA TransactionInv ==
    ASSUME DistinctSlots, Inv, NEW t \in Threads, pc[t] = "Transaction", Transaction(t, loc[t])
    PROVE  Inv'
<1> DEFINE l == loc[t]
           s == Slot[t]
           es == kdesc[s].entries
<1>1. /\ l \in Locals /\ l.help \in Seq(Runs) /\ l.snapshot \in {[seq |-> 0]} \cup Snapshots
      /\ Place(t, "Transaction", l, kdesc, rdesc) /\ s \in Slots
      /\ pc \in [Threads -> PCs]
  BY Here
<1>2. /\ kdesc \in [Slots -> KDescs] /\ kdesc[s] \in KDescs /\ kdesc[s].seq \in Nat
      /\ es \in Seq(Entries) /\ es # <<>>
      /\ l.met = KTag(s, kdesc[s].seq) /\ 1 < kdesc[s].seq
  BY <1>1 DEF Inv, KDescInv, KDescs, Place
<1>3. l.met \in KTags /\ l.met.slot = s /\ l.met.seq = kdesc[s].seq
  BY <1>1, <1>2 DEF KTags, KTag
<1>4. ASSUME NEW to \in PCs \ Fillers, NEW m, Step(t, to, m),
             kdesc'[s].seq = kdesc[s].seq
      PROVE  /\ l.met \in IssuedK' /\ l.met \in Words' /\ s \notin Filling'
             /\ Filling' \subseteq Filling /\ Filling \ {s} \subseteq Filling' /\ s \in Filling
  <2>1. /\ s \notin Filling' /\ Filling' \subseteq Filling /\ Filling \ {s} \subseteq Filling'
        /\ s \in Filling
    BY <1>1, <1>4, FillingStep DEF Step, Fillers
  <2>2. l.met \in IssuedK'
    BY <1>2, <1>3, <1>4, <2>1 DEF IssuedK
  <2> QED BY <2>1, <2>2 DEF Words
<1>5. ASSUME NEW r \in BOOLEAN, Answer(t, l, r), UNCHANGED <<kdesc, rdesc>>,
             mem' \in [Addrs -> Words]
      PROVE  Inv'
  <2>1. "Return" \in PCs \ Fillers
    BY DEF PCs, Fillers
  <2>2. l.met \in Words'
    BY <1>4, <1>5, <2>1 DEF Answer
  <2> QED BY <1>5, <2>2, AnswerInv
<1>6. CASE mem' = Written(mem, es) /\ Answer(t, l, TRUE) /\ UNCHANGED <<kdesc, rdesc>>
  <2>1. mem' \in [Addrs -> Words]
    BY <1>2, <1>6, WrittenType DEF Inv
  <2> QED BY <1>5, <1>6, <2>1
<1>7. CASE Answer(t, l, FALSE) /\ UNCHANGED <<mem, kdesc, rdesc>>
  BY <1>5, <1>7, SameMem
<1>8. ASSUME NEW sorted \in Sortings(es),
             kdesc' = [kdesc EXCEPT ![s].entries = sorted],
             Step(t, "HelpState", [l EXCEPT !.help = <<HelpFrame(l.met, sorted, FALSE)>>]),
             UNCHANGED <<mem, rdesc>>
      PROVE  Inv'
  <2> DEFINE f == HelpFrame(l.met, sorted, FALSE)
             m == [l EXCEPT !.help = <<f>>]
  <2>1. sorted \in Seq(Entries) \ {<<>>}
    BY <1>2, SortingsType
  <2>2. /\ kdesc' \in [Slots -> KDescs]
        /\ kdesc'[s].seq = kdesc[s].seq /\ kdesc'[s].entries = sorted
        /\ \A r \in Slots \ {s} : kdesc'[r] = kdesc[r]
    <3>1. ASSUME NEW x \in KDescs, NEW e \in Seq(Entries)
          PROVE  LET y == [x EXCEPT !.entries = e]
                 IN  y \in KDescs /\ y.seq = x.seq /\ y.entries = e
      BY DEF KDescs
    <3>2. kdesc' = [kdesc EXCEPT ![s] = [kdesc[s] EXCEPT !.entries = sorted]]
      BY <1>1, <1>2, <1>8
    <3> DEFINE y == [kdesc[s] EXCEPT !.entries = sorted]
    <3>3. y \in KDescs /\ y.seq = kdesc[s].seq /\ y.entries = sorted
      BY <1>2, <2>1, <3>1
    <3> HIDE DEF y
    <3>4. kdesc' = [kdesc EXCEPT ![s] = y]
      BY <3>2 DEF y
    <3> QED BY <1>1, <1>2, <3>3, <3>4
  <2>3. "HelpState" \in PCs \ Fillers
    BY DEF PCs, Fillers, Helping
  <2>4. /\ l.met \in IssuedK' /\ l.met \in Words' /\ s \notin Filling'
        /\ Filling' \subseteq Filling /\ Filling \ {s} \subseteq Filling' /\ s \in Filling
    BY <1>4, <1>8, <2>2, <2>3
  <2>5. \A r \in Slots : kdesc[r].seq \in Nat /\ kdesc[r].seq >= 1
    BY DEF Inv, KDescInv, KDescs
  <2>6. Grows(t)
    <3>1. \A u \in Threads \ {t} : Slot[u] # s /\ Slot[u] \in Slots
      BY DEF DistinctSlots, Slots
    <3>2. \A r \in Slots : kdesc'[r].seq = kdesc[r].seq
      BY <2>2
    <3>3. \A r \in Slots : kdesc'[r].entries = kdesc[r].entries \/ r \in Filling
      BY <2>2, <2>4
    <3>4. rdesc' = rdesc
      BY <1>8
    <3> QED BY <2>2, <2>4, <2>5, <3>1, <3>2, <3>3, <3>4 DEF Grows
  <2>7. Words \subseteq Words' /\ Snapshots \subseteq Snapshots' /\ Runs \subseteq Runs'
    BY <2>6, GrowsIssued
  <2>8. MemInv' /\ RDescInv'
    BY <1>8, <2>7 DEF Inv, MemInv, RDescInv, Unused
  <2>9. KDescInv'
    <3>1. ASSUME NEW r \in Slots, kdesc'[r].entries = <<>>, r \notin Filling'
          PROVE  kdesc'[r].seq = 1
      <4>1. r # s
        BY <2>1, <2>2, <3>1
      <4>2. kdesc'[r] = kdesc[r] /\ r \notin Filling
        BY <2>2, <2>4, <3>1, <4>1
      <4> QED BY <3>1, <4>2 DEF Inv, KDescInv
    <3>2. \A r \in Slots : kdesc'[r].seq >= 1
      BY <2>2, <2>5
    <3> QED BY <2>2, <3>1, <3>2 DEF KDescInv
  <2>10. f \in Runs' /\ f \in Frames
    <3>1. f = [tag |-> l.met, entries |-> sorted, i |-> 1, newstate |-> "SUCCEEDED"]
      BY DEF HelpFrame
    <3>2. ASSUME NEW w \in KTags, NEW e \in Seq(Entries) \ {<<>>}
          PROVE  LET x == [tag |-> w, entries |-> e, i |-> 1, newstate |-> "SUCCEEDED"]
                 IN  x \in Frames /\ x.tag = w /\ x.entries = e
      BY DEF Frames, States
    <3> HIDE DEF f
    <3>3. f \in Frames /\ f.tag = l.met /\ f.entries = sorted
      BY <1>3, <2>1, <3>1, <3>2
    <3> QED BY <1>3, <2>2, <2>4, <3>3 DEF Runs
  <2> HIDE DEF f
  <2>11. <<f>> \in Seq(Runs') /\ <<f>> \in Seq(Frames) /\ <<f>> # <<>>
    BY <2>10
  <2>12. /\ m \in Locals /\ m.help = <<f>> /\ m.snapshot = l.snapshot /\ m.met = l.met
         /\ m.fn = l.fn /\ m.addr = l.addr
    BY <1>1, <2>11 DEF Locals
  <2>13. Step(t, "HelpState", m)
    BY <1>8 DEF f
  <2> HIDE DEF m
  <2>14. Place(t, "HelpState", m, kdesc', rdesc')
    BY <1>1, <2>11, <2>12 DEF Place, Helping
  <2>15. LocalInv'
    BY <1>1, <2>3, <2>4, <2>6, <2>7, <2>11, <2>12, <2>13, <2>14, StepInv DEF Step
  <2> QED BY <2>8, <2>9, <2>15 DEF Inv
<1> QED BY <1>6, <1>7, <1>8 DEF Transaction

(* The call is over. *)
LEMMA ReturnInv ==
    ASSUME Inv, NEW t \in Threads, pc[t] = "Return", Return(t), UNCHANGED <<mem, kdesc, rdesc>>
    PROVE  Inv'
<1>1. Step(t, "idle", NoLocals)
  BY DEF Return
<1>2. /\ NoLocals \in Locals /\ NoLocals.help = <<>> /\ NoLocals.help \in Seq(Runs)
      /\ NoLocals.met = Value(0) /\ NoLocals.fn = "none" /\ NoLocals.snapshot = [seq |-> 0]
  BY EmptySeq DEF NoLocals, Locals, Value, Plain, States
<1>3. Value(0) \in Words
  BY DEF Words, Plain, Value
<1>4. Place(t, "idle", NoLocals, kdesc, rdesc)
  BY <1>2 DEF Place, Helping
<1>5. "idle" \in PCs \ Fillers
  BY DEF PCs, Fillers
<1> QED BY <1>1, <1>2, <1>3, <1>4, <1>5, SameMem, QuietStep DEF Step

-----------------------------------------------------------------------------

(* Before the first call no tag is about. *)
LEMMA InitInv == ASSUME Init PROVE Inv
<1>1. MemInv
  BY KCASAssumption DEF Init, MemInv, Words, Plain, Value
<1>2. KDescInv
  BY EmptySeq DEF Init, KDescInv, KDescs, States
<1>3. RDescInv
  BY DEF Init, RDescInv, Unused
<1>4. LocalInv
  <2>1. /\ NoLocals \in Locals /\ NoLocals.help \in Seq(Runs) /\ NoLocals.help = <<>>
        /\ NoLocals.met = Value(0) /\ NoLocals.fn = "none" /\ NoLocals.snapshot = [seq |-> 0]
    BY EmptySeq DEF NoLocals, Locals, Value, Plain, States
  <2>2. Value(0) \in Words
    BY DEF Words, Plain, Value
  <2>3. \A t \in Threads : Place(t, "idle", NoLocals, kdesc, rdesc)
    BY <2>1 DEF Place, Helping
  <2>4. "idle" \in PCs
    BY DEF PCs
  <2>5. pc = [t \in Threads |-> "idle"] /\ loc = [t \in Threads |-> NoLocals]
    BY DEF Init
  <2> HIDE DEF NoLocals
  <2> QED BY <2>1, <2>2, <2>3, <2>4, <2>5 DEF LocalInv
<1> QED BY <1>1, <1>2, <1>3, <1>4 DEF Inv

(* A step of any thread. *)
LEMMA NextInv == ASSUME DistinctSlots, Inv, [Next]_vars PROVE Inv'
<1>1. CASE UNCHANGED vars
  BY <1>1 DEF vars, Inv, MemInv, KDescInv, RDescInv, LocalInv, Words, Snapshots, Runs, IssuedK,
              IssuedR, Filling
<1>2. ASSUME NEW t \in Threads, (\E a \in Reads : Read(t, a)) \/ (\E r \in Requests[t] : Execute(t, r))
      PROVE  Inv'
  BY <1>2, CallInv
<1>3. ASSUME NEW t \in Threads, Work(t, loc[t]) PROVE Inv'
  <2>1. ASSUME UNCHANGED <<mem, kdesc, rdesc>>,
               \/ At(t, "Load")          /\ Load(t, loc[t])
               \/ At(t, "KcasSnapshot")  /\ KcasSnapshot(t, loc[t])
               \/ At(t, "HelpState")     /\ HelpState(t, loc[t])
               \/ At(t, "RdcssSnapshot") /\ RdcssSnapshot(t, loc[t])
               \/ At(t, "RdcssRead")     /\ RdcssRead(t, loc[t])
               \/ At(t, "Outcome")       /\ Outcome(t, loc[t])
               \/ At(t, "Return")        /\ Return(t)
        PROVE  Inv'
    BY <2>1, LoadInv, KcasSnapshotInv, HelpStateInv, RdcssSnapshotInv, RdcssReadInv, OutcomeInv,
       ReturnInv DEF At
  <2>2. CASE \/ At(t, "Start")       /\ Start(t, loc[t])
             \/ At(t, "Add")         /\ Add(t, loc[t])
             \/ At(t, "Initialized") /\ Initialized(t, loc[t])
             \/ At(t, "Transaction") /\ Transaction(t, loc[t])
    BY <2>2, StartInv, AddInv, InitializedInv, TransactionInv DEF At
  <2>3. CASE \/ At(t, "Prepare")     /\ Prepare(t, loc[t])
             \/ At(t, "RdcssCAS")    /\ RdcssCAS(t, loc[t])
             \/ At(t, "RdcssFinish") /\ RdcssFinish(t, loc[t])
             \/ At(t, "Decide")      /\ Decide(t, loc[t])
             \/ At(t, "Replace")     /\ Replace(t, loc[t])
    BY <2>3, PrepareInv, RdcssCASInv, RdcssFinishInv, DecideInv, ReplaceInv DEF At
  <2> QED BY <1>3, <2>1, <2>2, <2>3 DEF Work
<1> QED BY <1>1, <1>2, <1>3 DEF Next

(* With a descriptor for each thread, what a thread works from under a tag *)
(* is what the descriptor holds, as long as that has the tag's number      *)
(* (kcas_reuse_htm_impl.h:135-160, 341-347, 381-388, 499).                 *)
THEOREM CopiesHold == ASSUME DistinctSlots PROVE Spec => []CopiesAgree
<1>1. Inv => CopiesAgree
  <2> SUFFICES ASSUME Inv, NEW t \in Threads
               PROVE  /\ \A i \in DOMAIN loc[t].help :
                           LET f == loc[t].help[i]
                           IN  kdesc[f.tag.slot].seq = f.tag.seq =>
                                   f.entries = kdesc[f.tag.slot].entries
                      /\ pc[t] \in {"RdcssRead", "RdcssFinish"}
                           /\ rdesc[loc[t].met.slot].seq = loc[t].met.seq =>
                           loc[t].snapshot = rdesc[loc[t].met.slot]
    BY DEF CopiesAgree
  <2>1. loc[t].help \in Seq(Runs) /\ Place(t, pc[t], loc[t], kdesc, rdesc)
    BY Here
  <2>2. \A i \in DOMAIN loc[t].help : loc[t].help[i] \in Runs
    BY <2>1, LenProperties, ElementOfSeq
  <2> QED BY <2>1, <2>2 DEF Runs, Place
<1>2. Init => Inv
  BY InitInv
<1>3. Inv /\ [Next]_vars => Inv'
  BY NextInv
<1> QED BY <1>1, <1>2, <1>3, PTL DEF Spec

-----------------------------------------------------------------------------
(* The order in which words are tagged.  The runs have two words, where    *)
(* that is a matter of one word before the other; here an update has any   *)
(* number of them.                                                         *)

Undecided(w) == StateOf(w) = "UNDECIDED"

EntriesOf(w) == kdesc[w.slot].entries

Ordered(es) == \A i, j \in DOMAIN es : i < j => es[i].addr <= es[j].addr

(* The words before the n-th of an undecided run of help are tagged.       *)
TaggedBelow(f, n) ==
    Undecided(f.tag) =>
        /\ Ordered(f.entries)
        /\ \A j \in DOMAIN f.entries : j < n => mem[f.entries[j].addr] = f.tag

RunInv(f) == f.newstate # "UNDECIDED" /\ TaggedBelow(f, f.i)

RunsInv(h) == \A k \in DOMAIN h : RunInv(h[k])

(* A thread is finishing an rdcss of its own ...                           *)
Installs(p, l) == p \in {"RdcssRead", "RdcssFinish"} /\ l.then = "Prepare"

(* ... or its own is filled and has still to be tried.                     *)
Intends(p, l) ==
    \/ p = "RdcssCAS"
    \/ p = "RdcssSnapshot" /\ l.help # <<>>
    \/ p \in {"RdcssRead", "RdcssFinish"} /\ l.then = "RdcssCAS"

(* What holds of the words and descriptors for the sake of a thread t at p *)
(* with the locals l.                                                      *)
Course(t, p, l) ==
    /\ l.help # <<>> =>
         /\ RunsInv(Front(l.help))
         /\ ~Installs(p, l) => RunInv(Top(l))
    /\ p = "KcasSnapshot" /\ Undecided(l.met) =>
         Ordered(EntriesOf(l.met)) /\ mem[EntriesOf(l.met)[1].addr] = l.met
    /\ Installs(p, l) =>
         /\ Top(l).newstate # "UNDECIDED" /\ TaggedBelow(Top(l), Top(l).i - 1)
         /\ l.met = RTag(Slot[t], rdesc[Slot[t]].seq)
         /\ l.snapshot.tag = Top(l).tag
         /\ Top(l).i - 1 \in DOMAIN Top(l).entries
         /\ l.snapshot.addr = Top(l).entries[Top(l).i - 1].addr
         /\ Undecided(l.snapshot.tag) => mem[l.snapshot.addr] \in {l.met, l.snapshot.tag}
    /\ Intends(p, l) =>
         /\ Top(l).i \in DOMAIN Top(l).entries
         /\ rdesc[Slot[t]].tag = Top(l).tag
         /\ rdesc[Slot[t]].addr = Top(l).entries[Top(l).i].addr
    /\ p = "RdcssFinish" /\ l.v # "UNDECIDED" => ~Undecided(l.snapshot.tag)
    /\ p \in {"Outcome", "Replace"} => ~Undecided(Top(l).tag)
    /\ p = "Decide" /\ Top(l).newstate = "SUCCEEDED" => Top(l).i > Len(Top(l).entries)

(* The words up to the one at a are under the tag w.                       *)
PrefixTagged(w, a) ==
    /\ Ordered(EntriesOf(w))
    /\ \E i \in DOMAIN EntriesOf(w) :
         /\ EntriesOf(w)[i].addr = a
         /\ \A j \in 1 .. i : mem[EntriesOf(w)[j].addr] = w

PrefixInv == \A a \in Addrs, w \in KTags : mem[a] = w /\ Undecided(w) => PrefixTagged(w, a)

(* A thread t at p with the locals l is to finish the rdcss at a.          *)
Attends(t, p, l, a) ==
    Installs(p, l) /\ l.met = mem[a] /\ l.snapshot.addr = a /\ Slot[t] = mem[a].slot

AttendedInv ==
    \A a \in Addrs : mem[a].tag = "rdcss" => \E t \in Threads : Attends(t, pc[t], loc[t], a)

OrderInv == PrefixInv /\ AttendedInv /\ \A t \in Threads : Course(t, pc[t], loc[t])

-----------------------------------------------------------------------------

(* Without its last run a stack is what it was before that was pushed.     *)
LEMMA FrontPush ==
    ASSUME NEW S, NEW h \in Seq(S), NEW f \in S
    PROVE  Front(Append(h, f)) = h
<1>1. Append(h, f) \in Seq(S) /\ Len(Append(h, f)) = Len(h) + 1 /\ Len(h) \in Nat
      /\ \A i \in 1 .. Len(h) : Append(h, f)[i] = h[i]
  BY AppendProperties
<1>2. SubSeq(Append(h, f), 1, Len(h)) = h
  <2> DEFINE g == SubSeq(Append(h, f), 1, Len(h))
  <2>1. \A i \in 1 .. Len(h) : Append(h, f)[i] \in S
    BY <1>1, ElementOfSeq
  <2>2. g \in Seq(S) /\ Len(g) = Len(h) /\ \A i \in 1 .. Len(h) : g[i] = Append(h, f)[i]
    BY <1>1, <2>1, SubSeqProperties
  <2> QED BY <1>1, <2>2, SeqEqual
<1> QED BY <1>1, <1>2 DEF Front

(* The runs of a stack are the last and the others. *)
LEMMA Split ==
    ASSUME NEW S, NEW h \in Seq(S), h # <<>>
    PROVE  RunsInv(h) <=> RunsInv(Front(h)) /\ RunInv(Last(h))
<1>1. Len(h) \in Nat \ {0} /\ DOMAIN h = 1 .. Len(h)
  BY EmptySeq, LenProperties
<1>2. \A i \in 1 .. Len(h) - 1 : h[i] \in S
  BY <1>1, ElementOfSeq
<1>3. /\ DOMAIN Front(h) = 1 .. Len(h) - 1
      /\ \A i \in 1 .. Len(h) - 1 : Front(h)[i] = h[i]
  <2>1. PICK n \in Nat : n + 1 = Len(h)
    <3>1. \A k \in Nat \ {0} : k - 1 \in Nat /\ k - 1 + 1 = k
      OBVIOUS
    <3> QED BY <1>1, <3>1
  <2>2. Len(h) - 1 = n /\ \A i \in 1 .. n : h[i] \in S
    BY <1>2, <2>1
  <2>3. Front(h) = SubSeq(h, 1, n)
    BY <2>2 DEF Front
  <2>4. /\ Front(h) \in Seq(S)
        /\ Len(Front(h)) = IF 1 <= n THEN n - 1 + 1 ELSE 0
        /\ \A i \in 1 .. n - 1 + 1 : Front(h)[i] = h[1 + i - 1]
    BY <2>2, <2>3, SubSeqProperties
  <2>5. Len(Front(h)) = n /\ \A i \in 1 .. n : Front(h)[i] = h[i]
    BY <2>4
  <2> QED BY <2>2, <2>4, <2>5, LenProperties
<1>4. RunsInv(h) => RunsInv(Front(h)) /\ RunInv(h[Len(h)])
  <2>1. Len(h) \in 1 .. Len(h) /\ \A i \in 1 .. Len(h) - 1 : i \in 1 .. Len(h)
    BY <1>1
  <2> HIDE DEF RunInv
  <2> QED BY <1>1, <1>3, <2>1 DEF RunsInv
<1>5. RunsInv(Front(h)) /\ RunInv(h[Len(h)]) => RunsInv(h)
  <2>1. \A n \in Nat \ {0} : \A i \in 1 .. n : i \in 1 .. n - 1 \/ i = n
    OBVIOUS
  <2>2. \A i \in 1 .. Len(h) : i \in 1 .. Len(h) - 1 \/ i = Len(h)
    BY <1>1, <2>1
  <2> HIDE DEF RunInv
  <2> QED BY <1>1, <1>3, <2>2 DEF RunsInv
<1> QED BY <1>4, <1>5 DEF Last

(* The entries behind a tag, as long as they are those of its update.      *)
LEMMA EntriesBehind ==
    ASSUME Inv, NEW w \in IssuedK, kdesc[w.slot].seq = w.seq
    PROVE  /\ EntriesOf(w) \in Seq(Entries) /\ EntriesOf(w) # <<>>
           /\ 1 \in DOMAIN EntriesOf(w)
           /\ \A i \in DOMAIN EntriesOf(w) : EntriesOf(w)[i].addr \in Addrs
           /\ w.slot \in Slots /\ w.slot \notin Filling
<1>1. /\ w.slot \in Slots /\ w.slot \notin Filling /\ 1 < w.seq /\ w.seq \in Nat
  BY DEF IssuedK, KTags
<1>2. EntriesOf(w) \in Seq(Entries) /\ EntriesOf(w) # <<>>
  BY <1>1 DEF Inv, KDescInv, KDescs, EntriesOf
<1>3. \A i \in DOMAIN EntriesOf(w) : EntriesOf(w)[i] \in Entries
  BY <1>2, LenProperties, ElementOfSeq
<1>4. 1 \in DOMAIN EntriesOf(w)
  <2>1. Len(EntriesOf(w)) \in Nat \ {0} /\ DOMAIN EntriesOf(w) = 1 .. Len(EntriesOf(w))
    BY <1>2, EmptySeq, LenProperties
  <2>2. \A n \in Nat \ {0} : 1 \in 1 .. n
    OBVIOUS
  <2> QED BY <2>1, <2>2
<1> QED BY <1>1, <1>2, <1>3, <1>4 DEF Entries

(* A run of help has words to go through, and those of the update it is    *)
(* for.                                                                    *)
LEMMA RunEntries ==
    ASSUME NEW f \in Runs
    PROVE  /\ f.tag \in IssuedK /\ f.tag \in KTags /\ f.tag.tag = "kcas" /\ f \in Frames
           /\ f.entries \in Seq(Entries) /\ f.entries # <<>> /\ f.i \in Nat \ {0}
           /\ \A i \in DOMAIN f.entries : f.entries[i] \in Entries /\ f.entries[i].addr \in Addrs
           /\ Undecided(f.tag) => f.entries = EntriesOf(f.tag)
<1>1. /\ f.tag \in IssuedK /\ f.tag \in KTags /\ f \in Frames
      /\ f.entries \in Seq(Entries) /\ f.entries # <<>> /\ f.i \in Nat \ {0}
  BY DEF Runs, Frames, IssuedK
<1>2. \A i \in DOMAIN f.entries : f.entries[i] \in Entries
  BY <1>1, LenProperties, ElementOfSeq
<1>3. Undecided(f.tag) => f.entries = EntriesOf(f.tag)
  BY DEF Runs, Undecided, StateOf, EntriesOf
<1> QED BY <1>1, <1>2, <1>3 DEF Entries, KTags

LEMMA UndecidedSeq == ASSUME NEW w, Undecided(w) PROVE kdesc[w.slot].seq = w.seq
BY DEF Undecided, StateOf

(* The run at the top of a stack. *)
LEMMA TopRun ==
    ASSUME NEW l, l.help \in Seq(Runs), l.help # <<>>
    PROVE  Top(l) \in Runs /\ Top(l) = Last(l.help) /\ Front(l.help) \in Seq(Runs)
<1>1. Len(l.help) \in Nat \ {0}
  BY EmptySeq
<1>2. Last(l.help) \in Runs
  BY <1>1, ElementOfSeq DEF Last
<1> QED BY <1>2, Stack DEF Top

(* What no step may take away from the other threads: an update that was   *)
(* decided stays so and an undecided one keeps its entries, its tag stays  *)
(* where it is, their descriptors are theirs, and so is what they have put *)
(* in a word with rdcss, up to the tag this is for.                        *)
SteadyUpdates ==
    \A w \in IssuedK : Undecided(w)' => Undecided(w) /\ EntriesOf(w)' = EntriesOf(w)

Steady(t) ==
    /\ SteadyUpdates
    /\ \A a \in Addrs, w \in IssuedK : mem[a] = w /\ Undecided(w)' => mem'[a] = w
    /\ \A u \in Threads \ {t} : rdesc'[Slot[u]] = rdesc[Slot[u]]
    /\ \A u \in Threads \ {t} : Installs(pc[u], loc[u]) =>
         \A w \in IssuedK : loc[u].snapshot.tag = w /\ Undecided(w)' =>
             mem'[loc[u].snapshot.addr] \in {loc[u].met, w}

(* What was tagged below a word stays so. *)
LEMMA SteadyRun ==
    ASSUME Inv, NEW t \in Threads, Steady(t), NEW f \in Runs, NEW n, TaggedBelow(f, n)
    PROVE  TaggedBelow(f, n)'
<1> SUFFICES ASSUME Undecided(f.tag)'
             PROVE  /\ Ordered(f.entries)
                    /\ \A j \in DOMAIN f.entries : j < n => mem'[f.entries[j].addr] = f.tag
  BY DEF TaggedBelow
<1>1. f.tag \in IssuedK /\ \A i \in DOMAIN f.entries : f.entries[i].addr \in Addrs
  BY RunEntries
<1>2. Undecided(f.tag)
  BY <1>1 DEF Steady, SteadyUpdates
<1>3. /\ Ordered(f.entries)
      /\ \A j \in DOMAIN f.entries : j < n => mem[f.entries[j].addr] = f.tag
  BY <1>2 DEF TaggedBelow
<1>4. ASSUME NEW j \in DOMAIN f.entries, j < n PROVE mem'[f.entries[j].addr] = f.tag
  <2>1. mem[f.entries[j].addr] = f.tag /\ f.entries[j].addr \in Addrs
    BY <1>1, <1>3, <1>4
  <2> QED BY <1>1, <2>1 DEF Steady
<1> QED BY <1>3, <1>4

LEMMA SteadyRuns ==
    ASSUME Inv, NEW t \in Threads, Steady(t), NEW h \in Seq(Runs), RunsInv(h)
    PROVE  RunsInv(h)'
<1> SUFFICES ASSUME NEW k \in DOMAIN h PROVE RunInv(h[k])'
  BY DEF RunsInv
<1>1. h[k] \in Runs
  BY LenProperties, ElementOfSeq
<1>2. PICK f, n : f \in Runs /\ f = h[k] /\ n = f.i
  BY <1>1
<1>3. RunInv(f)
  BY <1>2 DEF RunsInv
<1>4. TaggedBelow(f, n)'
  BY <1>2, <1>3, SteadyRun DEF RunInv
<1> QED BY <1>2, <1>3, <1>4 DEF RunInv, TaggedBelow

LEMMA SteadyTop ==
    ASSUME Inv, NEW t \in Threads, Steady(t), NEW f \in Runs, RunInv(f)
    PROVE  RunInv(f)'
<1>1. PICK n : n = f.i
  OBVIOUS
<1>2. TaggedBelow(f, n)'
  BY <1>1, SteadyRun DEF RunInv
<1> QED BY <1>1, <1>2 DEF RunInv, TaggedBelow

(* A copy of a descriptor is not what a thread has before it makes one. *)
LEMMA CopyIsUsed == \A d \in RDescs : d # [seq |-> 0]
BY DEF RDescs

(* So what held for the sake of another thread still does. *)
LEMMA SteadyCourse ==
    ASSUME Inv, NEW t \in Threads, Steady(t), NEW u \in Threads \ {t},
           NEW p, p = pc[u], NEW l, l = loc[u], Course(u, p, l)
    PROVE  Course(u, p, l)'
<1>1. /\ l \in Locals /\ l.help \in Seq(Runs) /\ l.snapshot \in {[seq |-> 0]} \cup Snapshots
      /\ p # "Transaction" => l.met \in Words
      /\ Place(u, p, l, kdesc, rdesc)
  BY Here
<1>2. ASSUME NEW w \in IssuedK, ~Undecided(w) PROVE ~Undecided(w)'
  BY <1>2 DEF Steady, SteadyUpdates
<1>3. ASSUME l.help # <<>> PROVE Top(l) \in Runs /\ Front(l.help) \in Seq(Runs)
  BY <1>1, <1>3, TopRun
<1>4. l.help # <<>> => RunsInv(Front(l.help))' /\ (~Installs(p, l) => RunInv(Top(l))')
  <2> SUFFICES ASSUME l.help # <<>>
               PROVE  RunsInv(Front(l.help))' /\ (~Installs(p, l) => RunInv(Top(l))')
    OBVIOUS
  <2>1. PICK h, f : h = Front(l.help) /\ f = Top(l)
    OBVIOUS
  <2>2. h \in Seq(Runs) /\ f \in Runs /\ RunsInv(h) /\ (~Installs(p, l) => RunInv(f))
    BY <1>3, <2>1 DEF Course
  <2>3. RunsInv(h)' /\ (~Installs(p, l) => RunInv(f)')
    BY <2>2, SteadyRuns, SteadyTop
  <2> QED BY <2>1, <2>3
<1>5. p = "KcasSnapshot" /\ Undecided(l.met)' =>
        Ordered(EntriesOf(l.met))' /\ (mem[EntriesOf(l.met)[1].addr] = l.met)'
  <2> SUFFICES ASSUME p = "KcasSnapshot", Undecided(l.met)'
               PROVE  Ordered(EntriesOf(l.met)') /\ mem'[EntriesOf(l.met)'[1].addr] = l.met
    BY DEF Ordered
  <2>1. l.met \in IssuedK
    BY <1>1 DEF Place, Words, Plain, IssuedR, RTags
  <2>2. Undecided(l.met) /\ EntriesOf(l.met)' = EntriesOf(l.met)
    BY <2>1 DEF Steady, SteadyUpdates
  <2>3. Ordered(EntriesOf(l.met)) /\ mem[EntriesOf(l.met)[1].addr] = l.met
    BY <2>2 DEF Course
  <2>4. EntriesOf(l.met)[1].addr \in Addrs
    BY <2>1, <2>2, UndecidedSeq, EntriesBehind
  <2>5. mem'[EntriesOf(l.met)[1].addr] = l.met
    BY <2>1, <2>3, <2>4 DEF Steady
  <2> QED BY <2>2, <2>3, <2>5
<1>6. rdesc'[Slot[u]] = rdesc[Slot[u]]
  BY DEF Steady
<1>7. ASSUME Installs(p, l)
      PROVE  /\ l.help # <<>> /\ l.snapshot \in Snapshots
             /\ Top(l).newstate # "UNDECIDED" /\ TaggedBelow(Top(l), Top(l).i - 1)'
             /\ Undecided(l.snapshot.tag)' => mem'[l.snapshot.addr] \in {l.met, l.snapshot.tag}
  <2>1. l.help # <<>> /\ l.snapshot \in RDescs
    BY <1>1, <1>7 DEF Place, Installs
  <2>2. l.snapshot \in Snapshots
    <3>1. l.snapshot # [seq |-> 0]
      BY <2>1, CopyIsUsed
    <3> QED BY <1>1, <3>1
  <2>3. PICK f, n : f = Top(l) /\ n = f.i - 1
    OBVIOUS
  <2>4. f \in Runs /\ f.newstate # "UNDECIDED" /\ TaggedBelow(f, n)
    BY <1>3, <1>7, <2>1, <2>3 DEF Course
  <2>5. TaggedBelow(f, n)'
    BY <2>4, SteadyRun
  <2>6. Undecided(l.snapshot.tag)' => mem'[l.snapshot.addr] \in {l.met, l.snapshot.tag}
    BY <1>7, <2>2 DEF Steady, Snapshots
  <2> QED BY <2>1, <2>2, <2>3, <2>4, <2>5, <2>6
<1>8. Installs(p, l) =>
         /\ Top(l).newstate # "UNDECIDED" /\ TaggedBelow(Top(l), Top(l).i - 1)'
         /\ l.met = RTag(Slot[u], rdesc'[Slot[u]].seq)
         /\ l.snapshot.tag = Top(l).tag
         /\ Top(l).i - 1 \in DOMAIN Top(l).entries
         /\ l.snapshot.addr = Top(l).entries[Top(l).i - 1].addr
         /\ Undecided(l.snapshot.tag)' => mem'[l.snapshot.addr] \in {l.met, l.snapshot.tag}
  BY <1>6, <1>7 DEF Course
<1>9. Intends(p, l) =>
         /\ Top(l).i \in DOMAIN Top(l).entries
         /\ rdesc'[Slot[u]].tag = Top(l).tag
         /\ rdesc'[Slot[u]].addr = Top(l).entries[Top(l).i].addr
  BY <1>6 DEF Course
<1>10. p = "RdcssFinish" /\ l.v # "UNDECIDED" => ~Undecided(l.snapshot.tag)'
  <2> SUFFICES ASSUME p = "RdcssFinish", l.v # "UNDECIDED" PROVE ~Undecided(l.snapshot.tag)'
    OBVIOUS
  <2>1. l.snapshot \in RDescs
    BY <1>1 DEF Place
  <2>2. l.snapshot.tag \in IssuedK
    BY <1>1, <2>1 DEF RDescs, Snapshots
  <2> QED BY <1>2, <2>2 DEF Course
<1>11. p \in {"Outcome", "Replace"} => ~Undecided(Top(l).tag)'
  <2> SUFFICES ASSUME p \in {"Outcome", "Replace"} PROVE ~Undecided(Top(l).tag)'
    OBVIOUS
  <2>1. l.help # <<>>
    BY <1>1 DEF Place, Helping
  <2>2. Top(l).tag \in IssuedK
    BY <1>3, <2>1, RunEntries
  <2> QED BY <1>2, <2>2 DEF Course
<1>12. p = "Decide" /\ Top(l).newstate = "SUCCEEDED" => Top(l).i > Len(Top(l).entries)
  BY DEF Course
<1> HIDE DEF Installs, Intends
<1> QED BY <1>4, <1>5, <1>8, <1>9, <1>10, <1>11, <1>12 DEF Course, Installs, Intends

(* A step of t keeps the invariant if it is steady, what it tags and what  *)
(* it puts in a word with rdcss is right, and t goes on as it should.      *)
LEMMA OrderStep ==
    ASSUME Inv, OrderInv, NEW t \in Threads, Steady(t), NEW to, NEW m,
           pc' = [pc EXCEPT ![t] = to], loc' = [loc EXCEPT ![t] = m],
           mem' \in [Addrs -> Words'],
           \A a \in Addrs, w \in KTags :
               mem'[a] = w /\ mem[a] # w /\ Undecided(w)' => PrefixTagged(w, a)',
           \A a \in Addrs : mem'[a].tag = "rdcss" =>
               \/ mem'[a] = mem[a] /\ mem[a].slot # Slot[t]
               \/ Attends(t, to, m, a)',
           Course(t, to, m)'
    PROVE  OrderInv'
<1>1. /\ pc'[t] = to /\ loc'[t] = m
      /\ \A u \in Threads \ {t} : pc'[u] = pc[u] /\ loc'[u] = loc[u]
  BY Here DEF Inv, LocalInv
<1>2. PrefixInv'
  <2> SUFFICES ASSUME NEW a \in Addrs, NEW w \in KTags, mem'[a] = w, Undecided(w)'
               PROVE  PrefixTagged(w, a)'
    BY DEF PrefixInv
  <2>1. CASE mem[a] # w
    BY <2>1
  <2>2. CASE mem[a] = w
    <3>1. w \in IssuedK
      BY <2>2 DEF Inv, MemInv, Words, Plain, IssuedR, RTags, KTags
    <3>2. Undecided(w) /\ EntriesOf(w)' = EntriesOf(w)
      BY <3>1 DEF Steady, SteadyUpdates
    <3>3. PrefixTagged(w, a)
      BY <2>2, <3>2 DEF OrderInv, PrefixInv
    <3>4. PICK i \in DOMAIN EntriesOf(w) :
              /\ EntriesOf(w)[i].addr = a
              /\ \A j \in 1 .. i : mem[EntriesOf(w)[j].addr] = w
      BY <3>3 DEF PrefixTagged
    <3>5. /\ \A j \in DOMAIN EntriesOf(w) : EntriesOf(w)[j].addr \in Addrs
          /\ EntriesOf(w) \in Seq(Entries)
      BY <3>1, <3>2, UndecidedSeq, EntriesBehind
    <3>6. 1 .. i \subseteq DOMAIN EntriesOf(w)
      <4>1. Len(EntriesOf(w)) \in Nat /\ DOMAIN EntriesOf(w) = 1 .. Len(EntriesOf(w))
        BY <3>5, LenProperties
      <4>2. \A n \in Nat : \A k \in 1 .. n : 1 .. k \subseteq 1 .. n
        OBVIOUS
      <4> QED BY <4>1, <4>2
    <3>7. \A j \in 1 .. i : mem'[EntriesOf(w)[j].addr] = w
      BY <3>1, <3>4, <3>5, <3>6 DEF Steady
    <3>8. Ordered(EntriesOf(w))
      BY <3>3 DEF PrefixTagged
    <3> HIDE DEF EntriesOf
    <3> QED BY <3>2, <3>4, <3>7, <3>8 DEF PrefixTagged
  <2> QED BY <2>1, <2>2
<1>3. AttendedInv'
  <2> SUFFICES ASSUME NEW a \in Addrs, mem'[a].tag = "rdcss"
               PROVE  \E u \in Threads : /\ Installs(pc'[u], loc'[u]) /\ loc'[u].met = mem'[a]
                                         /\ loc'[u].snapshot.addr = a /\ Slot[u] = mem'[a].slot
    BY DEF AttendedInv, Attends, Installs
  <2>1. CASE Attends(t, to, m, a)'
    BY <1>1, <2>1 DEF Attends, Installs
  <2>2. CASE mem'[a] = mem[a] /\ mem[a].slot # Slot[t]
    <3>1. PICK u \in Threads : Attends(u, pc[u], loc[u], a)
      BY <2>2 DEF OrderInv, AttendedInv
    <3>2. u # t
      BY <2>2, <3>1 DEF Attends
    <3> QED BY <1>1, <2>2, <3>1, <3>2 DEF Attends, Installs
  <2> QED BY <2>1, <2>2
<1>4. ASSUME NEW u \in Threads PROVE Course(u, pc[u], loc[u])'
  <2>1. CASE u = t
    BY <1>1, <2>1
  <2>2. CASE u # t
    <3>1. PICK p, l : p = pc[u] /\ l = loc[u]
      OBVIOUS
    <3>2. Course(u, p, l)
      BY <3>1 DEF OrderInv
    <3>3. Course(u, p, l)'
      BY <2>2, <3>1, <3>2, SteadyCourse
    <3> QED BY <1>1, <2>2, <3>1, <3>3
  <2> QED BY <2>1, <2>2
<1> QED BY <1>2, <1>3, <1>4 DEF OrderInv

LEMMA SameUpdates == ASSUME UNCHANGED kdesc PROVE SteadyUpdates
BY DEF SteadyUpdates, Undecided, StateOf, EntriesOf

(* A step that leaves the words alone is steady if it is to the updates.   *)
LEMMA SteadyWords ==
    ASSUME Inv, OrderInv, NEW t \in Threads, UNCHANGED mem, SteadyUpdates,
           \A u \in Threads \ {t} : rdesc'[Slot[u]] = rdesc[Slot[u]]
    PROVE  Steady(t)
<1>1. ASSUME NEW u \in Threads \ {t}, Installs(pc[u], loc[u]),
             NEW w \in IssuedK, loc[u].snapshot.tag = w, Undecided(w)'
      PROVE  mem'[loc[u].snapshot.addr] \in {loc[u].met, w}
  <2>1. Undecided(w)
    BY <1>1 DEF SteadyUpdates
  <2>2. Course(u, pc[u], loc[u])
    BY DEF OrderInv
  <2>3. mem[loc[u].snapshot.addr] \in {loc[u].met, w}
    BY <1>1, <2>1, <2>2 DEF Course
  <2> QED BY <2>3
<1> QED BY <1>1 DEF Steady

(* The word that a thread finishes with rdcss is the only one with its     *)
(* rdcss tag.                                                              *)
LEMMA NotMine ==
    ASSUME DistinctSlots, OrderInv, NEW t \in Threads,
           NEW a \in Addrs, mem[a].tag = "rdcss", mem[a].slot = Slot[t]
    PROVE  Attends(t, pc[t], loc[t], a)
<1>1. PICK u \in Threads : Attends(u, pc[u], loc[u], a)
  BY DEF OrderInv, AttendedInv
<1>2. u = t
  BY <1>1 DEF Attends, DistinctSlots
<1> QED BY <1>1, <1>2

(* A step of a thread that is not finishing an rdcss, with the words as    *)
(* they were.                                                              *)
LEMMA OrderQuiet ==
    ASSUME DistinctSlots, Inv, Inv', OrderInv, NEW t \in Threads,
           ~Installs(pc[t], loc[t]), UNCHANGED mem, Steady(t), NEW to, NEW m,
           pc' = [pc EXCEPT ![t] = to], loc' = [loc EXCEPT ![t] = m], Course(t, to, m)'
    PROVE  OrderInv'
<1>1. \A a \in Addrs : mem'[a].tag = "rdcss" => mem'[a] = mem[a] /\ mem[a].slot # Slot[t]
  BY NotMine DEF Attends
<1>2. mem' \in [Addrs -> Words']
  BY DEF Inv, MemInv
<1>3. \A a \in Addrs, w \in KTags : ~(mem'[a] = w /\ mem[a] # w)
  OBVIOUS
<1> HIDE DEF Inv, OrderInv, Installs, Steady, Course
<1> QED BY <1>1, <1>2, <1>3, OrderStep

(* What a thread has got so far is there for it to go on with. *)
LEMMA Carry ==
    ASSUME Inv, OrderInv, NEW t \in Threads, Steady(t), NEW l, l = loc[t], ~Installs(pc[t], l)
    PROVE  /\ RunsInv(l.help) /\ RunsInv(l.help)'
           /\ l.help # <<>> => RunsInv(Front(l.help))' /\ RunInv(Top(l))'
<1>1. l.help \in Seq(Runs) /\ Course(t, pc[t], l)
  BY Here DEF OrderInv
<1>2. CASE l.help = <<>>
  BY <1>2 DEF RunsInv
<1>3. CASE l.help # <<>>
  <2>1. PICK h, f, g : h = Front(l.help) /\ f = Top(l) /\ g = l.help
    OBVIOUS
  <2>2. h \in Seq(Runs) /\ f \in Runs /\ f = Last(l.help)
    BY <1>1, <1>3, <2>1, TopRun
  <2>3. RunsInv(h) /\ RunInv(f)
    BY <1>1, <1>3, <2>1 DEF Course
  <2>4. RunsInv(g)
    BY <1>1, <1>3, <2>1, <2>2, <2>3, Split
  <2>5. RunsInv(h)' /\ RunInv(f)' /\ RunsInv(g)'
    BY <1>1, <2>1, <2>2, <2>3, <2>4, SteadyRuns, SteadyTop
  <2> QED BY <2>1, <2>4, <2>5
<1> QED BY <1>2, <1>3

(* Where a thread has no more to rely on than its runs of help. *)
Plainly == PCs \ {"KcasSnapshot", "RdcssSnapshot", "RdcssRead", "RdcssFinish", "RdcssCAS",
                  "Outcome", "Replace", "Decide"}

LEMMA PlainCourse ==
    ASSUME NEW t \in Threads, NEW to \in Plainly, NEW m,
           m.help # <<>> => RunsInv(Front(m.help))' /\ RunInv(Top(m))'
    PROVE  Course(t, to, m)'
BY DEF Course, Plainly, Installs, Intends

(* A step to such a place that leaves all but the thread's own locals, and *)
(* those of its runs of help, as they were.                                *)
LEMMA GoOnOrder ==
    ASSUME DistinctSlots, Inv, Inv', OrderInv, NEW t \in Threads,
           ~Installs(pc[t], loc[t]), UNCHANGED <<mem, kdesc, rdesc>>, NEW to \in Plainly, NEW m,
           pc' = [pc EXCEPT ![t] = to], loc' = [loc EXCEPT ![t] = m],
           m.help \in {loc[t].help, <<>>}
    PROVE  OrderInv'
<1>1. Steady(t)
  BY SameUpdates, SteadyWords
<1>2. PICK l : l = loc[t]
  OBVIOUS
<1>3. m.help # <<>> => RunsInv(Front(m.help))' /\ RunInv(Top(m))'
  BY <1>1, <1>2, Carry DEF Top
<1>4. Course(t, to, m)'
  BY <1>3, PlainCourse
<1> QED BY <1>1, <1>4, OrderQuiet

LEMMA SameCourse ==
    ASSUME UNCHANGED <<mem, kdesc, rdesc>>, NEW t, NEW to, NEW m, Course(t, to, m)
    PROVE  Course(t, to, m)'
BY DEF Course, RunsInv, RunInv, TaggedBelow, Undecided, StateOf, EntriesOf, Ordered, Installs,
       Intends, Top

(* A step that leaves all but the thread's own locals as they were. *)
LEMMA LocalOrder ==
    ASSUME DistinctSlots, Inv, Inv', OrderInv, NEW t \in Threads,
           ~Installs(pc[t], loc[t]), UNCHANGED <<mem, kdesc, rdesc>>, NEW to, NEW m,
           pc' = [pc EXCEPT ![t] = to], loc' = [loc EXCEPT ![t] = m], Course(t, to, m)
    PROVE  OrderInv'
<1>1. Steady(t)
  BY SameUpdates, SteadyWords
<1> QED BY <1>1, SameCourse, OrderQuiet

(* The runs of help of a thread that is not finishing an rdcss. *)
LEMMA RunsHere ==
    ASSUME Inv, OrderInv, NEW t \in Threads, NEW l, l = loc[t], ~Installs(pc[t], l)
    PROVE  /\ RunsInv(l.help) /\ l.help \in Seq(Runs)
           /\ l.help # <<>> => /\ RunsInv(Front(l.help)) /\ RunInv(Top(l))
                               /\ Top(l) \in Runs /\ Front(l.help) \in Seq(Runs)
<1>1. l.help \in Seq(Runs) /\ Course(t, pc[t], l)
  BY Here DEF OrderInv
<1>2. CASE l.help = <<>>
  BY <1>1, <1>2 DEF RunsInv
<1>3. CASE l.help # <<>>
  <2>1. Top(l) \in Runs /\ Top(l) = Last(l.help) /\ Front(l.help) \in Seq(Runs)
    BY <1>1, <1>3, TopRun
  <2>2. RunsInv(Front(l.help)) /\ RunInv(Top(l))
    BY <1>1, <1>3 DEF Course
  <2>3. RunInv(Last(l.help))
    BY <2>2 DEF Top
  <2>4. RunsInv(l.help)
    BY <1>1, <1>3, <2>2, <2>3, Split
  <2> QED BY <1>1, <2>1, <2>2, <2>4
<1> QED BY <1>2, <1>3

(* Under a word with its tag an undecided update has its first word: the   *)
(* helper that meets the tag begins at the second.                         *)
LEMMA FirstTagged ==
    ASSUME Inv, OrderInv, NEW a \in Addrs, NEW w \in KTags, mem[a] = w, Undecided(w)
    PROVE  Ordered(EntriesOf(w)) /\ mem[EntriesOf(w)[1].addr] = w
<1>1. PrefixTagged(w, a)
  BY DEF OrderInv, PrefixInv
<1>2. w \in IssuedK
  BY DEF Inv, MemInv, Words, Plain, IssuedR, RTags, KTags
<1>3. EntriesOf(w) \in Seq(Entries)
  BY <1>2, UndecidedSeq, EntriesBehind
<1>4. PICK i \in DOMAIN EntriesOf(w) : \A j \in 1 .. i : mem[EntriesOf(w)[j].addr] = w
  BY <1>1 DEF PrefixTagged
<1>5. 1 \in 1 .. i
  <2>1. i \in 1 .. Len(EntriesOf(w))
    BY <1>3, <1>4, LenProperties
  <2> QED BY <2>1
<1> QED BY <1>1, <1>4, <1>5 DEF PrefixTagged

(* readPtr and execute begin. *)
LEMMA CallOrder ==
    ASSUME DistinctSlots, Inv, Inv', OrderInv, NEW t \in Threads,
           \/ \E a \in Reads : Read(t, a)
           \/ \E r \in Requests[t] : Execute(t, r)
    PROVE  OrderInv'
<1>1. ASSUME NEW m, m.help = <<>>, NEW to \in {"Load", "Start"},
             pc' = [pc EXCEPT ![t] = to], loc' = [loc EXCEPT ![t] = m],
             pc[t] = "idle", UNCHANGED <<mem, kdesc, rdesc>>
      PROVE  OrderInv'
  <2>1. to \in Plainly /\ ~Installs(pc[t], loc[t])
    BY <1>1 DEF Plainly, PCs, Installs
  <2> QED BY <1>1, <2>1, GoOnOrder
<1>2. ASSUME NEW a \in Reads, Read(t, a) PROVE OrderInv'
  <2>1. PICK m : m = [NoLocals EXCEPT !.fn = "read", !.addr = a]
    OBVIOUS
  <2>2. m.help = <<>> /\ m.fn = "read"
    BY <2>1 DEF NoLocals
  <2>3. Call(t, m)
    BY <1>2, <2>1 DEF Read
  <2> QED BY <1>1, <2>2, <2>3 DEF Call
<1>3. ASSUME NEW r \in Requests[t], Execute(t, r) PROVE OrderInv'
  <2>1. PICK m : m = [NoLocals EXCEPT !.fn = "execute", !.request = r, !.todo = r]
    OBVIOUS
  <2>2. m.help = <<>> /\ m.fn = "execute"
    BY <2>1 DEF NoLocals
  <2>3. Call(t, m)
    BY <1>3, <2>1 DEF Execute
  <2> QED BY <1>1, <2>2, <2>3 DEF Call
<1> QED BY <1>2, <1>3

(* A load of a word. *)
LEMMA LoadOrder ==
    ASSUME DistinctSlots, Inv, Inv', OrderInv, NEW t \in Threads, pc[t] = "Load",
           Load(t, loc[t]), UNCHANGED <<mem, kdesc, rdesc>>
    PROVE  OrderInv'
<1>1. PICK l, r : l = loc[t] /\ r = mem[l.addr]
  OBVIOUS
<1>2. /\ l \in Locals /\ l.help = <<>> /\ l.addr \in Addrs /\ r \in Words /\ r = mem[l.addr]
      /\ ~Installs(pc[t], loc[t])
  BY <1>1, Here DEF Place, Inv, MemInv, Installs
<1>3. CASE r.tag = "none" /\ Answer(t, l, r.v)
  <2>1. PICK m : m = [l EXCEPT !.result = r.v]
    OBVIOUS
  <2>2. m.help = l.help
    BY <1>2, <2>1 DEF Locals
  <2>3. Step(t, "Return", m)
    BY <1>3, <2>1 DEF Answer
  <2>4. "Return" \in Plainly
    BY DEF Plainly, PCs
  <2> QED BY <1>1, <1>2, <2>2, <2>3, <2>4, GoOnOrder DEF Step
<1>4. PICK m : m = [l EXCEPT !.met = r]
  OBVIOUS
<1>5. m.help = <<>> /\ m.met = r
  BY <1>2, <1>4 DEF Locals
<1>6. CASE r.tag = "rdcss" /\ Step(t, "RdcssSnapshot", m)
  <2>1. Course(t, "RdcssSnapshot", m)
    BY <1>5 DEF Course, Installs, Intends
  <2> QED BY <1>2, <1>6, <2>1, LocalOrder DEF Step
<1>7. CASE r.tag = "kcas" /\ Step(t, "KcasSnapshot", m)
  <2>1. r \in KTags
    BY <1>2, <1>7 DEF Words, Plain, IssuedK, IssuedR, RTags
  <2>2. Undecided(r) => Ordered(EntriesOf(r)) /\ mem[EntriesOf(r)[1].addr] = r
    BY <1>2, <2>1, FirstTagged
  <2>3. Course(t, "KcasSnapshot", m)
    BY <1>5, <2>2 DEF Course, Installs, Intends
  <2> QED BY <1>2, <1>7, <2>3, LocalOrder DEF Step
<1> QED BY <1>1, <1>3, <1>4, <1>6, <1>7 DEF Load

(* A thread meets the tag of an update, and helps it from its second word. *)
LEMMA KcasSnapshotOrder ==
    ASSUME DistinctSlots, Inv, Inv', OrderInv, NEW t \in Threads, pc[t] = "KcasSnapshot",
           KcasSnapshot(t, loc[t]), UNCHANGED <<mem, kdesc, rdesc>>
    PROVE  OrderInv'
<1>1. PICK l, d, f : l = loc[t] /\ d = kdesc[l.met.slot] /\ f = HelpFrame(l.met, d.entries, TRUE)
  OBVIOUS
<1>2. /\ l \in Locals /\ l.met \in Words /\ Place(t, "KcasSnapshot", l, kdesc, rdesc)
      /\ ~Installs(pc[t], loc[t]) /\ Course(t, "KcasSnapshot", l)
  BY <1>1, Here DEF Installs, OrderInv
<1>3. /\ RunsInv(l.help) /\ l.help \in Seq(Runs)
      /\ l.help # <<>> => RunsInv(Front(l.help)) /\ RunInv(Top(l))
  BY <1>1, <1>2, RunsHere
<1>4. CASE d.seq = l.met.seq
  <2>1. PICK m : m = [l EXCEPT !.help = Append(@, f)]
    OBVIOUS
  <2>2. Step(t, "HelpState", m)
    BY <1>1, <1>4, <2>1 DEF KcasSnapshot
  <2>3. f.tag = l.met /\ f.entries = d.entries /\ f.i = 2 /\ f.newstate = "SUCCEEDED"
    BY <1>1 DEF HelpFrame
  <2>4. m.help = Append(l.help, f)
    BY <1>2, <2>1 DEF Locals
  <2>5. Front(m.help) = l.help /\ Top(m) = f
    <3>1. PICK S : S = Runs \cup {f}
      OBVIOUS
    <3>2. l.help \in Seq(S) /\ f \in S
      BY <1>3, <3>1, SeqMonotonic
    <3> QED BY <2>4, <3>2, FrontPush, Push DEF Top
  <2>6. RunInv(f)
    <3> SUFFICES ASSUME Undecided(l.met)
                 PROVE  /\ Ordered(d.entries)
                        /\ \A j \in DOMAIN d.entries : j < 2 => mem[d.entries[j].addr] = l.met
      BY <2>3 DEF RunInv, TaggedBelow
    <3>1. Ordered(d.entries) /\ mem[d.entries[1].addr] = l.met
      BY <1>1, <1>2 DEF Course, EntriesOf
    <3>2. l.met \in IssuedK
      BY <1>2 DEF Place, Words, Plain, IssuedR, RTags
    <3>3. d.entries \in Seq(Entries)
      BY <1>1, <3>2, UndecidedSeq, EntriesBehind DEF EntriesOf
    <3>4. \A j \in DOMAIN d.entries : j < 2 => j = 1
      <4>1. Len(d.entries) \in Nat /\ DOMAIN d.entries = 1 .. Len(d.entries)
        BY <3>3, LenProperties
      <4> QED BY <4>1
    <3> QED BY <3>1, <3>4
  <2>7. Course(t, "HelpState", m)
    BY <1>3, <2>5, <2>6 DEF Course, Installs, Intends
  <2> QED BY <1>2, <2>2, <2>7, LocalOrder DEF Step
<1>5. CASE d.seq # l.met.seq
  <2>1. Step(t, AfterHelp(l), l)
    BY <1>1, <1>5 DEF KcasSnapshot
  <2>2. AfterHelp(l) \in Plainly
    BY DEF AfterHelp, Plainly, PCs, Helping
  <2> QED BY <1>1, <1>2, <2>1, <2>2, GoOnOrder DEF Step
<1> QED BY <1>4, <1>5

(* What is left of a stack when a run of help is over. *)
LEMMA Popped ==
    ASSUME Inv, OrderInv, NEW t \in Threads, Steady(t), ~Installs(pc[t], loc[t]),
           NEW h, h = Front(loc[t].help), loc[t].help # <<>>, h # <<>>
    PROVE  RunsInv(Front(h))' /\ RunInv(Last(h))'
<1>1. PICK l : l = loc[t]
  OBVIOUS
<1>2. RunsInv(h) /\ h \in Seq(Runs)
  BY <1>1, RunsHere
<1>3. RunsInv(Front(h)) /\ RunInv(Last(h))
  BY <1>2, Split
<1>4. PICK g, f : g = Front(h) /\ f = Last(h)
  OBVIOUS
<1>5. g \in Seq(Runs) /\ f \in Runs
  <2>1. Len(h) \in Nat \ {0}
    BY <1>2, EmptySeq
  <2>2. f \in Runs
    BY <1>2, <1>4, <2>1, ElementOfSeq DEF Last
  <2> QED BY <1>2, <1>4, <2>2, Stack
<1>6. RunsInv(g)' /\ RunInv(f)'
  BY <1>3, <1>4, <1>5, SteadyRuns, SteadyTop
<1> QED BY <1>4, <1>6

(* A run of help is over: where the thread goes on, and what it has for it.*)
LEMMA HelpReturnsCourse ==
    ASSUME Inv, OrderInv, NEW t \in Threads, pc[t] \in Helping, Steady(t), NEW r,
           HelpReturns(t, loc[t], r)
    PROVE  \E to, m : /\ pc' = [pc EXCEPT ![t] = to] /\ loc' = [loc EXCEPT ![t] = m]
                      /\ Course(t, to, m)'
<1>1. PICK l, h, rest : l = loc[t] /\ h = Front(l.help) /\ rest = [l EXCEPT !.help = h]
  OBVIOUS
<1>2. l \in Locals /\ l.help # <<>> /\ ~Installs(pc[t], loc[t])
  BY <1>1, Here DEF Place, Installs, Helping
<1>3. rest = [l EXCEPT !.help = Front(@)] /\ rest.help = h
  BY <1>1, <1>2 DEF Locals
<1>4. h # <<>> => RunsInv(Front(h))' /\ RunInv(Last(h))'
  BY <1>1, <1>2, Popped
<1>5. ASSUME NEW to \in Plainly, NEW m, Step(t, to, m), m.help = h
      PROVE  \E p, n : /\ pc' = [pc EXCEPT ![t] = p] /\ loc' = [loc EXCEPT ![t] = n]
                       /\ Course(t, p, n)'
  <2>1. Course(t, to, m)'
    BY <1>4, <1>5, PlainCourse DEF Top
  <2> QED BY <1>5, <2>1 DEF Step
<1>6. CASE rest.help = <<>> /\ l.fn = "execute"
  <2>1. PICK m : m = [rest EXCEPT !.result = r]
    OBVIOUS
  <2>2. m.help = h
    <3>1. rest = [l EXCEPT !.help = h]
      BY <1>1
    <3> QED BY <1>2, <2>1, <3>1 DEF Locals
  <2>3. Step(t, "Return", m)
    BY <1>1, <1>3, <1>6, <2>1 DEF HelpReturns, Answer
  <2>4. "Return" \in Plainly
    BY DEF Plainly, PCs
  <2> QED BY <1>5, <2>2, <2>3, <2>4
<1>7. CASE ~(rest.help = <<>> /\ l.fn = "execute")
  <2>1. Step(t, AfterHelp(rest), rest)
    BY <1>1, <1>3, <1>7 DEF HelpReturns
  <2>2. AfterHelp(rest) \in Plainly
    BY DEF AfterHelp, Plainly, PCs, Helping
  <2> QED BY <1>3, <1>5, <2>1, <2>2
<1> QED BY <1>6, <1>7

(* help looks at the state. *)
LEMMA HelpStateOrder ==
    ASSUME DistinctSlots, Inv, Inv', OrderInv, NEW t \in Threads, pc[t] = "HelpState",
           HelpState(t, loc[t]), UNCHANGED <<mem, kdesc, rdesc>>
    PROVE  OrderInv'
<1>1. PICK l : l = loc[t]
  OBVIOUS
<1>2. /\ ~Installs(pc[t], loc[t]) /\ Steady(t)
      /\ RunsInv(Front(l.help)) /\ RunInv(Top(l))
  BY <1>1, Here, SameUpdates, SteadyWords, RunsHere DEF Installs, Place, Helping
<1>3. CASE HelpReturns(t, l, FALSE)
  BY <1>1, <1>2, <1>3, HelpReturnsCourse, OrderQuiet DEF Helping
<1>4. CASE Step(t, "Prepare", l)
  BY <1>1, <1>2, <1>4, GoOnOrder DEF Step, Plainly, PCs, Helping
<1>5. CASE StateOf(Top(l).tag) # "UNDECIDED" /\ Step(t, "Outcome", l)
  <2>1. Course(t, "Outcome", l)
    BY <1>2, <1>5 DEF Course, Installs, Intends, Undecided
  <2> QED BY <1>2, <1>5, <2>1, LocalOrder DEF Step
<1> QED BY <1>1, <1>3, <1>4, <1>5 DEF HelpState

(* A snapshot of an rdcss descriptor that another thread has filled. *)
LEMMA RdcssSnapshotOrder ==
    ASSUME DistinctSlots, Inv, Inv', OrderInv, NEW t \in Threads, pc[t] = "RdcssSnapshot",
           RdcssSnapshot(t, loc[t]), UNCHANGED <<mem, kdesc, rdesc>>
    PROVE  OrderInv'
<1>1. PICK l, d : l = loc[t] /\ d = rdesc[l.met.slot]
  OBVIOUS
<1>2. /\ ~Installs(pc[t], loc[t]) /\ l \in Locals
      /\ Course(t, "RdcssSnapshot", l)
      /\ l.help # <<>> => RunsInv(Front(l.help)) /\ RunInv(Top(l))
  BY <1>1, Here, RunsHere DEF Installs, OrderInv
<1>3. CASE d.seq = l.met.seq
  <2>1. PICK m : m = [l EXCEPT !.snapshot = d, !.then = AfterRdcss(l)]
    OBVIOUS
  <2>2. m.help = l.help /\ m.then = AfterRdcss(l)
    BY <1>2, <2>1 DEF Locals
  <2>3. Step(t, "RdcssRead", m)
    BY <1>1, <1>3, <2>1 DEF RdcssSnapshot
  <2>4. Course(t, "RdcssRead", m)
    BY <1>2, <2>2 DEF Course, Installs, Intends, AfterRdcss, Top
  <2> QED BY <1>2, <2>3, <2>4, LocalOrder DEF Step
<1>4. CASE d.seq # l.met.seq
  <2>1. Step(t, AfterRdcss(l), l)
    BY <1>1, <1>4 DEF RdcssSnapshot
  <2>2. Course(t, AfterRdcss(l), l)
    BY <1>2 DEF Course, Installs, Intends, AfterRdcss
  <2> QED BY <1>2, <2>1, <2>2, LocalOrder DEF Step
<1> QED BY <1>3, <1>4

(* rdcss reads the state of the update its tag is for. *)
LEMMA RdcssReadOrder ==
    ASSUME DistinctSlots, Inv, Inv', OrderInv, NEW t \in Threads, pc[t] = "RdcssRead",
           RdcssRead(t, loc[t]), UNCHANGED <<mem, kdesc, rdesc>>
    PROVE  OrderInv'
<1>1. PICK l, m : l = loc[t] /\ m = [l EXCEPT !.v = StateOf(l.snapshot.tag)]
  OBVIOUS
<1>2. /\ l \in Locals /\ Course(t, "RdcssRead", l)
      /\ pc' = [pc EXCEPT ![t] = "RdcssFinish"] /\ loc' = [loc EXCEPT ![t] = m]
  BY <1>1, Here DEF OrderInv, RdcssRead, Step
<1>3. /\ m.help = l.help /\ m.then = l.then /\ m.met = l.met /\ m.snapshot = l.snapshot
      /\ m.v = StateOf(l.snapshot.tag)
  BY <1>1, <1>2 DEF Locals
<1>4. Course(t, "RdcssFinish", m)
  <2>1. /\ Installs("RdcssFinish", m) <=> Installs("RdcssRead", l)
        /\ Intends("RdcssFinish", m) <=> Intends("RdcssRead", l)
        /\ Top(m) = Top(l)
    BY <1>3 DEF Installs, Intends, Top
  <2> HIDE DEF Installs, Intends, Top
  <2> QED BY <1>2, <1>3, <2>1 DEF Course, Undecided
<1>5. Course(t, "RdcssFinish", m)' /\ Steady(t)
  BY <1>4, SameCourse, SameUpdates, SteadyWords
<1>6. ASSUME NEW a \in Addrs, mem'[a].tag = "rdcss"
      PROVE  (mem'[a] = mem[a] /\ mem[a].slot # Slot[t]) \/ Attends(t, "RdcssFinish", m, a)'
  <2>1. CASE mem[a].slot = Slot[t]
    <3>1. Attends(t, pc[t], loc[t], a)
      BY <1>6, <2>1, NotMine
    <3> QED BY <1>1, <1>3, <3>1 DEF Attends, Installs
  <2> QED BY <2>1
<1>7. mem' \in [Addrs -> Words']
  BY DEF Inv, MemInv
<1> QED BY <1>2, <1>5, <1>6, <1>7, OrderStep

(* help takes up an entry, or has none left. *)
LEMMA PrepareOrder ==
    ASSUME DistinctSlots, Inv, Inv', OrderInv, NEW t \in Threads, pc[t] = "Prepare",
           Prepare(t, loc[t])
    PROVE  OrderInv'
<1>1. PICK l, f : l = loc[t] /\ f = Top(l)
  OBVIOUS
<1>2. ~Installs(pc[t], loc[t]) /\ l.help # <<>> /\ Slot[t] \in Slots
  BY <1>1, Here DEF Installs, Place, Helping
<1>3. RunsInv(Front(l.help)) /\ RunInv(Top(l)) /\ f \in Runs
  BY <1>1, <1>2, RunsHere
<1>4. CASE f.i > Len(f.entries)
  <2>1. Step(t, "Decide", l) /\ UNCHANGED <<mem, kdesc, rdesc>>
    BY <1>1, <1>4 DEF Prepare
  <2>2. Course(t, "Decide", l)
    BY <1>1, <1>3, <1>4 DEF Course, Installs, Intends
  <2> QED BY <1>2, <2>1, <2>2, LocalOrder DEF Step
<1>5. CASE ~(f.i > Len(f.entries))
  <2>1. PICK d : d = [seq |-> rdesc[Slot[t]].seq + 1, tag |-> f.tag,
                      addr |-> f.entries[f.i].addr, old |-> Value(f.entries[f.i].old)]
    OBVIOUS
  <2>2. /\ rdesc' = [rdesc EXCEPT ![Slot[t]] = d]
        /\ Step(t, "RdcssCAS", l) /\ UNCHANGED <<mem, kdesc>>
    BY <1>1, <1>5, <2>1 DEF Prepare
  <2>3. d.tag = f.tag /\ d.addr = f.entries[f.i].addr
    BY <2>1
  <2>4. rdesc'[Slot[t]] = d /\ \A u \in Threads \ {t} : rdesc'[Slot[u]] = rdesc[Slot[u]]
    BY <1>2, <2>2 DEF DistinctSlots, Inv, RDescInv
  <2>5. Steady(t)
    BY <2>2, <2>4, SameUpdates, SteadyWords
  <2>6. RunsInv(Front(l.help))' /\ RunInv(Top(l))'
    BY <1>1, <1>2, <2>5, Carry
  <2>7. f.i \in DOMAIN f.entries
    <3>1. f.entries \in Seq(Entries) /\ f.i \in Nat \ {0}
      BY <1>3, RunEntries
    <3> QED BY <1>5, <3>1, LenProperties
  <2>8. Course(t, "RdcssCAS", l)'
    BY <1>1, <2>3, <2>4, <2>6, <2>7 DEF Course, Installs, Intends
  <2> QED BY <1>2, <2>2, <2>5, <2>8, OrderQuiet DEF Step
<1> QED BY <1>4, <1>5

(* Whoever decides an update decides it for good; it has no more words to  *)
(* tag.                                                                    *)
LEMMA DecideOrder ==
    ASSUME DistinctSlots, Inv, Inv', OrderInv, NEW t \in Threads, pc[t] = "Decide",
           Decide(t, loc[t])
    PROVE  OrderInv'
<1>1. PICK l, f, s : l = loc[t] /\ f = Top(l) /\ s = f.tag.slot
  OBVIOUS
<1>2. ~Installs(pc[t], loc[t]) /\ l.help # <<>>
  BY <1>1, Here DEF Installs, Place, Helping
<1>3. RunsInv(Front(l.help)) /\ RunInv(f) /\ f \in Runs
  BY <1>1, <1>2, RunsHere
<1>4. /\ kdesc \in [Slots -> KDescs] /\ f.newstate # "UNDECIDED" /\ s \in Slots
      /\ kdesc' = IF Undecided(f.tag) THEN [kdesc EXCEPT ![s].state = f.newstate] ELSE kdesc
      /\ Step(t, "Outcome", l) /\ UNCHANGED <<mem, rdesc>>
  BY <1>1, <1>3, RunEntries DEF Decide, Undecided, RunInv, Inv, KDescInv, KTags
<1>5. /\ \A r \in Slots : kdesc'[r].seq = kdesc[r].seq /\ kdesc'[r].entries = kdesc[r].entries
      /\ \A r \in Slots : kdesc'[r].state = kdesc[r].state \/ kdesc'[r].state # "UNDECIDED"
      /\ Undecided(f.tag) => kdesc'[s].state # "UNDECIDED"
  <2>1. CASE ~Undecided(f.tag)
    BY <1>4, <2>1
  <2>2. CASE Undecided(f.tag)
    <3>1. ASSUME NEW x \in KDescs
          PROVE  LET y == [x EXCEPT !.state = f.newstate]
                 IN  y.seq = x.seq /\ y.entries = x.entries /\ y.state = f.newstate
      BY DEF KDescs
    <3>2. /\ kdesc'[s] = [kdesc[s] EXCEPT !.state = f.newstate]
          /\ \A r \in Slots \ {s} : kdesc'[r] = kdesc[r]
      BY <1>4, <2>2
    <3>3. /\ kdesc'[s].seq = kdesc[s].seq /\ kdesc'[s].entries = kdesc[s].entries
          /\ kdesc'[s].state = f.newstate
      BY <1>4, <3>1, <3>2
    <3> QED BY <1>4, <3>2, <3>3
  <2> QED BY <2>1, <2>2
<1>6. SteadyUpdates
  <2> SUFFICES ASSUME NEW w \in IssuedK, Undecided(w)'
               PROVE  Undecided(w) /\ EntriesOf(w)' = EntriesOf(w)
    BY DEF SteadyUpdates
  <2>1. w.slot \in Slots
    BY DEF IssuedK, KTags
  <2>2. kdesc'[w.slot].seq = w.seq /\ kdesc'[w.slot].state = "UNDECIDED"
    BY DEF Undecided, StateOf
  <2> QED BY <1>5, <2>1, <2>2 DEF Undecided, StateOf, EntriesOf
<1>7. Steady(t)
  BY <1>4, <1>6, SteadyWords
<1>8. ~Undecided(f.tag)'
  <2>1. f.tag \in IssuedK
    BY <1>3, RunEntries
  <2>2. CASE Undecided(f.tag)
    BY <1>1, <1>5, <2>2 DEF Undecided, StateOf
  <2> QED BY <1>6, <2>1, <2>2 DEF SteadyUpdates
<1>9. RunsInv(Front(l.help))' /\ RunInv(Top(l))'
  BY <1>1, <1>2, <1>7, Carry
<1>10. Course(t, "Outcome", l)'
  BY <1>1, <1>8, <1>9 DEF Course, Installs, Intends
<1> QED BY <1>2, <1>4, <1>7, <1>10, OrderQuiet DEF Step

(* help turns to the outcome. *)
LEMMA OutcomeOrder ==
    ASSUME DistinctSlots, Inv, Inv', OrderInv, NEW t \in Threads, pc[t] = "Outcome",
           Outcome(t, loc[t]), UNCHANGED <<mem, kdesc, rdesc>>
    PROVE  OrderInv'
<1>1. PICK l, state, f : /\ l = loc[t] /\ state = StateOf(Top(l).tag)
                         /\ f = [Top(l) EXCEPT !.i = 1, !.newstate = state]
  OBVIOUS
<1>2. /\ ~Installs(pc[t], loc[t]) /\ l \in Locals /\ l.help # <<>> /\ Steady(t)
      /\ Course(t, "Outcome", l)
  BY <1>1, Here, SameUpdates, SteadyWords DEF Installs, Place, Helping, OrderInv
<1>3. /\ RunsInv(Front(l.help)) /\ Top(l) \in Runs /\ Front(l.help) \in Seq(Runs)
      /\ ~Undecided(Top(l).tag)
  BY <1>1, <1>2, RunsHere DEF Course
<1>4. CASE state = "GONE"
  BY <1>1, <1>2, <1>4, HelpReturnsCourse, OrderQuiet DEF Helping, Outcome
<1>5. CASE state # "GONE"
  <2>1. PICK m : m = [l EXCEPT !.help = Append(Front(l.help), f)]
    OBVIOUS
  <2>2. Step(t, "Replace", m)
    BY <1>1, <1>5, <2>1 DEF Outcome, WithTop
  <2>3. m.help = Append(Front(l.help), f)
    BY <1>2, <2>1 DEF Locals
  <2>4. f.tag = Top(l).tag /\ f.newstate = state
    <3>1. Top(l) \in Frames
      BY <1>3 DEF Runs
    <3> QED BY <1>1, <3>1 DEF Frames
  <2>5. Front(m.help) = Front(l.help) /\ Top(m) = f
    <3>1. PICK S : S = Runs \cup {f}
      OBVIOUS
    <3>2. Front(l.help) \in Seq(S) /\ f \in S
      BY <1>3, <3>1, SeqMonotonic
    <3> QED BY <2>3, <3>2, FrontPush, Push DEF Top
  <2>6. RunInv(f) /\ ~Undecided(f.tag)
    BY <1>1, <1>3, <2>4 DEF RunInv, TaggedBelow, Undecided
  <2>7. Course(t, "Replace", m)
    BY <1>3, <2>5, <2>6 DEF Course, Installs, Intends
  <2> QED BY <1>2, <2>2, <2>7, LocalOrder DEF Step
<1> QED BY <1>4, <1>5

(* The call is over. *)
LEMMA ReturnOrder ==
    ASSUME DistinctSlots, Inv, Inv', OrderInv, NEW t \in Threads, pc[t] = "Return", Return(t),
           UNCHANGED <<mem, kdesc, rdesc>>
    PROVE  OrderInv'
<1>1. PICK m : m = NoLocals
  OBVIOUS
<1>2. m.help = <<>> /\ Step(t, "idle", m) /\ "idle" \in Plainly
  BY <1>1 DEF NoLocals, Return, Plainly, PCs
<1>3. ~Installs(pc[t], loc[t])
  BY DEF Installs
<1> QED BY <1>2, <1>3, GoOnOrder DEF Step

(* What an owner does to its descriptor while it fills it, or to take it   *)
(* for a new update, is of no tag that is about.                           *)
LEMMA FillSteady ==
    ASSUME Inv, NEW s \in Slots, \A r \in Slots \ {s} : kdesc'[r] = kdesc[r],
           \/ s \in Filling /\ kdesc'[s].seq >= kdesc[s].seq
           \/ kdesc'[s].seq > kdesc[s].seq
    PROVE  SteadyUpdates
<1> SUFFICES ASSUME NEW w \in IssuedK, Undecided(w)'
             PROVE  Undecided(w) /\ EntriesOf(w)' = EntriesOf(w)
  BY DEF SteadyUpdates
<1>1. /\ w.slot \in Slots /\ w.seq \in Nat /\ w.seq <= kdesc[w.slot].seq
      /\ w.slot \in Filling => w.seq < kdesc[w.slot].seq
      /\ kdesc[w.slot].seq \in Nat
  BY DEF IssuedK, KTags, Inv, KDescInv, KDescs
<1>2. kdesc'[w.slot].seq = w.seq /\ kdesc'[w.slot].state = "UNDECIDED"
  BY DEF Undecided, StateOf
<1>3. w.slot # s
  BY <1>1, <1>2
<1> QED BY <1>1, <1>3 DEF Undecided, StateOf, EntriesOf

(* A step of an owner that fills its descriptor. *)
LEMMA FillOrder ==
    ASSUME DistinctSlots, Inv, Inv', OrderInv, NEW t \in Threads,
           pc[t] \in {"Start", "Add", "Initialized"}, SteadyUpdates, UNCHANGED <<mem, rdesc>>,
           NEW to \in Fillers, NEW m, m.help = loc[t].help,
           pc' = [pc EXCEPT ![t] = to], loc' = [loc EXCEPT ![t] = m]
    PROVE  OrderInv'
<1>1. ~Installs(pc[t], loc[t]) /\ to \in Plainly
  BY DEF Installs, Plainly, PCs, Fillers
<1>2. Steady(t)
  BY SteadyWords
<1>3. PICK l : l = loc[t]
  OBVIOUS
<1>4. m.help # <<>> => RunsInv(Front(m.help))' /\ RunInv(Top(m))'
  BY <1>1, <1>2, <1>3, Carry DEF Top
<1>5. Course(t, to, m)'
  BY <1>1, <1>4, PlainCourse
<1> QED BY <1>1, <1>2, <1>5, OrderQuiet

(* The descriptor is taken for a new update, filled, and numbered. *)
LEMMA StartOrder ==
    ASSUME DistinctSlots, Inv, Inv', OrderInv, NEW t \in Threads,
           \/ pc[t] = "Start" /\ Start(t, loc[t])
           \/ pc[t] = "Add" /\ Add(t, loc[t])
           \/ pc[t] = "Initialized" /\ Initialized(t, loc[t])
    PROVE  OrderInv'
<1>1. PICK l, s : l = loc[t] /\ s = Slot[t]
  OBVIOUS
<1>2. /\ l \in Locals /\ s \in Slots /\ kdesc \in [Slots -> KDescs]
      /\ kdesc[s] \in KDescs /\ kdesc[s].seq \in Nat
      /\ pc[t] \in Fillers => s \in Filling
  BY <1>1, Here DEF Inv, KDescInv, KDescs, Filling
<1>3. CASE pc[t] = "Start" /\ Start(t, loc[t])
  <2>1. /\ kdesc' = [kdesc EXCEPT ![s] =
                       [seq |-> kdesc[s].seq + 1, state |-> "UNDECIDED", entries |-> <<>>]]
        /\ Step(t, "Add", l) /\ UNCHANGED <<mem, rdesc>>
    BY <1>1, <1>2, <1>3 DEF Start
  <2>2. kdesc'[s].seq > kdesc[s].seq /\ \A r \in Slots \ {s} : kdesc'[r] = kdesc[r]
    BY <1>2, <2>1
  <2>3. SteadyUpdates
    BY <1>2, <2>2, FillSteady
  <2> QED BY <1>1, <1>3, <2>1, <2>3, FillOrder DEF Step, Fillers
<1>4. CASE pc[t] = "Add" /\ Add(t, loc[t])
  <2>1. PICK to, m, es : /\ to = (IF Len(l.todo) = 1 THEN "Initialized" ELSE "Add")
                         /\ m = [l EXCEPT !.todo = Tail(@)]
                         /\ es = Append(kdesc[s].entries, Head(l.todo))
    OBVIOUS
  <2>2. /\ kdesc' = [kdesc EXCEPT ![s] = [kdesc[s] EXCEPT !.entries = es]]
        /\ Step(t, to, m) /\ UNCHANGED <<mem, rdesc>>
    <3>1. kdesc' = [kdesc EXCEPT ![s].entries = Append(@, Head(l.todo))]
      BY <1>1, <1>4 DEF Add
    <3>2. kdesc' = [kdesc EXCEPT ![s] = [kdesc[s] EXCEPT !.entries = es]]
      BY <1>2, <2>1, <3>1
    <3> QED BY <1>1, <1>4, <2>1, <3>2 DEF Add
  <2>3. kdesc'[s].seq >= kdesc[s].seq /\ \A r \in Slots \ {s} : kdesc'[r] = kdesc[r]
    <3>1. [kdesc[s] EXCEPT !.entries = es].seq = kdesc[s].seq
      BY <1>2 DEF KDescs
    <3> QED BY <1>2, <2>2, <3>1
  <2>4. SteadyUpdates
    BY <1>2, <1>4, <2>3, FillSteady DEF Fillers
  <2>5. m.help = loc[t].help /\ to \in Fillers
    BY <1>1, <1>2, <2>1 DEF Locals, Fillers
  <2> QED BY <1>4, <2>2, <2>4, <2>5, FillOrder DEF Step
<1>5. CASE pc[t] = "Initialized" /\ Initialized(t, loc[t])
  <2>1. PICK m : m = [l EXCEPT !.met = KTag(s, kdesc[s].seq + 1)]
    OBVIOUS
  <2>2. /\ kdesc' = [kdesc EXCEPT ![s] = [kdesc[s] EXCEPT !.seq = kdesc[s].seq + 1]]
        /\ Step(t, "Transaction", m) /\ UNCHANGED <<mem, rdesc>>
    BY <1>1, <1>2, <1>5, <2>1 DEF Initialized
  <2>3. kdesc'[s].seq > kdesc[s].seq /\ \A r \in Slots \ {s} : kdesc'[r] = kdesc[r]
    <3>1. [kdesc[s] EXCEPT !.seq = kdesc[s].seq + 1].seq = kdesc[s].seq + 1
      BY <1>2 DEF KDescs
    <3> QED BY <1>2, <2>2, <3>1
  <2>4. SteadyUpdates
    BY <1>2, <2>3, FillSteady
  <2>5. m.help = loc[t].help
    BY <1>1, <1>2, <2>1 DEF Locals
  <2> QED BY <1>5, <2>2, <2>4, <2>5, FillOrder DEF Step, Fillers
<1> QED BY <1>3, <1>4, <1>5

(* A step that writes only words without a tag, or under the tag of an     *)
(* update that is decided.                                                 *)
Free(a) == mem[a].tag # "rdcss" /\ (mem[a] \in KTags => ~Undecided(mem[a]))

LEMMA SteadyFree ==
    ASSUME Inv, OrderInv, NEW t \in Threads, UNCHANGED <<kdesc, rdesc>>,
           \A a \in Addrs : mem'[a] = mem[a] \/ Free(a)
    PROVE  Steady(t)
<1>1. \A w : Undecided(w)' <=> Undecided(w)
  BY DEF Undecided, StateOf
<1>2. ASSUME NEW a \in Addrs, NEW w \in IssuedK, mem[a] = w, Undecided(w)' PROVE mem'[a] = w
  <2>1. w \in KTags
    BY DEF IssuedK
  <2> QED BY <1>1, <1>2, <2>1 DEF Free
<1>3. ASSUME NEW u \in Threads \ {t}, Installs(pc[u], loc[u]),
             NEW w \in IssuedK, loc[u].snapshot.tag = w, Undecided(w)'
      PROVE  mem'[loc[u].snapshot.addr] \in {loc[u].met, w}
  <2>1. PICK l, x : l = loc[u] /\ x = l.snapshot.addr
    OBVIOUS
  <2>2. Place(u, pc[u], l, kdesc, rdesc) /\ Course(u, pc[u], l) /\ w \in KTags
    BY <2>1, Here DEF OrderInv, IssuedK
  <2>3. x \in Addrs /\ l.met.tag = "rdcss"
    BY <1>3, <2>1, <2>2 DEF Place, Installs, RDescs
  <2>4. mem[x] \in {l.met, w}
    BY <1>1, <1>3, <2>1, <2>2 DEF Course
  <2>5. ~Free(x)
    BY <1>1, <1>3, <2>2, <2>3, <2>4 DEF Free
  <2> QED BY <2>1, <2>3, <2>4, <2>5
<1>4. SteadyUpdates
  BY SameUpdates
<1> QED BY <1>2, <1>3, <1>4 DEF Steady

(* A step that is free in what it writes, and writes values. *)
LEMMA ValuesOrder ==
    ASSUME DistinctSlots, Inv, Inv', OrderInv, NEW t \in Threads,
           ~Installs(pc[t], loc[t]), Steady(t), NEW to, NEW m,
           pc' = [pc EXCEPT ![t] = to], loc' = [loc EXCEPT ![t] = m],
           \A a \in Addrs : mem'[a] = mem[a] \/ mem'[a].tag = "none",
           Course(t, to, m)'
    PROVE  OrderInv'
<1>1. \A a \in Addrs : mem'[a].tag = "rdcss" => mem'[a] = mem[a] /\ mem[a].slot # Slot[t]
  BY NotMine DEF Attends
<1>2. mem' \in [Addrs -> Words']
  BY DEF Inv, MemInv
<1>3. \A a \in Addrs, w \in KTags : ~(mem'[a] = w /\ mem[a] # w)
  BY DEF KTags
<1> HIDE DEF Inv, OrderInv, Installs, Steady, Course
<1> QED BY <1>1, <1>2, <1>3, OrderStep

(* A transaction commits or aborts, or the entries are put in order for    *)
(* help.                                                                   *)
LEMMA TransactionOrder ==
    ASSUME DistinctSlots, Inv, Inv', OrderInv, NEW t \in Threads, pc[t] = "Transaction",
           Transaction(t, loc[t])
    PROVE  OrderInv'
<1>1. PICK l, s, es : l = loc[t] /\ s = Slot[t] /\ es = kdesc[s].entries
  OBVIOUS
<1>2. /\ l \in Locals /\ s \in Slots /\ kdesc \in [Slots -> KDescs] /\ es \in Seq(Entries)
      /\ kdesc[s] \in KDescs /\ kdesc[s].seq \in Nat /\ s \in Filling
      /\ ~Installs(pc[t], loc[t]) /\ mem \in [Addrs -> Words]
  BY <1>1, Here DEF Inv, KDescInv, KDescs, Filling, Fillers, Installs, MemInv
<1>3. ASSUME NEW r, Answer(t, l, r), Steady(t),
             \A a \in Addrs : mem'[a] = mem[a] \/ mem'[a].tag = "none"
      PROVE  OrderInv'
  <2>1. PICK m : m = [l EXCEPT !.result = r]
    OBVIOUS
  <2>2. m.help = l.help
    BY <1>2, <2>1 DEF Locals
  <2>3. Step(t, "Return", m)
    BY <1>3, <2>1 DEF Answer
  <2>4. m.help # <<>> => RunsInv(Front(m.help))' /\ RunInv(Top(m))'
    BY <1>1, <1>2, <1>3, <2>2, Carry DEF Top
  <2>5. Course(t, "Return", m)'
    BY <2>4, PlainCourse DEF Plainly, PCs
  <2> QED BY <1>2, <1>3, <2>3, <2>5, ValuesOrder DEF Step
<1>4. CASE /\ \A i \in DOMAIN es : mem[es[i].addr] = Value(es[i].old)
           /\ mem' = Written(mem, es) /\ Answer(t, l, TRUE) /\ UNCHANGED <<kdesc, rdesc>>
  <2>1. ASSUME NEW a \in Addrs, mem'[a] # mem[a] PROVE Free(a) /\ mem'[a].tag = "none"
    <3>1. \E e \in Range(es) : e.addr = a
      BY <1>2, <1>4, <2>1 DEF Written
    <3>2. PICK i \in DOMAIN es : es[i].addr = a
      BY <3>1 DEF Range
    <3>3. mem[a] = Value(es[i].old)
      BY <1>4, <3>2
    <3>4. mem'[a] = Value((CHOOSE e \in Range(es) : e.addr = a).new)
      BY <1>2, <1>4, <3>1 DEF Written
    <3> QED BY <3>3, <3>4 DEF Value, Free, KTags
  <2>2. Steady(t)
    BY <1>4, <2>1, SteadyFree
  <2> QED BY <1>3, <1>4, <2>1, <2>2
<1>5. CASE Answer(t, l, FALSE) /\ UNCHANGED <<mem, kdesc, rdesc>>
  BY <1>3, <1>5, SameUpdates, SteadyWords
<1>6. ASSUME NEW sorted \in Sortings(es),
             kdesc' = [kdesc EXCEPT ![s].entries = sorted],
             Step(t, "HelpState", [l EXCEPT !.help = <<HelpFrame(l.met, sorted, FALSE)>>]),
             UNCHANGED <<mem, rdesc>>
      PROVE  OrderInv'
  <2>1. PICK f, m : f = HelpFrame(l.met, sorted, FALSE) /\ m = [l EXCEPT !.help = <<f>>]
    OBVIOUS
  <2>2. kdesc'[s].seq >= kdesc[s].seq /\ \A r \in Slots \ {s} : kdesc'[r] = kdesc[r]
    <3>1. kdesc' = [kdesc EXCEPT ![s] = [kdesc[s] EXCEPT !.entries = sorted]]
      BY <1>2, <1>6
    <3>2. [kdesc[s] EXCEPT !.entries = sorted].seq = kdesc[s].seq
      BY <1>2 DEF KDescs
    <3> QED BY <1>2, <3>1, <3>2
  <2>3. Steady(t)
    BY <1>2, <1>6, <2>2, FillSteady, SteadyWords
  <2>4. Ordered(sorted)
    BY DEF Ordered, Sortings
  <2>5. f.entries = sorted /\ f.i = 1 /\ f.newstate = "SUCCEEDED"
    BY <2>1 DEF HelpFrame
  <2>6. DOMAIN sorted \subseteq Nat \ {0}
    <3>1. DOMAIN sorted = 1 .. Len(es) /\ Len(es) \in Nat
      BY <1>2, LenProperties DEF Sortings
    <3> QED BY <3>1
  <2>7. RunInv(f)'
    BY <2>4, <2>5, <2>6 DEF RunInv, TaggedBelow, Ordered
  <2>8. m.help = <<f>>
    BY <1>2, <2>1 DEF Locals
  <2>9. Front(m.help) = <<>> /\ Top(m) = f
    <3>1. PICK S : S = {f}
      OBVIOUS
    <3>2. <<>> \in Seq(S) /\ <<f>> = Append(<<>>, f) /\ f \in S
      BY <3>1
    <3> QED BY <2>8, <3>2, FrontPush, Push DEF Top
  <2>10. RunsInv(Front(m.help))'
    BY <2>9 DEF RunsInv
  <2>11. Course(t, "HelpState", m)'
    BY <2>7, <2>9, <2>10, PlainCourse DEF Plainly, PCs, Helping
  <2>12. Step(t, "HelpState", m)
    BY <1>6, <2>1
  <2> QED BY <1>2, <1>6, <2>3, <2>11, <2>12, OrderQuiet DEF Step
<1> QED BY <1>1, <1>4, <1>5, <1>6 DEF Transaction

(* One tag is replaced by the old or the new value. *)
LEMMA ReplaceOrder ==
    ASSUME DistinctSlots, Inv, Inv', OrderInv, NEW t \in Threads, pc[t] = "Replace",
           Replace(t, loc[t])
    PROVE  OrderInv'
<1>1. PICK l, f, e, new, ok : /\ l = loc[t] /\ f = Top(l) /\ e = f.entries[f.i]
                              /\ ok = (f.newstate = "SUCCEEDED")
                              /\ new = Value(IF ok THEN e.new ELSE e.old)
  OBVIOUS
<1>2. /\ ~Installs(pc[t], loc[t]) /\ l \in Locals /\ l.help # <<>>
      /\ Course(t, "Replace", l) /\ mem \in [Addrs -> Words]
  BY <1>1, Here DEF Installs, Place, Helping, OrderInv, Inv, MemInv
<1>3. f \in Runs /\ Front(l.help) \in Seq(Runs) /\ ~Undecided(f.tag) /\ RunInv(f)
  BY <1>1, <1>2, RunsHere DEF Course
<1>4. CASWord(e.addr, f.tag, new)
  BY <1>1 DEF Replace
<1>5. ASSUME NEW a \in Addrs, mem'[a] # mem[a] PROVE Free(a) /\ mem'[a].tag = "none"
  <2>1. mem[a] = f.tag /\ mem'[a] = new
    BY <1>2, <1>4, <1>5 DEF CASWord
  <2>2. f.tag.tag = "kcas"
    BY <1>3, RunEntries
  <2> QED BY <1>1, <1>3, <2>1, <2>2 DEF Free, Value
<1>6. Steady(t)
  BY <1>4, <1>5, SteadyFree DEF CASWord
<1>7. CASE HelpReturns(t, l, ok)
  BY <1>1, <1>2, <1>5, <1>6, <1>7, HelpReturnsCourse, ValuesOrder DEF Helping
<1>8. CASE Step(t, "Replace", NextEntry(l))
  <2>1. PICK next, m : /\ next = [f EXCEPT !.i = @ + 1]
                       /\ m = [l EXCEPT !.help = Append(Front(l.help), next)]
    OBVIOUS
  <2>2. m = NextEntry(l)
    BY <1>1, <2>1 DEF NextEntry, WithTop
  <2>3. m.help = Append(Front(l.help), next)
    BY <1>2, <2>1 DEF Locals
  <2>4. next.tag = f.tag /\ next.newstate = f.newstate
    <3>1. f \in Frames
      BY <1>3 DEF Runs
    <3> QED BY <2>1, <3>1 DEF Frames
  <2>5. Front(m.help) = Front(l.help) /\ Top(m) = next
    <3>1. PICK S : S = Runs \cup {next}
      OBVIOUS
    <3>2. Front(l.help) \in Seq(S) /\ next \in S
      BY <1>3, <3>1, SeqMonotonic
    <3> QED BY <2>3, <3>2, FrontPush, Push DEF Top
  <2>6. ~Undecided(f.tag)'
    <3>1. f.tag \in IssuedK
      BY <1>3, RunEntries
    <3> QED BY <1>3, <1>6, <3>1 DEF Steady, SteadyUpdates
  <2>7. RunInv(next)' /\ ~Undecided(next.tag)'
    BY <1>3, <2>4, <2>6 DEF RunInv, TaggedBelow, Undecided, StateOf
  <2>8. RunsInv(Front(l.help))'
    BY <1>1, <1>2, <1>6, Carry
  <2>9. Course(t, "Replace", m)'
    BY <2>5, <2>7, <2>8 DEF Course, Installs, Intends
  <2> QED BY <1>2, <1>5, <1>6, <1>8, <2>2, <2>9, ValuesOrder DEF Step
<1> QED BY <1>1, <1>7, <1>8 DEF Replace

(* rdcss tries to put its tag in the word, and goes by what it finds.      *)
LEMMA RdcssCASOrder ==
    ASSUME DistinctSlots, Inv, Inv', OrderInv, NEW t \in Threads, pc[t] = "RdcssCAS",
           RdcssCAS(t, loc[t])
    PROVE  OrderInv'
<1>1. PICK l, d, f, r, tag, next :
          /\ l = loc[t] /\ d = rdesc[Slot[t]] /\ f = Top(l) /\ r = mem[d.addr]
          /\ tag = RTag(Slot[t], d.seq) /\ next = [f EXCEPT !.i = @ + 1]
  OBVIOUS
<1>2. /\ ~Installs(pc[t], loc[t]) /\ l \in Locals /\ l.help # <<>> /\ d \in RDescs
      /\ Course(t, "RdcssCAS", l) /\ mem \in [Addrs -> Words] /\ Slot[t] \in Slots
  BY <1>1, Here DEF Installs, Place, Helping, OrderInv, Inv, MemInv
<1>3. /\ RunsInv(Front(l.help)) /\ RunInv(f) /\ f \in Runs /\ Front(l.help) \in Seq(Runs)
  BY <1>1, <1>2, RunsHere
<1>4. /\ f.i \in DOMAIN f.entries /\ d.tag = f.tag /\ d.addr = f.entries[f.i].addr
      /\ d.addr \in Addrs /\ d.old \in Plain /\ d.seq \in Nat /\ r \in Words
  BY <1>1, <1>2 DEF Course, Intends, RDescs
<1>5. f.entries \in Seq(Entries) /\ f.i \in Nat \ {0} /\ DOMAIN f.entries \subseteq Nat
  <2>1. f.entries \in Seq(Entries) /\ f.i \in Nat \ {0}
    BY <1>3, RunEntries
  <2> QED BY <2>1, LenProperties
<1>6. /\ next.tag = f.tag /\ next.entries = f.entries /\ next.i = f.i + 1
      /\ next.newstate = f.newstate
  <2>1. f \in Frames
    BY <1>3 DEF Runs
  <2> QED BY <1>1, <2>1 DEF Frames
<1>7. PICK n : n = NextEntry(l)
  OBVIOUS
<1>8. n \in Locals /\ n = [l EXCEPT !.help = Append(Front(l.help), next)]
      /\ n.help = Append(Front(l.help), next)
  <2>1. next \in Runs
    <3>1. PICK j \in Nat \ {0} : j = f.i + 1
      BY <1>5
    <3>2. next = [f EXCEPT !.i = j]
      BY <1>1, <3>1
    <3> QED BY <1>3, <3>2, RunEntry
  <2>2. n = WithTop(l, next)
    BY <1>1, <1>7 DEF NextEntry
  <2>3. l.help \in Seq(Runs)
    BY <1>1, Here
  <2>4. n \in Locals /\ n = [l EXCEPT !.help = Append(Front(l.help), next)]
    BY <1>2, <2>1, <2>2, <2>3, WithTopOK
  <2> QED BY <1>2, <2>4 DEF Locals
<1>9. ASSUME NEW m, m.help = n.help PROVE Front(m.help) = Front(l.help) /\ Top(m) = next
  <2>1. PICK S : S = Runs \cup {next}
    OBVIOUS
  <2>2. Front(l.help) \in Seq(S) /\ next \in S
    BY <1>3, <2>1, SeqMonotonic
  <2> QED BY <1>8, <1>9, <2>2, FrontPush, Push DEF Top
<1>10. UNCHANGED <<kdesc, rdesc>> /\ CASWord(d.addr, d.old, tag)
  BY <1>1 DEF RdcssCAS, CASWord
<1>11. CASE /\ r = d.old
            /\ Step(t, "RdcssRead", [NextEntry(l) EXCEPT !.met = tag, !.snapshot = d,
                                                         !.then = "Prepare"])
  <2>1. PICK m : m = [n EXCEPT !.met = tag, !.snapshot = d, !.then = "Prepare"]
    OBVIOUS
  <2>2. /\ m.help = n.help /\ m.met = tag /\ m.snapshot = d /\ m.then = "Prepare"
    BY <1>2, <1>8, <2>1 DEF Locals
  <2>3. Step(t, "RdcssRead", m)
    BY <1>7, <1>11, <2>1
  <2>4. mem' = [mem EXCEPT ![d.addr] = tag]
    BY <1>1, <1>10, <1>11 DEF CASWord
  <2>5. Steady(t)
    <3>1. ASSUME NEW a \in Addrs, mem'[a] # mem[a] PROVE Free(a)
      <4>1. mem[a] = d.old
        BY <1>1, <1>2, <1>11, <2>4, <3>1
      <4> QED BY <1>4, <4>1 DEF Free, Plain, KTags
    <3> QED BY <1>10, <3>1, SteadyFree
  <2>6. RunsInv(Front(l.help))' /\ RunInv(Top(l))'
    BY <1>1, <1>2, <2>5, Carry
  <2>7. Installs("RdcssRead", m) /\ ~Intends("RdcssRead", m)
    BY <2>2 DEF Installs, Intends
  <2>8. Front(m.help) = Front(l.help) /\ Top(m) = next
    BY <1>9, <2>2
  <2>9. next.i - 1 = f.i
    BY <1>5, <1>6
  <2>10. next.newstate # "UNDECIDED" /\ TaggedBelow(next, next.i - 1)'
    BY <1>1, <1>6, <2>6, <2>9 DEF RunInv, TaggedBelow, Undecided, StateOf
  <2>11. mem'[d.addr] = tag
    BY <1>2, <1>4, <2>4
  <2>12. tag = RTag(Slot[t], rdesc'[Slot[t]].seq)
    BY <1>1, <1>10
  <2>13. Course(t, "RdcssRead", m)'
    BY <1>4, <1>6, <2>2, <2>6, <2>7, <2>8, <2>9, <2>10, <2>11, <2>12 DEF Course, Top
  <2>14. ASSUME NEW a \in Addrs, mem'[a].tag = "rdcss"
         PROVE  (mem'[a] = mem[a] /\ mem[a].slot # Slot[t]) \/ Attends(t, "RdcssRead", m, a)'
    <3>1. CASE a = d.addr
      BY <1>1, <2>2, <2>7, <2>11, <3>1 DEF Attends, RTag, Installs
    <3>2. CASE a # d.addr
      <4>1. mem'[a] = mem[a]
        BY <1>2, <2>4, <3>2
      <4> QED BY <1>2, <2>14, <4>1, NotMine DEF Attends
    <3> QED BY <3>1, <3>2
  <2>15. ASSUME NEW a \in Addrs, NEW w \in KTags, mem'[a] = w, mem[a] # w PROVE FALSE
    BY <1>1, <1>2, <2>4, <2>15 DEF RTag, KTags
  <2>16. mem' \in [Addrs -> Words']
    BY DEF Inv, MemInv
  <2> HIDE DEF Inv, OrderInv, Course, Steady, Attends
  <2> QED BY <2>3, <2>5, <2>13, <2>14, <2>15, <2>16, OrderStep DEF Step
<1>12. r # d.old => UNCHANGED <<mem, kdesc, rdesc>>
  BY <1>1, <1>10 DEF CASWord
<1>13. ASSUME r # d.old, NEW to, Step(t, to, [l EXCEPT !.met = r]),
              \/ to = "RdcssSnapshot"
              \/ to = "KcasSnapshot" /\ r \in KTags
       PROVE  OrderInv'
  <2>1. PICK m : m = [l EXCEPT !.met = r]
    OBVIOUS
  <2>2. m.help = l.help /\ m.met = r
    BY <1>2, <2>1 DEF Locals
  <2>3. Top(m) = Top(l)
    BY <2>2 DEF Top
  <2>4. r \in KTags /\ Undecided(r) => Ordered(EntriesOf(r)) /\ mem[EntriesOf(r)[1].addr] = r
    BY <1>1, <1>4, FirstTagged
  <2>5. Course(t, to, m)
    <3>1. CASE to = "RdcssSnapshot"
      <4>1. Intends("RdcssCAS", l) /\ ~Installs(to, m)
        BY <3>1 DEF Intends, Installs
      <4> QED BY <1>1, <1>2, <1>3, <2>2, <2>3, <3>1, <4>1 DEF Course
    <3>2. CASE to = "KcasSnapshot" /\ r \in KTags
      <4>1. ~Intends(to, m) /\ ~Installs(to, m)
        BY <3>2 DEF Intends, Installs
      <4> QED BY <1>1, <1>2, <1>3, <2>2, <2>3, <2>4, <3>2, <4>1 DEF Course
    <3> QED BY <1>13, <3>1, <3>2
  <2> QED BY <1>2, <1>12, <1>13, <2>1, <2>5, LocalOrder DEF Step
<1>14. CASE r # d.old /\ r = f.tag /\ Step(t, "Prepare", NextEntry(l))
  <2>1. RunInv(next)
    <3> SUFFICES ASSUME Undecided(f.tag), NEW j \in DOMAIN f.entries, j < f.i + 1
                 PROVE  mem[f.entries[j].addr] = f.tag
      BY <1>3, <1>6 DEF RunInv, TaggedBelow
    <3>1. j < f.i \/ j = f.i
      BY <1>5
    <3> QED BY <1>1, <1>3, <1>4, <1>14, <3>1 DEF RunInv, TaggedBelow
  <2>2. Course(t, "Prepare", n)
    BY <1>3, <1>9, <2>1 DEF Course, Installs, Intends
  <2> QED BY <1>2, <1>7, <1>12, <1>14, <2>2, LocalOrder DEF Step
<1>15. CASE r # d.old /\ Step(t, "Decide", WithTop(l, [Top(l) EXCEPT !.newstate = "FAILED"]))
  <2>1. PICK g, m : /\ g = [f EXCEPT !.newstate = "FAILED"]
                    /\ m = [l EXCEPT !.help = Append(Front(l.help), g)]
    OBVIOUS
  <2>2. Step(t, "Decide", m)
    BY <1>1, <1>15, <2>1 DEF WithTop
  <2>3. m.help = Append(Front(l.help), g)
    BY <1>2, <2>1 DEF Locals
  <2>4. g.tag = f.tag /\ g.newstate = "FAILED" /\ g.entries = f.entries /\ g.i = f.i
    <3>1. f \in Frames
      BY <1>3 DEF Runs
    <3> QED BY <2>1, <3>1 DEF Frames
  <2>5. Front(m.help) = Front(l.help) /\ Top(m) = g
    <3>1. PICK S : S = Runs \cup {g}
      OBVIOUS
    <3>2. Front(l.help) \in Seq(S) /\ g \in S
      BY <1>3, <3>1, SeqMonotonic
    <3> QED BY <2>3, <3>2, FrontPush, Push DEF Top
  <2>6. RunInv(g)
    BY <1>3, <2>4 DEF RunInv, TaggedBelow
  <2>7. Course(t, "Decide", m)
    BY <1>3, <2>4, <2>5, <2>6 DEF Course, Installs, Intends
  <2> QED BY <1>2, <1>12, <1>15, <2>2, <2>7, LocalOrder DEF Step
<1>16. r.tag = "kcas" => r \in KTags
  BY <1>4 DEF Words, Plain, IssuedK, IssuedR, RTags
<1> QED BY <1>1, <1>11, <1>13, <1>14, <1>15, <1>16 DEF RdcssCAS

(* The word that t is about to finish with rdcss, if it is still under the *)
(* tag t has met: whoever finishes it goes by the same copy, so that it    *)
(* can only become what its owner will find there.                         *)
LEMMA SameCopy ==
    ASSUME Inv, OrderInv, NEW t \in Threads, NEW l, l = loc[t], pc[t] = "RdcssFinish",
           NEW u \in Threads, NEW k, k = loc[u], Installs(pc[u], k), k.met = l.met
    PROVE  k.snapshot = l.snapshot
<1>1. Place(t, "RdcssFinish", l, kdesc, rdesc)
  BY Here
<1>2. Place(u, pc[u], k, kdesc, rdesc)
  BY Here
<1>3. k.met = RTag(Slot[u], rdesc[Slot[u]].seq)
  BY DEF OrderInv, Course
<1>4. rdesc[l.met.slot].seq = l.met.seq
  BY <1>3 DEF RTag
<1>5. l.snapshot = rdesc[l.met.slot] /\ k.snapshot = rdesc[l.met.slot]
  BY <1>1, <1>2, <1>4 DEF Place, Installs
<1> QED BY <1>5

(* rdcss puts the tag of the update in the word, or takes back its own.    *)
LEMMA RdcssFinishOrder ==
    ASSUME DistinctSlots, Inv, Inv', OrderInv, NEW t \in Threads, pc[t] = "RdcssFinish",
           RdcssFinish(t, loc[t])
    PROVE  OrderInv'
<1>1. PICK l, x, tag, new : /\ l = loc[t] /\ x = l.snapshot.addr /\ tag = l.snapshot.tag
                            /\ new = IF l.v = "UNDECIDED" THEN tag ELSE l.snapshot.old
  OBVIOUS
<1>2. /\ l \in Locals /\ Course(t, "RdcssFinish", l) /\ mem \in [Addrs -> Words]
      /\ Place(t, "RdcssFinish", l, kdesc, rdesc) /\ l.help \in Seq(Runs)
      /\ l.snapshot \in {[seq |-> 0]} \cup Snapshots
  BY <1>1, Here DEF OrderInv, Inv, MemInv
<1>3. /\ l.met.tag = "rdcss" /\ l.snapshot \in RDescs /\ x \in Addrs /\ tag \in KTags
      /\ tag \in IssuedK /\ l.snapshot.old \in Plain
  <2>1. l.met.tag = "rdcss" /\ l.snapshot \in RDescs
    BY <1>2 DEF Place
  <2>2. l.snapshot \in Snapshots
    BY <1>2, <2>1, CopyIsUsed
  <2> QED BY <1>1, <2>1, <2>2 DEF RDescs, Snapshots
<1>4. /\ CASWord(x, l.met, new) /\ UNCHANGED <<kdesc, rdesc>>
      /\ pc' = [pc EXCEPT ![t] = l.then] /\ loc' = [loc EXCEPT ![t] = l]
  BY <1>1 DEF RdcssFinish, CASWord, Step
<1>5. \A w : (Undecided(w)' <=> Undecided(w)) /\ EntriesOf(w)' = EntriesOf(w)
  BY <1>4 DEF Undecided, StateOf, EntriesOf
<1>6. /\ \A a \in Addrs : mem'[a] = mem[a] \/ (a = x /\ mem[a] = l.met /\ mem'[a] = new)
      /\ mem[x] = l.met => mem'[x] = new
  BY <1>2, <1>3, <1>4 DEF CASWord
<1>7. l.v # "UNDECIDED" => ~Undecided(tag)
  BY <1>1, <1>2 DEF Course
<1>8. new.tag # "rdcss" /\ (new \in KTags => l.v = "UNDECIDED" /\ new = tag)
  BY <1>1, <1>3 DEF KTags, Plain
<1>9. Steady(t)
  <2>1. ASSUME NEW a \in Addrs, NEW w \in IssuedK, mem[a] = w PROVE mem'[a] = w
    <3>1. w # l.met
      BY <1>3 DEF IssuedK, KTags
    <3> QED BY <1>6, <2>1, <3>1
  <2>2. ASSUME NEW u \in Threads \ {t}, Installs(pc[u], loc[u]),
               NEW w \in IssuedK, loc[u].snapshot.tag = w, Undecided(w)'
        PROVE  mem'[loc[u].snapshot.addr] \in {loc[u].met, w}
    <3>1. PICK k, y : k = loc[u] /\ y = k.snapshot.addr
      OBVIOUS
    <3>2. Place(u, pc[u], k, kdesc, rdesc) /\ Course(u, pc[u], k)
      BY <3>1, Here DEF OrderInv
    <3>3. y \in Addrs
      BY <2>2, <3>1, <3>2 DEF Place, Installs, RDescs
    <3>4. mem[y] \in {k.met, w}
      BY <1>5, <2>2, <3>1, <3>2 DEF Course
    <3>5. CASE mem'[y] # mem[y]
      <4>1. y = x /\ mem[y] = l.met /\ mem'[y] = new
        BY <1>6, <3>3, <3>5
      <4>2. k.met = l.met
        BY <1>3, <3>4, <4>1 DEF IssuedK, KTags
      <4>3. k.snapshot = l.snapshot
        BY <1>1, <2>2, <3>1, <4>2, SameCopy
      <4>4. new = w
        BY <1>1, <1>5, <1>7, <2>2, <3>1, <4>3
      <4> QED BY <3>1, <4>1, <4>4
    <3> QED BY <3>1, <3>4, <3>5
  <2>3. SteadyUpdates
    BY <1>4, SameUpdates
  <2> QED BY <1>4, <2>1, <2>2, <2>3 DEF Steady
<1>10. ASSUME NEW a \in Addrs, NEW w \in KTags, mem'[a] = w, mem[a] # w, Undecided(w)'
       PROVE  PrefixTagged(w, a)'
  <2>1. a = x /\ mem[a] = l.met /\ w = tag /\ Undecided(tag) /\ mem'[x] = tag
    BY <1>5, <1>6, <1>8, <1>10
  <2>2. PICK u \in Threads : Attends(u, pc[u], loc[u], x)
    BY <1>3, <2>1 DEF OrderInv, AttendedInv
  <2>3. PICK k, f, i : k = loc[u] /\ f = Top(k) /\ i = f.i - 1
    OBVIOUS
  <2>4. Installs(pc[u], k) /\ k.met = l.met /\ Course(u, pc[u], k) /\ k.help \in Seq(Runs)
        /\ k.help # <<>>
    BY <2>1, <2>2, <2>3, Here DEF Attends, OrderInv, Installs, Place
  <2>5. k.snapshot = l.snapshot
    BY <1>1, <2>3, <2>4, SameCopy
  <2>6. /\ f \in Runs /\ f.tag = w /\ TaggedBelow(f, i)
        /\ i \in DOMAIN f.entries /\ f.entries[i].addr = x
    BY <1>1, <2>1, <2>3, <2>4, <2>5, TopRun DEF Course
  <2>7. /\ Ordered(f.entries) /\ f.entries = EntriesOf(w) /\ f.entries \in Seq(Entries)
        /\ \A j \in DOMAIN f.entries : f.entries[j].addr \in Addrs
        /\ \A j \in DOMAIN f.entries : j < i => mem[f.entries[j].addr] = w
    BY <2>1, <2>6, RunEntries DEF TaggedBelow
  <2>8. \A j \in 1 .. i : j \in DOMAIN f.entries /\ (j < i \/ j = i)
    <3>1. DOMAIN f.entries = 1 .. Len(f.entries) /\ Len(f.entries) \in Nat
      BY <2>7, LenProperties
    <3>2. \A n \in Nat : \A c \in 1 .. n : \A j \in 1 .. c : j \in 1 .. n /\ (j < c \/ j = c)
      OBVIOUS
    <3> QED BY <2>6, <3>1, <3>2
  <2>9. \A j \in 1 .. i : mem'[f.entries[j].addr] = w
    <3> SUFFICES ASSUME NEW j \in 1 .. i PROVE mem'[f.entries[j].addr] = w
      OBVIOUS
    <3>1. CASE j = i
      BY <2>1, <2>6, <3>1
    <3>2. CASE j < i
      <4>1. mem[f.entries[j].addr] = w /\ f.entries[j].addr \in Addrs /\ w # l.met
        BY <1>3, <2>7, <2>8, <3>2 DEF KTags
      <4> QED BY <1>6, <4>1
    <3> QED BY <2>8, <3>1, <3>2
  <2>10. EntriesOf(w)' = f.entries
    BY <1>5, <2>7
  <2> HIDE DEF EntriesOf
  <2> QED BY <2>1, <2>6, <2>7, <2>9, <2>10 DEF PrefixTagged
<1>11. ASSUME NEW a \in Addrs, mem'[a].tag = "rdcss"
       PROVE  mem'[a] = mem[a] /\ mem[a].slot # Slot[t]
  <2>1. mem'[a] = mem[a]
    BY <1>6, <1>8, <1>11
  <2>2. CASE mem[a].slot = Slot[t]
    <3>1. Attends(t, pc[t], loc[t], a)
      BY <1>11, <2>1, <2>2, NotMine
    <3>2. a = x /\ mem[x] = l.met
      BY <1>1, <3>1 DEF Attends
    <3> QED BY <1>6, <1>8, <1>11, <3>2
  <2> QED BY <2>1, <2>2
<1>12. Course(t, l.then, l)'
  <2>1. CASE ~Installs(pc[t], l)
    <3>1. l.help # <<>> => RunsInv(Front(l.help))' /\ RunInv(Top(l))'
      BY <1>1, <1>9, <2>1, Carry
    <3>2. CASE l.then = "Load"
      BY <3>1, <3>2, PlainCourse DEF Plainly, PCs
    <3>3. CASE l.then = "RdcssCAS"
      <4>1. Intends("RdcssFinish", l)
        BY <3>3 DEF Intends
      <4>2. ~Installs("RdcssCAS", l)
        BY DEF Installs
      <4>3. /\ Top(l).i \in DOMAIN Top(l).entries
            /\ rdesc'[Slot[t]].tag = Top(l).tag
            /\ rdesc'[Slot[t]].addr = Top(l).entries[Top(l).i].addr
        BY <1>2, <1>4, <4>1 DEF Course
      <4> HIDE DEF Installs, Intends, Top
      <4> QED BY <3>1, <3>3, <4>2, <4>3 DEF Course, Top
    <3> QED BY <1>2, <2>1, <3>2, <3>3 DEF Place, Installs
  <2>2. CASE Installs(pc[t], l)
    <3>1. PICK h, f, i : h = Front(l.help) /\ f = Top(l) /\ i = f.i - 1
      OBVIOUS
    <3>2. l.then = "Prepare" /\ l.help # <<>>
      BY <1>2, <2>2 DEF Installs, Place
    <3>3. /\ h \in Seq(Runs) /\ f \in Runs /\ RunsInv(h) /\ f.newstate # "UNDECIDED"
          /\ TaggedBelow(f, i) /\ f.tag = tag /\ i \in DOMAIN f.entries
          /\ f.entries[i].addr = x /\ (Undecided(tag) => mem[x] \in {l.met, tag})
      BY <1>1, <1>2, <2>2, <3>1, <3>2, TopRun DEF Course
    <3>4. RunsInv(h)' /\ TaggedBelow(f, i)'
      BY <1>9, <3>3, SteadyRuns, SteadyRun
    <3>5. Undecided(tag) => mem'[x] = tag
      BY <1>1, <1>3, <1>6, <1>7, <3>3
    <3>6. RunInv(f)'
      <4> SUFFICES ASSUME Undecided(tag), NEW j \in DOMAIN f.entries, j < f.i
                   PROVE  mem'[f.entries[j].addr] = tag
        BY <1>5, <3>3, <3>4 DEF RunInv, TaggedBelow
      <4>1. j < i \/ j = i
        <5>1. f.entries \in Seq(Entries) /\ f.i \in Nat
          BY <3>3, RunEntries
        <5>2. j \in Nat
          BY <5>1, LenProperties
        <5> QED BY <3>1, <5>1, <5>2
      <4> QED BY <1>5, <3>3, <3>4, <3>5, <4>1 DEF TaggedBelow
    <3> QED BY <3>1, <3>2, <3>4, <3>6, PlainCourse DEF Plainly, PCs, Helping
  <2> QED BY <2>1, <2>2
<1>13. mem' \in [Addrs -> Words']
  BY DEF Inv, MemInv
<1> HIDE DEF Inv, OrderInv, Steady, Course
<1> QED BY <1>4, <1>9, <1>10, <1>11, <1>12, <1>13, OrderStep

-----------------------------------------------------------------------------

(* Before the first call no word has a tag. *)
LEMMA InitOrder == ASSUME Init PROVE OrderInv
<1>1. \A a \in Addrs : mem[a].tag = "none"
  BY DEF Init, Value
<1>2. PrefixInv /\ AttendedInv
  BY <1>1 DEF PrefixInv, AttendedInv, KTags
<1>3. ASSUME NEW t \in Threads PROVE Course(t, pc[t], loc[t])
  <2>1. pc[t] = "idle" /\ loc[t].help = <<>>
    BY DEF Init, NoLocals
  <2> QED BY <2>1 DEF Course, Installs, Intends
<1> QED BY <1>2, <1>3 DEF OrderInv

(* A step of any thread. *)
LEMMA NextOrder == ASSUME DistinctSlots, Inv, OrderInv, [Next]_vars PROVE OrderInv'
<1>1. Inv'
  BY NextInv
<1>2. CASE UNCHANGED vars
  <2>1. PrefixInv' /\ AttendedInv'
    BY <1>2 DEF vars, OrderInv, PrefixInv, PrefixTagged, Ordered, EntriesOf, Undecided, StateOf,
                AttendedInv, Attends, Installs
  <2>2. ASSUME NEW t \in Threads PROVE Course(t, pc[t], loc[t])'
    <3>1. PICK p, l : p = pc[t] /\ l = loc[t]
      OBVIOUS
    <3>2. Course(t, p, l)'
      BY <1>2, <3>1, SameCourse DEF vars, OrderInv
    <3> QED BY <1>2, <3>1, <3>2 DEF vars
  <2> QED BY <2>1, <2>2 DEF OrderInv
<1>3. ASSUME NEW t \in Threads,
             (\E a \in Reads : Read(t, a)) \/ (\E r \in Requests[t] : Execute(t, r))
      PROVE  OrderInv'
  BY <1>1, <1>3, CallOrder
<1>4. ASSUME NEW t \in Threads, Work(t, loc[t]) PROVE OrderInv'
  <2>1. ASSUME UNCHANGED <<mem, kdesc, rdesc>>,
               \/ At(t, "Load")          /\ Load(t, loc[t])
               \/ At(t, "KcasSnapshot")  /\ KcasSnapshot(t, loc[t])
               \/ At(t, "HelpState")     /\ HelpState(t, loc[t])
               \/ At(t, "RdcssSnapshot") /\ RdcssSnapshot(t, loc[t])
               \/ At(t, "RdcssRead")     /\ RdcssRead(t, loc[t])
               \/ At(t, "Outcome")       /\ Outcome(t, loc[t])
               \/ At(t, "Return")        /\ Return(t)
        PROVE  OrderInv'
    BY <1>1, <2>1, LoadOrder, KcasSnapshotOrder, HelpStateOrder, RdcssSnapshotOrder,
       RdcssReadOrder, OutcomeOrder, ReturnOrder DEF At
  <2>2. CASE \/ At(t, "Start")       /\ Start(t, loc[t])
             \/ At(t, "Add")         /\ Add(t, loc[t])
             \/ At(t, "Initialized") /\ Initialized(t, loc[t])
             \/ At(t, "Transaction") /\ Transaction(t, loc[t])
    BY <1>1, <2>2, StartOrder, TransactionOrder DEF At
  <2>3. CASE \/ At(t, "Prepare")     /\ Prepare(t, loc[t])
             \/ At(t, "RdcssCAS")    /\ RdcssCAS(t, loc[t])
             \/ At(t, "RdcssFinish") /\ RdcssFinish(t, loc[t])
             \/ At(t, "Decide")      /\ Decide(t, loc[t])
             \/ At(t, "Replace")     /\ Replace(t, loc[t])
    BY <1>1, <2>3, PrepareOrder, RdcssCASOrder, RdcssFinishOrder, DecideOrder, ReplaceOrder DEF At
  <2> QED BY <1>4, <2>1, <2>2, <2>3 DEF Work
<1> QED BY <1>2, <1>3, <1>4 DEF Next

LEMMA Invariants == ASSUME DistinctSlots PROVE Spec => [](Inv /\ OrderInv)
<1>1. Init => Inv /\ OrderInv
  BY InitInv, InitOrder
<1>2. Inv /\ OrderInv /\ [Next]_vars => (Inv /\ OrderInv)'
  BY NextInv, NextOrder
<1> QED BY <1>1, <1>2, PTL DEF Spec

(* Under a tagged word of an undecided update the words before it are      *)
(* tagged too, however many words it has and whoever helps                 *)
(* (kcas_reuse_htm_impl.h:406, 473, 499).                                  *)
THEOREM TaggedInOrder == ASSUME DistinctSlots PROVE Spec => []WordsTaggedInOrder
<1>1. Inv /\ OrderInv => WordsTaggedInOrder
  <2> SUFFICES ASSUME Inv, OrderInv, NEW a \in Addrs, NEW w, w = mem[a], w.tag = "kcas",
                      Undecided(w), NEW i \in DOMAIN EntriesOf(w), EntriesOf(w)[i].addr < a
               PROVE  mem[EntriesOf(w)[i].addr] = w
    BY DEF WordsTaggedInOrder, EntriesOf, Undecided
  <2>1. w \in IssuedK /\ w \in KTags
    BY DEF Inv, MemInv, Words, Plain, IssuedK, IssuedR, RTags
  <2>2. PrefixTagged(w, a)
    BY <2>1 DEF OrderInv, PrefixInv
  <2>3. PICK n \in DOMAIN EntriesOf(w) : /\ EntriesOf(w)[n].addr = a
                                         /\ \A j \in 1 .. n : mem[EntriesOf(w)[j].addr] = w
    BY <2>2 DEF PrefixTagged
  <2>4. /\ \A j \in DOMAIN EntriesOf(w) : EntriesOf(w)[j].addr \in Nat
        /\ EntriesOf(w) \in Seq(Entries)
    BY <2>1, UndecidedSeq, EntriesBehind, KCASAssumption
  <2>5. i \in Nat \ {0} /\ n \in Nat \ {0}
    BY <2>4, LenProperties
  <2>6. ~(n < i)
    <3>1. n < i => EntriesOf(w)[n].addr <= EntriesOf(w)[i].addr
      BY <2>2, <2>3 DEF PrefixTagged, Ordered
    <3>2. EntriesOf(w)[i].addr \in Nat /\ a \in Nat
      BY <2>3, <2>4
    <3> QED BY <2>3, <3>1, <3>2
  <2>7. i \in 1 .. n
    BY <2>5, <2>6
  <2> QED BY <2>3, <2>7
<1> QED BY <1>1, Invariants, PTL

(* An update is decided to succeed only in a step at which all its words   *)
(* are under its tag, and a decision stands: that step is the instant at   *)
(* which it takes effect in all of them (kcas_reuse_htm_impl.h:405-438).   *)
THEOREM DecidedWhenTagged ==
    ASSUME DistinctSlots
    PROVE  Spec =>
        [][\A s \in Slots :
             kdesc'[s].seq = kdesc[s].seq /\ kdesc[s].state # kdesc'[s].state =>
                 /\ kdesc[s].state = "UNDECIDED"
                 /\ kdesc'[s].state = "SUCCEEDED" =>
                      \A i \in DOMAIN kdesc[s].entries :
                          mem[kdesc[s].entries[i].addr] = KTag(s, kdesc[s].seq)]_vars
<1> DEFINE A == \A s \in Slots :
             kdesc'[s].seq = kdesc[s].seq /\ kdesc[s].state # kdesc'[s].state =>
                 /\ kdesc[s].state = "UNDECIDED"
                 /\ kdesc'[s].state = "SUCCEEDED" =>
                      \A i \in DOMAIN kdesc[s].entries :
                          mem[kdesc[s].entries[i].addr] = KTag(s, kdesc[s].seq)
<1>1. Inv /\ OrderInv /\ [Next]_vars => A
  <2> SUFFICES ASSUME Inv, OrderInv, [Next]_vars, NEW s \in Slots,
                      kdesc'[s].seq = kdesc[s].seq, kdesc[s].state # kdesc'[s].state
               PROVE  /\ kdesc[s].state = "UNDECIDED"
                      /\ kdesc'[s].state = "SUCCEEDED" =>
                           \A i \in DOMAIN kdesc[s].entries :
                               mem[kdesc[s].entries[i].addr] = KTag(s, kdesc[s].seq)
    OBVIOUS
  <2>1. kdesc \in [Slots -> KDescs] /\ kdesc[s] \in KDescs /\ kdesc[s].seq \in Nat
    BY DEF Inv, KDescInv, KDescs
  <2>2. PICK t \in Threads :
             \/ At(t, "Start") /\ Start(t, loc[t])
             \/ At(t, "Initialized") /\ Initialized(t, loc[t])
             \/ Add(t, loc[t]) \/ Transaction(t, loc[t])
             \/ At(t, "Decide") /\ Decide(t, loc[t])
    <3>1. \/ kdesc' = kdesc
          \/ \E t \in Threads :
               \/ At(t, "Start") /\ Start(t, loc[t])
               \/ At(t, "Initialized") /\ Initialized(t, loc[t])
               \/ Add(t, loc[t]) \/ Transaction(t, loc[t])
               \/ At(t, "Decide") /\ Decide(t, loc[t])
      BY DEF Next, vars, Work, Read, Execute, Call, Prepare, RdcssCAS, RdcssFinish, Replace, CASWord
    <3> QED BY <3>1
  <2>3. ASSUME NEW x \in KDescs, NEW es, NEW n
        PROVE  /\ [x EXCEPT !.entries = es].state = x.state
               /\ [x EXCEPT !.seq = n].state = x.state
    BY DEF KDescs
  <2>4. ~(At(t, "Start") /\ Start(t, loc[t]))
    <3>1. CASE s = Slot[t]
      BY <2>1, <3>1 DEF Start
    <3>2. CASE s # Slot[t]
      BY <2>1, <3>2 DEF Start
    <3> QED BY <3>1, <3>2
  <2>5. \A r \in Slots : \A es, n : /\ kdesc' # [kdesc EXCEPT ![r].entries = es]
                                     /\ kdesc' # [kdesc EXCEPT ![r].seq = n]
    <3> SUFFICES ASSUME NEW r \in Slots, NEW es, NEW n,
                        \/ kdesc' = [kdesc EXCEPT ![r] = [kdesc[r] EXCEPT !.entries = es]]
                        \/ kdesc' = [kdesc EXCEPT ![r] = [kdesc[r] EXCEPT !.seq = n]]
                 PROVE  FALSE
      OBVIOUS
    <3>1. CASE r = s
      <4>1. \/ kdesc'[s] = [kdesc[s] EXCEPT !.entries = es]
            \/ kdesc'[s] = [kdesc[s] EXCEPT !.seq = n]
        BY <2>1, <3>1
      <4>2. kdesc'[s].state = kdesc[s].state
        <5>1. /\ [kdesc[s] EXCEPT !.entries = es].state = kdesc[s].state
              /\ [kdesc[s] EXCEPT !.seq = n].state = kdesc[s].state
          BY <2>1, <2>3
        <5> QED BY <4>1, <5>1, Zenon
      <4> QED BY <4>2
    <3>2. CASE r # s
      BY <2>1, <3>2
    <3> QED BY <3>1, <3>2
  <2>6. Slot[t] \in Slots
    BY DEF Slots
  <2>7. ~Add(t, loc[t])
    BY <2>5, <2>6 DEF Add
  <2>8. ~Transaction(t, loc[t])
    <3>1. Transaction(t, loc[t]) => kdesc' = kdesc \/ \E es : kdesc' = [kdesc EXCEPT ![Slot[t]].entries = es]
      BY DEF Transaction
    <3> QED BY <2>5, <2>6, <3>1
  <2>9. ~Initialized(t, loc[t])
    BY <2>5, <2>6 DEF Initialized
  <2>10. At(t, "Decide") /\ Decide(t, loc[t])
    BY <2>2, <2>4, <2>7, <2>8, <2>9
  <2>11. PICK l, f : l = loc[t] /\ f = Top(l)
    OBVIOUS
  <2>12. /\ kdesc' = IF Undecided(f.tag) THEN [kdesc EXCEPT ![f.tag.slot].state = f.newstate]
                                         ELSE kdesc
         /\ Course(t, "Decide", l) /\ l.help \in Seq(Runs) /\ l.help # <<>>
    BY <2>10, <2>11, Here DEF Decide, Undecided, At, OrderInv, Place, Helping
  <2>13. Undecided(f.tag) /\ f.tag.slot = s
    BY <2>1, <2>12
  <2>14. f \in Runs /\ RunInv(f)
    BY <2>11, <2>12, TopRun DEF Course, Installs
  <2>15. /\ f.tag \in KTags /\ f.entries = EntriesOf(f.tag) /\ f.entries \in Seq(Entries)
         /\ f.i \in Nat
    BY <2>13, <2>14, RunEntries
  <2>16. kdesc[s].state = "UNDECIDED" /\ kdesc[s].seq = f.tag.seq
    BY <2>13 DEF Undecided, StateOf
  <2>17. f.tag = KTag(s, kdesc[s].seq)
    BY <2>13, <2>15, <2>16 DEF KTags, KTag
  <2>18. ASSUME kdesc'[s].state = "SUCCEEDED", NEW i \in DOMAIN kdesc[s].entries
         PROVE  mem[kdesc[s].entries[i].addr] = f.tag
    <3>1. kdesc'[s].state = f.newstate
      BY <2>1, <2>12, <2>13 DEF KDescs
    <3>2. f.i > Len(f.entries)
      BY <2>11, <2>12, <2>18, <3>1 DEF Course
    <3>3. i \in DOMAIN f.entries /\ kdesc[s].entries = f.entries
      BY <2>13, <2>15, <2>18 DEF EntriesOf
    <3>4. i < f.i
      BY <2>15, <3>2, <3>3, LenProperties
    <3> QED BY <2>13, <2>14, <3>3, <3>4 DEF RunInv, TaggedBelow
  <2> QED BY <2>16, <2>17, <2>18
<1>2. Inv /\ OrderInv /\ [Next]_vars => [A]_vars
  BY <1>1
<1> QED BY <1>2, Invariants, PTL DEF Spec
=============================================================================
