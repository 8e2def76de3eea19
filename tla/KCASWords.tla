----------------------------- MODULE KCASWords ------------------------------
(***************************************************************************)
(* What the words of KCAS stand for, and its properties.                   *)
(***************************************************************************)
EXTENDS KCAS

VARIABLE
    done    \* history: done[w] is the descriptor of the update that had the
            \* tag w, as it was last; the code uses descriptors again

hvars == <<mem, kdesc, rdesc, pc, loc, calls, done>>

(* The tags of the updates that help is at work on for their own threads.  *)
Published == {loc[t].help[1].tag : t \in {u \in Threads : loc[u].fn = "execute" /\ loc[u].help # <<>>}}

HInit == Init /\ done = <<>>

Remembered ==
    done' = [w \in DOMAIN done \cup Published' |->
               IF kdesc'[w.slot].seq = w.seq THEN kdesc'[w.slot] ELSE done[w]]

HNext == Next /\ Remembered

HSpec == HInit /\ [][HNext]_hvars

EntryAt(es, a) == es[CHOOSE i \in DOMAIN es : es[i].addr = a]

(* A word under a tag has the value that the operation behind it expects,  *)
(* until this is decided to succeed.                                       *)
Logical(a) ==
    LET w == mem[a]
    IN  CASE w.tag = "none" -> w.v
          [] w.tag = "rdcss" -> rdesc[w.slot].old.v
          [] w.tag = "kcas" -> IF done[w].state = "SUCCEEDED" THEN EntryAt(done[w].entries, a).new
                                                             ELSE EntryAt(done[w].entries, a).old

(* How far the execute of t is decided; its own operation is at the bottom *)
(* of the stack.                                                           *)
OwnState(t) == IF loc[t].help = <<>> THEN "UNDECIDED" ELSE done[loc[t].help[1].tag].state

AbstractCall(t) ==
    LET l == loc[t]
    IN  CASE pc[t] = "idle" -> [state |-> "idle"]
          [] pc[t] = "Return" -> [state |-> "answered", result |-> l.result]
          [] pc[t] \notin {"idle", "Return"} /\ l.fn = "read" ->
                [state |-> "reading", addr |-> l.addr]
          [] pc[t] \notin {"idle", "Return"} /\ l.fn = "execute" ->
                IF OwnState(t) \in {"SUCCEEDED", "FAILED"}
                THEN [state |-> "answered", result |-> OwnState(t) = "SUCCEEDED"]
                ELSE [state |-> "updating", request |-> l.request]

Abstract == INSTANCE AtomicWords WITH
    word <- [a \in Addrs |-> Logical(a)],
    call <- [t \in Threads |-> AbstractCall(t)]

-----------------------------------------------------------------------------
(* Properties *)

(* A descriptor is copied while its owner may be filling it for the next   *)
(* operation, and put in order after it was announced: still, as long as   *)
(* the number in a tag is the descriptor's, what a thread works from under *)
(* that tag is what the descriptor holds (kcas_reuse_htm_impl.h:135-160,   *)
(* 341-347, 381-388, 499).                                                 *)
CopiesAgree ==
    \A t \in Threads :
        /\ \A i \in DOMAIN loc[t].help :
             LET f == loc[t].help[i]
             IN  kdesc[f.tag.slot].seq = f.tag.seq => f.entries = kdesc[f.tag.slot].entries
        /\ LET l == loc[t]
           IN  pc[t] \in {"RdcssRead", "RdcssFinish"} /\ rdesc[l.met.slot].seq = l.met.seq =>
                   l.snapshot = rdesc[l.met.slot]

(* A k-word update takes effect at one instant, in all its words or in     *)
(* none, and reads see the words before or after it, whoever helps         *)
(* (kcas_reuse_htm_impl.h:390-451, 468-513).                               *)
ImplementsAtomicWords == Abstract!ASpec

(* A tag in a word leads somewhere as long as its descriptor serves the    *)
(* operation that the tag stands for.  That of an rdcss always does, and   *)
(* that of an update whose outcome is success: nobody puts it in a word    *)
(* again, and the owner takes it out of all words before it goes on.  What *)
(* a late helper leaves behind is the tag of an update that failed, and    *)
(* so it hides a value but changes none (kcas_reuse_htm_impl.h:326-347,    *)
(* 434-450, 531-536).                                                      *)
OnlyFailuresLeaveTags ==
    \A a \in Addrs :
        LET w == mem[a]
        IN  /\ w.tag = "rdcss" => rdesc[w.slot].seq = w.seq
            /\ w.tag = "kcas" => kdesc[w.slot].seq = w.seq \/ done[w].state = "FAILED"

(* The comment on the sorting speaks of guaranteed progress and that of    *)
(* rdcssHelp of the tag of a finished update being taken back              *)
(* (kcas_reuse_htm_impl.h:335, 473): a tag in a word always leads          *)
(* somewhere, to a descriptor that still serves its operation, so that     *)
(* whoever meets it can finish that, or a thread is finishing it.  Under   *)
(* any other tag the word is lost: loads and updates of it spin for ever   *)
(* (kcas_reuse_htm_impl.h:326-347, 381-388, 440-448, 505-513).             *)
TagsLeadSomewhere ==
    \A a \in Addrs :
        LET w == mem[a]
        IN  /\ w.tag = "rdcss" => rdesc[w.slot].seq = w.seq
            /\ w.tag = "kcas" =>
                 \/ kdesc[w.slot].seq = w.seq
                 \/ \E t \in Threads : \E f \in Range(loc[t].help) : f.tag = w

(* An undecided operation tags its words in the order of their addresses:  *)
(* under a tagged word the words before it are tagged too.  That is why a  *)
(* helper begins at the second (kcas_reuse_htm_impl.h:406), and why two    *)
(* operations never stand in each other's way (473, 499).                  *)
WordsTaggedInOrder ==
    \A a \in Addrs :
        LET w == mem[a]
            entries == kdesc[w.slot].entries
        IN  w.tag = "kcas" /\ StateOf(w) = "UNDECIDED" =>
                \A i \in DOMAIN entries :
                    entries[i].addr < a => mem[entries[i].addr] = w

(* "only the process invoking this following macro can change the          *)
(* sequence#" (kcas_reuse_htm_impl.h:144): between start and the end of    *)
(* execute no other thread's step changes it.                              *)
OnlyOwnerChangesSequence ==
    [][\A t \in Threads :
         pc[t] \notin {"idle", "Load", "Start", "Return"} /\ loc'[t] = loc[t] =>
             kdesc'[Slot[t]].seq = kdesc[Slot[t]].seq]_vars
=============================================================================
