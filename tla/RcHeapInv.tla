------------------------------ MODULE RcHeapInv ------------------------------
(***************************************************************************)
(* The inductive invariant of RcHeap.  The safety properties follow from   *)
(* exact counters (RcExact), and the counters stay exact only because a    *)
(* collection step finishes what it starts: no object is gray or white     *)
(* when the step is over.  That needs to know, at every moment of the      *)
(* step, from where every gray or white object will still be reached.      *)
(***************************************************************************)
EXTENDS RcHeap

Gray == {o \in Obj : color[o] = "GRAY"}
White == {o \in Obj : color[o] = "WHITE"}
Purple == {o \in Obj : color[o] = "PURPLE"}
Tried == Gray \cup White

Points(p, S) == \E c \in Fields(p) : ref[c] \in S

\* Every part of X that src misses is entered by an edge from the rest of X:
\* X is reachable within itself from src, stated without paths.
Covered(X, src) ==
  \A S \in SUBSET X : S # {} /\ S \cap src = {} => \E p \in X \ S : Points(p, S)

\* The live targets: what an owning cell may point to.
Target == (Held \ dropbuf) \cup {NULL}

CallStack ==
  /\ ~draining => drop = NULL
  /\ drop = NULL => todo = {}
  /\ rel # NULL => ~draining /\ gc = "off"
  /\ drop # NULL => drop \in alloc \cap dropped /\ (drop \in roots => color[drop] = "PURPLE")
  /\ gc \in {"off", "pass1"} => pend = {} /\ batch = {} /\ cwork = {} /\ bwork = {} /\ fwork = {}
  /\ gc = "mark" => bwork = {} /\ fwork = {}
  /\ gc = "scan" => fwork = {}
  /\ gc = "collect" => bwork = {}

Placement ==
  /\ dropbuf \subseteq Held
  /\ roots \subseteq alloc /\ buffered = roots
  /\ gbuf \subseteq alloc /\ gbuf \cap roots = {}
  /\ fwork \subseteq alloc /\ fwork \cap (Tried \cup Purple) = {}
  /\ pend \subseteq batch /\ batch \subseteq roots
  /\ dropped \cap (fwork \cup gbuf) = {}
  /\ \A o \in alloc \cap dropped : rc[o] = 0
  /\ Tried \subseteq Held \ dropbuf
  /\ ~Collector => roots = {} /\ gc = "off"
  /\ gc \in {"off", "pass1"} =>
       Tried = {} /\ \A o \in roots \cap Held : o \in Purple \/ rc[o] >= 2

Ownership ==
  /\ \A c \in Owned : ref[c] \in Target \cup fwork
  /\ \A c \in Counted : ref[c] \in Target
  /\ rel \in Target

MarkPhase ==
  gc = "mark" =>
    /\ White = {}
    /\ cwork \subseteq Held \ dropbuf
    /\ \A p \in Gray : \A c \in Fields(p) : ref[c] \in Gray \cup cwork \cup {NULL}
    /\ \A h \in cwork : h \in Gray \cup batch \/ \E p \in Gray : Points(p, {h})
    /\ Covered(Gray, batch)

ScanPhase ==
  gc = "scan" =>
    /\ cwork \cup bwork \subseteq Held \ Purple
    /\ \A p \in Tried : ~Points(p, Purple)
    /\ \A w \in White : rc[w] = 0 \/ w \in bwork
    /\ Covered(Gray, pend \cup cwork \cup bwork)
    /\ Covered(Tried, batch \cup bwork)

CollectPhase ==
  gc = "collect" =>
    /\ Gray = {}
    /\ \A w \in White : rc[w] = 0
    /\ Covered(White, pend \cup cwork)

\* A candidate is what compaction would keep.  Every member of the batch stops being one,
\* so that a step keeps only candidates from the head of the buffer.
Candidate(h) == h \in Purple /\ rc[h] > 0

RootsBound ==
  /\ gc = "off" => Cardinality(roots) < SOFT_CAP
  /\ gc = "pass1" => Cardinality(roots) <= SOFT_CAP
  /\ gc \in {"mark", "scan", "collect"} => Cardinality(roots \ batch) < SOFT_CAP
  /\ gc = "mark" => \A h \in batch \ pend : Candidate(h) => h \in cwork
  /\ gc \in {"scan", "collect"} => \A h \in batch : ~Candidate(h)

IInv ==
  /\ TypeOK /\ CallStack /\ Placement /\ Ownership /\ RcExact
  /\ MarkPhase /\ ScanPhase /\ CollectPhase

-----------------------------------------------------------------------------
(* That nothing is forgotten needs an invariant of its own.  The root       *)
(* buffer cannot carry it: compaction gives up candidates that have been    *)
(* retained since.  What it needs are the purple objects, whose reference   *)
(* was dropped last: a garbage structure is entered from outside, or it     *)
(* contains the object through which it lost its last entry, still purple.  *)

\* S contains an object that something other than a held object answers for.
Anchored(S) ==
  \/ rel \in S
  \/ S \cap dropbuf # {}
  \/ S \cap Purple # {}
  \/ \E c \in Local \cup DropCells : ref[c] \in S
  \/ gc = "mark" /\ S \cap cwork # {}

\* Trial deletion is over with the settled objects, or has not come to them.
Settled == Held \ Tried
Entered == \A S \in SUBSET Settled : S # {} /\ ~Anchored(S) => \E p \in Settled \ S : Points(p, S)

\* What is still there, and why: an object at count 0 is queued, a purple one is a
\* candidate, a dropped one waits in the buffer for pass 1, which comes first.
Whereabouts ==
  /\ \A o \in Settled : rc[o] = 0 => o \in dropbuf \/ (gc = "mark" /\ o \in cwork)
  /\ Held \cap Purple \subseteq roots \cup dropbuf
  /\ \A o \in (alloc \cap dropped) \ {drop} :
       gc \in {"off", "pass1"} /\ o \in roots /\ color[o] = "BLACK"
  /\ gc = "scan" => \A h \in bwork \cap Tried : rc[h] > 0

Typed == \A c \in Held \X Slot : ref[c] # NULL => <<c[1], ref[c]>> \in Shape

\* jrt_shutdown: the locals and the drop queue are empty, then the root buffer, then gbuf.
Ending ==
  /\ pc \in {"exit", "flush", "done"} => rel = NULL /\ \A v \in Local : ref[v] = NULL
  /\ pc = "exit" => IF draining THEN left = -1 ELSE dropbuf = {}
  /\ pc \in {"flush", "done"} => gc = "off" /\ drop = NULL /\ dropbuf \cup roots \cup gbuf = {}

LeakInv == Entered /\ Whereabouts /\ Typed /\ Ending

\* Two conditions: collector_trim, which only a build with the collector has, never meets a
\* drop queue as large as those it discards; and the types of a program without the
\* collector admit no cycle.
QueueKept == Collector => dropcap <= TRIM_CAP
Acyclic == \A S \in SUBSET Obj : S # {} => \E o \in S : \A p \in S : <<p, o>> \notin Shape

\* A condition that suffices for the first: the heap has no room to fill a queue that large.
HeapFits == DROP_CAP0 <= TRIM_CAP /\ 2 * Cardinality(Obj) <= TRIM_CAP
=============================================================================
