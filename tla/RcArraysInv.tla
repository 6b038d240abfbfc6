----------------------------- MODULE RcArraysInv -----------------------------
(***************************************************************************)
(* The inductive invariant of RcArrays in a build without the collector.   *)
(* Outside of an array operation it is the one of RcHeap.  During one, a   *)
(* slot whose old element has been released is stale: it may point to an   *)
(* object that is gone, and the retained value that will be written there  *)
(* counts in its place.  The stale slots do no harm because the array is   *)
(* in a local all the while, so that no drop function comes to them.       *)
(***************************************************************************)
EXTENDS RcArrays, RcHeapInv

Stale == DOMAIN writes \ owed

\* What counts towards o: the cells that are not stale, and the values on their way.
Holding(o) == {c \in Owned \ Stale : ref[c] = o}
Coming(o) == {c \in DOMAIN writes : writes[c] = o}

\* The values on their way are live, fit their slots, and go to an array the program holds.
Operation ==
  /\ owed \subseteq DOMAIN writes
  /\ \E v \in Local : ref[v] # NULL /\ DOMAIN writes \subseteq Fields(ref[v])
  /\ \A c \in DOMAIN writes :
       writes[c] \in Target /\ (writes[c] # NULL => <<c[1], writes[c]>> \in Shape)

\* The types of a state without a collection step, whatever the program is doing.
StoreTypes ==
  /\ alloc \subseteq Obj /\ ref \in [Cell -> Obj \cup {NULL}] /\ rc \in [Obj -> Nat]
  /\ color \in [Obj -> {"BLACK", "PURPLE"}]
  /\ rel \in Obj \cup {NULL} /\ drop \in Obj \cup {NULL}
  /\ draining \in BOOLEAN /\ left \in Int /\ todo \subseteq Slot
  /\ dropped \subseteq Obj /\ dropbuf \subseteq Obj /\ dropcap \in Nat /\ gbuf \subseteq Obj
  /\ gc = "off" /\ roots \cup buffered \cup batch \cup pend \cup cwork \cup bwork \cup fwork = {}

\* Where the objects are: Placement and Whereabouts of RcHeap without the collector.
Places ==
  /\ dropbuf \subseteq Held /\ gbuf \subseteq alloc /\ dropped \cap gbuf = {}
  /\ alloc \cap dropped \subseteq {drop} /\ (drop # NULL => rc[drop] = 0)
  /\ \A o \in Held : rc[o] = 0 => o \in dropbuf
  /\ Held \cap Purple \subseteq dropbuf

\* During an array operation.
StoreInv ==
  /\ StoreTypes /\ CallStack /\ Places /\ Operation /\ Typed
  /\ \A c \in Owned \ Stale : ref[c] \in Target
  /\ rel \in Target
  /\ RcExactWithArrays

IInvArrays ==
  IF pc = "store" THEN StoreInv
  ELSE IInv /\ Whereabouts /\ Typed /\ Ending /\ writes = NoWrites /\ owed = {}
=============================================================================
