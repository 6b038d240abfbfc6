------------------------------ MODULE RcArrays ------------------------------
(***************************************************************************)
(* RcHeap with reference arrays.  A field store overwrites the field and   *)
(* then releases the old value; jrt_aastore and System.arraycopy release   *)
(* the old elements first and overwrite the slots when the releases, with  *)
(* the cascades and collection steps they start, have returned.            *)
(***************************************************************************)
EXTENDS RcHeap

CONSTANT Arrays   (* the objects that are reference arrays; Slot = indices  *)

ASSUME ArraysAssumption == Arrays \subseteq Obj /\ Slot \subseteq Nat

VARIABLES
  writes, (* array cell -> the retained value the operation will write there *)
  owed    (* those cells whose old element it has not released yet           *)

arrayvars == <<vars, writes, owed>>

NoWrites == [c \in {} |-> NULL]

InitArrays == Init /\ writes = NoWrites /\ owed = {}

\* Mutant: the new values are stored without a retain.
BeginWritesUncounted(ws) ==
  /\ Running
  /\ \A c \in DOMAIN ws : ws[c] # NULL => <<c[1], ws[c]>> \in Shape
  /\ writes' = ws /\ owed' = DOMAIN ws
  /\ pc' = "store"
  /\ UNCHANGED <<alloc, ref, rel, header, cascade, dropqueue, roots, gc, traversal, gbuf>>

\* Retain every value that is about to be written, and owe the old elements.
BeginWrites(ws) ==
  /\ Running
  /\ \A c \in DOMAIN ws : ws[c] # NULL => <<c[1], ws[c]>> \in Shape
  /\ rc' = [o \in Obj |-> rc[o] + Cardinality({c \in DOMAIN ws : ws[c] = o})]
  /\ color' = [o \in Obj |-> IF \E c \in DOMAIN ws : ws[c] = o THEN "BLACK" ELSE color[o]]
  /\ writes' = ws /\ owed' = DOMAIN ws
  /\ pc' = "store"
  /\ UNCHANGED <<alloc, ref, rel, buffered, cascade, dropqueue, roots, gc, traversal, gbuf>>

AAStore(w, s, v) ==
  /\ ref[w] \in Arrays
  /\ BeginWrites([c \in {<<ref[w], s>>} |-> ref[v]])

\* len elements from index i of the source to index j of the destination; the
\* copy direction makes an overlapping copy write the values read here.
ArrayCopy(w, v, i, j, len) ==
  /\ ref[w] \in Arrays /\ ref[v] \in Arrays
  /\ len > 0 /\ i .. i + len - 1 \subseteq Slot /\ j .. j + len - 1 \subseteq Slot
  /\ BeginWrites([c \in {ref[v]} \X (j .. j + len - 1) |-> ref[<<ref[w], c[2] - j + i>>]])

\* Mutant: the copy releases what it writes instead of what it overwrites.
ReleaseNewElement(c) ==
  /\ pc = "store" /\ Idle /\ c \in owed
  /\ owed' = owed \ {c}
  /\ rel' = writes[c]
  /\ UNCHANGED <<alloc, ref, pc, header, cascade, dropqueue, roots, gc, traversal, gbuf,
                 writes>>

\* Mutant: the old element is not released at all.
ReleaseNoElement(c) ==
  /\ pc = "store" /\ Idle /\ c \in owed
  /\ owed' = owed \ {c}
  /\ UNCHANGED <<vars, writes>>

\* jrt_release of one old element, which stays in its slot meanwhile.
ReleaseElement(c) ==
  /\ pc = "store" /\ Idle /\ c \in owed
  /\ owed' = owed \ {c}
  /\ rel' = ref[c]
  /\ UNCHANGED <<alloc, ref, pc, header, cascade, dropqueue, roots, gc, traversal, gbuf,
                 writes>>

WriteElements ==
  /\ pc = "store" /\ Idle /\ owed = {}
  /\ ref' = [c \in Cell |-> IF c \in DOMAIN writes THEN writes[c] ELSE ref[c]]
  /\ writes' = NoWrites
  /\ pc' = "run"
  /\ UNCHANGED <<alloc, rel, header, cascade, dropqueue, roots, gc, traversal, gbuf, owed>>

MutateArrays ==
  \/ \E v, w \in Local : CopyLocal(v, w)
  \/ \E v, w \in Local, s \in Slot :
       GetField(v, w, s) \/ (ref[w] \notin Arrays /\ PutField(w, s, v))
  \/ \E w \in Local, s \in Slot : ref[w] \notin Arrays /\ PutNull(w, s)
  \/ \E v \in Local : Release(v)
  \/ BeginNew
  \/ Exit

NextArrays ==
  \/ (MutateArrays \/ Runtime) /\ UNCHANGED <<writes, owed>>
  \/ \E w, v \in Local, s \in Slot : AAStore(w, s, v)
  \/ \E w, v \in Local, i, j \in Slot, len \in 1 .. Cardinality(Slot) :
       ArrayCopy(w, v, i, j, len)
  \/ \E c \in owed : ReleaseElement(c)
  \/ WriteElements

SpecArrays == InitArrays /\ [][NextArrays]_arrayvars

\* Counters stay exact while an array operation is under way: a slot whose old element
\* has been released no longer counts, a value on its way to a slot already does.
RcExactWithArrays ==
  \A o \in Held :
    rc[o] = Cardinality({c \in Counted \ (DOMAIN writes \ owed) : ref[c] = o})
          + Cardinality({c \in DOMAIN writes : writes[c] = o})
          + (IF rel = o THEN 1 ELSE 0)

\* "Collected garbage is unreachable": no local refers to an object that has been freed
\* or that the collector has claimed, in the middle of an array operation or after it.
CollectedIsUnreachable ==
  \A v \in Local : ref[v] \in (alloc \ (fwork \cup gbuf)) \cup {NULL}

\* The program sees its cells as they are when the operation it is in has returned.
Seen == [c \in Cell |-> IF c \in DOMAIN writes THEN writes[c] ELSE ref[c]]

ArrayHeap == INSTANCE ManagedHeap WITH objs <- alloc, ref <- Seen

\* An array operation takes effect at once, as the program sees it: whatever its releases
\* free is unreachable through the new elements, although the old ones are in place.
ImplementsHeapWithArrays == ArrayHeap!Spec
=============================================================================
