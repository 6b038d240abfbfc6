-------------------------- MODULE RcHeapLeakProofs --------------------------
(***************************************************************************)
(* Nothing is forgotten: every object that is not freed is still held by   *)
(* the program, or is entered in a buffer that a later step of the runtime *)
(* works on; and when jrt_shutdown returns, no object is left.             *)
(***************************************************************************)
EXTENDS RcHeapProofs

\* The parts of the invariant that do not speak of reachability.
Bookkeeping == Whereabouts /\ Typed /\ Ending

-----------------------------------------------------------------------------
(* Fields have their declared types                                         *)

\* Fields that keep their values, of objects that were held before, keep their types.
LEMMA TypedSame ==
  ASSUME Typed, ref' = ref, Held' \subseteq Held
  PROVE  Typed'
BY DEF Typed

\* A store into a local changes no field.
LEMMA TypedLocal ==
  ASSUME IInv, Typed, NEW v \in Local, NEW x, ref' = [ref EXCEPT ![v] = x], Held' = Held
  PROVE  Typed'
<1>1. \A c \in Held \X Slot : c # v /\ c \in Cell
  BY CellSets, ConstantsAssumption DEF IInv, Cell
<1> QED BY <1>1 DEF Typed, IInv, TypeOK

\* The objects that stay held in a step that frees, drops or claims none of them.
LEMMA HeldSame ==
  ASSUME UNCHANGED <<dropped, fwork>>, alloc' = alloc, gbuf' = gbuf
  PROVE  Held' = Held
BY DEF Held

\* The steps of the program.
LEMMA TypedMutate == ASSUME IInv, Typed, Mutate PROVE Typed'
<1> USE DEF traversal, cascade
<1>1. ASSUME NEW v \in Local, NEW x, Store(v, x) PROVE Typed'
  BY <1>1, TypedLocal, HeldSame DEF Store
<1>2. ASSUME NEW v \in Local, NEW w \in Local, NEW s \in Slot, PutField(w, s, v) \/ PutNull(w, s)
      PROVE  Typed'
  <2>1. PICK x \in {ref[v], NULL} :
          /\ ref' = [ref EXCEPT ![<<ref[w], s>>] = x] /\ Held' = Held
          /\ x # NULL => <<ref[w], x>> \in Shape
    BY <1>2, HeldSame DEF PutField, PutNull, Store
  <2>2. PICK c : c = <<ref[w], s>>
    OBVIOUS
  <2>3. \A d \in Held \X Slot : d \in Cell /\ ref'[d] = IF d = c THEN x ELSE ref[d]
    BY <2>1, <2>2, CellSets DEF IInv, TypeOK, Cell
  <2> QED BY <2>1, <2>2, <2>3 DEF Typed
<1>3. ASSUME BeginNew \/ Exit PROVE Typed'
  BY <1>3, HeldSame, TypedSame DEF BeginNew, Exit
<1> QED BY <1>1, <1>2, <1>3 DEF Mutate, CopyLocal, GetField, Release

\* The steps of a collection.
LEMMA TypedCollect == ASSUME IInv, Typed, CollectStep PROVE Typed'
<1> USE DEF program, cascade, traversal
<1>1. ASSUME Pass1 PROVE Typed'
  BY <1>1, TypedSame DEF Pass1, Held
<1>2. ASSUME Compact PROVE Typed'
  <2>1. Held' \subseteq Held
    BY <1>2 DEF Compact, Held
  <2> QED BY <1>2, <2>1, TypedSame DEF Compact
<1>3. ASSUME NEW from, NEW to, NextPass(from, to) PROVE Typed'
  BY <1>3, HeldSame, TypedSame DEF NextPass
<1>4. ASSUME NEW h, MarkRoot(h) \/ ScanRoot(h) \/ CollectRoot(h) PROVE Typed'
  BY <1>4, HeldSame, TypedSame DEF MarkRoot, ScanRoot, CollectRoot, Visit
<1>5. ASSUME NEW h, MarkGray(h) \/ Scan(h) \/ ScanBlack(h) PROVE Typed'
  BY <1>5, HeldSame, TypedSame DEF MarkGray, Scan, ScanBlack
<1>6. ASSUME NEW h, CollectWhite(h) PROVE Typed'
  BY <1>6, TypedSame DEF CollectWhite, Held
<1> QED BY <1>1, <1>2, <1>3, <1>4, <1>5, <1>6 DEF CollectStep

\* Every step.
LEMMA NextTyped == ASSUME IInv, Typed, [Next]_vars PROVE Typed'
<1> USE DEF program, cascade, traversal
<1>1. ASSUME ReleaseOld \/ DrainDone \/ CollectCycles \/ Done PROVE Typed'
  BY <1>1, HeldSame, TypedSame DEF ReleaseOld, DrainDone, CollectCycles, Done
<1>2. ASSUME PumpGbuf \/ Flush PROVE Typed'
  <2>1. PICK F : gbuf' = gbuf \ F /\ alloc' = alloc \ F /\ F \subseteq gbuf
    BY <1>2, DrainGbufLemma DEF PumpGbuf, Flush, IInv
  <2>2. Held' \subseteq Held /\ ref' = ref
    BY <1>2, <2>1 DEF PumpGbuf, Flush, Held
  <2> QED BY <2>2, TypedSame
<1>3. ASSUME NEW v \in Local, NEW o \in Obj, Make(v, o) PROVE Typed'
  <2>1. Held' \subseteq Held \cup {o}
    BY <1>3 DEF Make, Held
  <2>2. \A c \in Held' \X Slot : c \in Cell /\ c # v
    BY <2>1, CellSets, ConstantsAssumption DEF IInv, Cell
  <2>3. \A c \in Held' \X Slot : ref'[c] = IF c[1] = o THEN NULL ELSE ref[c]
    BY <1>3, <2>2 DEF Make, Fields
  <2> QED BY <2>1, <2>3 DEF Typed
<1>4. ASSUME NEW x, DrainNext(x) PROVE Typed'
  BY <1>4, TypedSame DEF DrainNext, Held
<1>5. ASSUME NEW s, DropField(s) PROVE Typed'
  BY <1>5, HeldSame, TypedSame DEF DropField
<1>6. ASSUME DropEnd PROVE Typed'
  BY <1>6, TypedSame DEF DropEnd, Held
<1>7. CASE UNCHANGED vars
  BY <1>7, HeldSame, TypedSame DEF vars
<1> QED BY <1>1, <1>2, <1>3, <1>4, <1>5, <1>6, <1>7, TypedMutate, TypedCollect DEF Next, Runtime

-----------------------------------------------------------------------------
(* The way to the end of the program                                        *)

\* Only Exit, CollectCycles, Flush and Done move the shutdown on, each when the work of the
\* one before is done.
LEMMA NextEnding == ASSUME IInv, Ending, [Next]_vars PROVE Ending'
<1> USE DEF program, traversal, dropqueue
<1>1. ASSUME Mutate PROVE Ending'
  <2>1. ASSUME NEW c, NEW x, Store(c, x) PROVE Ending'
    BY <2>1 DEF Store, Running, Ending
  <2>2. ASSUME BeginNew PROVE Ending'
    BY <2>2 DEF BeginNew, Ending
  <2>3. ASSUME Exit PROVE Ending'
    BY <2>3 DEF Exit, StartDrain, Running, Idle, Ending
  <2> QED BY <1>1, <2>1, <2>2, <2>3 DEF Mutate, CopyLocal, GetField, PutField, PutNull, Release
<1>2. ASSUME ReleaseOld PROVE Ending'
  BY <1>2 DEF ReleaseOld, Ending
<1>3. ASSUME NEW v, NEW o, PumpGbuf \/ Make(v, o) PROVE Ending'
  BY <1>3 DEF PumpGbuf, Make, Ending
<1>4. ASSUME NEW x, DrainNext(x) PROVE Ending'
  BY <1>4 DEF DrainNext, Ending
<1>5. ASSUME NEW s, DropField(s) PROVE Ending'
  <2>1. drop # NULL /\ draining
    BY <1>5 DEF DropField, IInv, CallStack
  <2> QED BY <1>5, <2>1 DEF DropField, Ending
<1>6. ASSUME DropEnd PROVE Ending'
  <2>1. drop # NULL /\ draining
    BY <1>6 DEF DropEnd, IInv, CallStack
  <2> QED BY <1>6, <2>1 DEF DropEnd, Ending
<1>7. ASSUME DrainDone PROVE Ending'
  BY <1>7 DEF DrainDone, Ending
<1>8. ASSUME CollectStep PROVE Ending'
  <2> DEFINE Quiet == /\ gc # "off" /\ dropbuf' \subseteq dropbuf
                      /\ UNCHANGED <<pc, rel, ref, draining, left>>
  <2>1. Quiet
    <3>1. ASSUME Pass1 \/ Compact PROVE Quiet
      BY <3>1 DEF Pass1, Compact, cascade
    <3>2. ASSUME NextPass("mark", "scan") \/ NextPass("scan", "collect") PROVE Quiet
      BY <3>2 DEF NextPass, cascade
    <3>3. ASSUME NEW h, MarkRoot(h) \/ ScanRoot(h) \/ CollectRoot(h) PROVE Quiet
      BY <3>3 DEF MarkRoot, ScanRoot, CollectRoot, Visit, cascade
    <3>4. ASSUME NEW h, MarkGray(h) \/ Scan(h) \/ ScanBlack(h) \/ CollectWhite(h) PROVE Quiet
      BY <3>4 DEF MarkGray, Scan, ScanBlack, CollectWhite, cascade
    <3> QED BY <1>8, <3>1, <3>2, <3>3, <3>4 DEF CollectStep
  <2> QED BY <2>1 DEF Ending
<1>9. ASSUME CollectCycles PROVE Ending'
  BY <1>9 DEF CollectCycles, Ending, cascade
<1>10. ASSUME Flush PROVE Ending'
  <2>1. dropbuf = {} /\ roots = {} /\ gc = "off" /\ drop = NULL
    BY <1>10 DEF Flush, Idle, Ending, IInv, CallStack
  <2>2. gbuf' = {}
    <3>1. PICK F \in SUBSET gbuf : /\ Cardinality(F) = Cardinality(gbuf)
                                   /\ gbuf' = gbuf \ F
      <4>1. IsFiniteSet(gbuf)
        BY ConstantsAssumption, FS_Subset DEF IInv, TypeOK
      <4>2. Cardinality(gbuf) \in Nat
        BY <4>1, FS_CardinalityType
      <4> QED BY <1>10, <4>2 DEF Flush, DrainGbuf
    <3>2. IsFiniteSet(gbuf)
      BY ConstantsAssumption, FS_Subset DEF IInv, TypeOK
    <3>3. F = gbuf
      BY <3>1, <3>2, FS_Subset
    <3> QED BY <3>1, <3>3
  <2> QED BY <1>10, <2>1, <2>2 DEF Flush, Ending
<1>11. ASSUME Done PROVE Ending'
  BY <1>11 DEF Done, Ending, cascade
<1>12. CASE UNCHANGED vars
  BY <1>12 DEF vars, cascade, Ending
<1> QED BY <1>1, <1>2, <1>3, <1>4, <1>5, <1>6, <1>7, <1>8, <1>9, <1>10, <1>11, <1>12
        DEF Next, Runtime

-----------------------------------------------------------------------------
(* Where the objects are that will be freed later                           *)

\* Outside of a step's traversals, and without work for them, the lists are empty.
LEMMA NoTraversal ==
  ASSUME IInv, gc \in {"off", "pass1"}
  PROVE  Tried = {} /\ Settled = Held /\ cwork = {} /\ bwork = {} /\ fwork = {}
BY DEF IInv, CallStack, Placement, Settled

\* Steps that change no counter, colour or buffer.
LEMMA WhereSame ==
  ASSUME IInv, Whereabouts,
         UNCHANGED <<rc, color, dropbuf, roots, dropped, drop, bwork>>,
         Held' = Held, alloc' \subseteq alloc,
         gc' = gc \/ {gc, gc'} \subseteq {"off", "pass1"},
         gc = "mark" => cwork \subseteq cwork' \cup Gray
  PROVE  Whereabouts'
<1>1. Tried' = Tried /\ Purple' = Purple /\ Settled' = Settled
  BY DEF Tried, Gray, White, Purple, Settled
<1>2. Settled \cap Gray = {}
  BY DEF Settled, Tried
<1> QED BY <1>1, <1>2 DEF Whereabouts

\* A store retains: no counter becomes 0, no object a candidate.
LEMMA WhereStore ==
  ASSUME IInv, Whereabouts, NEW c, NEW x \in Obj \cup {NULL}, Store(c, x)
  PROVE  Whereabouts'
<1> USE DEF cascade, dropqueue, traversal
<1>1. /\ gc = "off" /\ \A o \in Obj : rc[o] \in Nat /\ rc'[o] \in {rc[o], rc[o] + 1}
      /\ \A o \in Obj : color'[o] \in {color[o], "BLACK"}
      /\ UNCHANGED <<alloc, dropbuf, roots, gc, dropped, drop, bwork>>
  BY DEF Store, Retain, Running, Idle, IInv, TypeOK
<1>2. Held' = Held /\ Held \subseteq Obj
  BY CellSets DEF Store, Held, IInv
<1>3. Purple' \subseteq Purple /\ Settled' \subseteq Settled /\ Settled \subseteq Obj
  BY <1>1, <1>2, NoTraversal DEF Purple, Settled
<1>4. \A o \in Settled' : rc'[o] = 0 => o \in dropbuf
  BY <1>1, <1>3 DEF Whereabouts
<1>5. \A o \in (alloc \cap dropped) \ {drop} : o \in roots /\ color'[o] = "BLACK"
  BY <1>1 DEF Whereabouts, IInv, TypeOK
<1> QED BY <1>1, <1>2, <1>3, <1>4, <1>5 DEF Whereabouts

\* A release queues what it brings to 0, and makes anything else a purple candidate.
LEMMA WhereRelease ==
  ASSUME IInv, Whereabouts, gc = "off", NEW o \in Held \ dropbuf, rc[o] >= 1,
         ReleaseLast(o) \/ ReleaseShared(o),
         UNCHANGED <<alloc, dropped, drop, fwork, gbuf, bwork>>
  PROVE  /\ Whereabouts'
         /\ Collector => o \in dropbuf' \cup Purple'
<1>1. /\ rc' = [rc EXCEPT ![o] = rc[o] - 1]
      /\ \A p \in Obj : p # o => color'[p] = color[p]
      /\ Tried' = {} /\ Purple \subseteq Purple'
      /\ gc' \in {"off", "pass1"} /\ dropbuf \subseteq dropbuf'
  BY ReleaseFrame
<1>2. Held' = Held /\ Held \subseteq Obj /\ o \in Obj /\ o \notin dropped
  BY CellSets DEF Held, IInv
<1>3. /\ roots \subseteq roots' /\ (o \in Purple' => o \in Purple \/ o \in roots')
      /\ Collector => o \in dropbuf' \cup Purple'
      /\ rc[o] = 1 => o \in dropbuf'
  <2>1. CASE ReleaseLast(o)
    BY <2>1 DEF ReleaseLast, DropEnq, Purple
  <2>2. CASE ReleaseShared(o) /\ ~Collector
    BY <2>2 DEF ReleaseShared, dropqueue, Purple
  <2>3. CASE ReleaseShared(o) /\ Collector
    <3>1. PossibleRoot(o) /\ rc[o] # 1
      BY <2>3 DEF ReleaseShared
    <3>2. buffered = roots /\ color \in [Obj -> {"BLACK", "GRAY", "WHITE", "PURPLE"}]
      BY DEF IInv, Placement, TypeOK
    <3>3. CASE color[o] = "PURPLE"
      BY <1>2, <3>1, <3>3 DEF PossibleRoot, Purple
    <3>4. CASE color[o] # "PURPLE"
      <4>1. o \in Purple'
        BY <1>2, <3>1, <3>2, <3>4 DEF PossibleRoot, Purple
      <4>2. roots \subseteq roots' /\ o \in roots'
        BY <3>1, <3>2, <3>4 DEF PossibleRoot
      <4> QED BY <3>1, <4>1, <4>2
    <3> QED BY <3>3, <3>4
  <2> QED BY <2>1, <2>2, <2>3
<1>4. \A p \in Held : rc'[p] = 0 => p \in dropbuf'
  <2> SUFFICES ASSUME NEW p \in Held, rc'[p] = 0 PROVE p \in dropbuf'
    OBVIOUS
  <2>1. p \in Obj /\ rc[p] \in Nat /\ p \in Settled
    BY <1>2, NoTraversal DEF IInv, TypeOK
  <2>2. CASE p = o
    BY <1>1, <1>2, <1>3, <2>1, <2>2 DEF IInv, TypeOK
  <2>3. CASE p # o
    BY <1>1, <2>1, <2>3 DEF IInv, TypeOK, Whereabouts
  <2> QED BY <2>2, <2>3
<1>5. Held \cap Purple' \subseteq roots' \cup dropbuf'
  BY <1>1, <1>2, <1>3 DEF Whereabouts, Purple
<1>6. \A p \in (alloc \cap dropped) \ {drop} : p \in roots' /\ color'[p] = "BLACK"
  BY <1>1, <1>2, <1>3 DEF Whereabouts, IInv, TypeOK
<1> QED BY <1>1, <1>2, <1>3, <1>4, <1>5, <1>6 DEF Whereabouts, Settled

\* Who releases what: the old value of a store, or a field of a dropped object.
LEMMA ReleaseOldFacts ==
  ASSUME IInv, ReleaseOld
  PROVE  /\ rel \in Held \ dropbuf /\ rc[rel] >= 1 /\ gc = "off"
         /\ ReleaseLast(rel) \/ ReleaseShared(rel)
         /\ UNCHANGED <<alloc, ref, pc, drop, todo, dropped, fwork, gbuf, bwork>>
<1>1. rel # NULL /\ gc = "off"
  BY DEF ReleaseOld
<1>2. rel \in Held \ dropbuf
  BY <1>1 DEF IInv, Ownership, Target
<1>3. rc[rel] >= 1
  BY <1>2, RefsFinite DEF IInv, RcExact
<1> QED BY <1>1, <1>2, <1>3 DEF ReleaseOld, traversal

LEMMA DropFieldFacts ==
  ASSUME IInv, NEW s \in todo, DropField(s), NEW k, k = ref[<<drop, s>>], k # NULL
  PROVE  /\ k \in Held \ dropbuf /\ rc[k] >= 1
         /\ ReleaseLast(k) \/ ReleaseShared(k)
<1>1. drop \in Obj /\ s \in Slot /\ gc = "off" /\ drop # NULL
  BY DEF DropField, IInv, TypeOK
<1>2. PICK c : c = <<drop, s>>
  OBVIOUS
<1>3. c \in DropCells /\ c \in Owned /\ k = ref[c]
  BY <1>1, <1>2 DEF DropCells, Owned
<1>4. c \in Counted
  BY <1>1, <1>3, NoTraversal, AllCounted DEF IInv
<1>5. k \in Held \ dropbuf
  BY <1>3, <1>4 DEF IInv, Ownership, Target
<1>6. rc[k] >= 1
  BY <1>3, <1>4, <1>5, Referenced DEF IInv
<1> QED BY <1>5, <1>6 DEF DropField

\* A new object has one reference and no colour.
LEMMA WhereMake ==
  ASSUME IInv, Whereabouts, NEW v \in Local, NEW o \in Obj, Make(v, o)
  PROVE  Whereabouts'
<1> USE DEF dropqueue, traversal
<1>1. /\ gc = "off" /\ o \notin alloc /\ alloc' = alloc \cup {o} /\ dropped' = dropped \ {o}
      /\ \A p \in Obj \ {o} : rc'[p] = rc[p] /\ color'[p] = color[p]
      /\ rc'[o] = 1 /\ color'[o] = "BLACK"
      /\ UNCHANGED <<drop, dropbuf, roots, gc, fwork, gbuf, bwork>>
  BY DEF Make, Idle, IInv, TypeOK
<1>2. Held' = Held \cup {o} /\ Held \subseteq Obj /\ Settled = Held /\ o \notin Held
  BY <1>1, NoTraversal, CellSets DEF Held, IInv, CallStack, Placement
<1>3. \A p \in Held' : rc'[p] = 0 => p \in dropbuf
  BY <1>1, <1>2 DEF Whereabouts
<1>4. Held' \cap Purple' \subseteq roots \cup dropbuf
  BY <1>1, <1>2 DEF Whereabouts, Purple
<1>5. \A p \in (alloc' \cap dropped') \ {drop} : p \in roots /\ color'[p] = "BLACK"
  BY <1>1 DEF Whereabouts, IInv, TypeOK
<1> QED BY <1>1, <1>3, <1>4, <1>5 DEF Whereabouts, Settled

\* A queued object begins its drop.
LEMMA WhereDrainNext ==
  ASSUME IInv, Whereabouts, NEW x \in dropbuf, DrainNext(x)
  PROVE  Whereabouts'
<1>1. /\ gc = "off" /\ drop = NULL /\ drop' = x /\ dropped' = dropped \cup {x}
      /\ dropbuf' = dropbuf \ {x}
      /\ UNCHANGED <<alloc, rc, color, roots, gc, fwork, gbuf, bwork>>
  BY DEF DrainNext, header, traversal
<1>2. Held' = Held \ {x} /\ x \in Held
  BY <1>1 DEF Held, IInv, Placement
<1>3. Purple' = Purple /\ Settled = Held /\ Tried' = Tried /\ Tried = {}
  BY <1>1, NoTraversal DEF Purple, Tried, Gray, White
<1>4. NULL \notin alloc
  BY ConstantsAssumption DEF IInv, TypeOK
<1> QED BY <1>1, <1>2, <1>3, <1>4 DEF Whereabouts, Settled

\* A dropped object that keeps its memory waits in the root buffer.
LEMMA WhereDropEnd ==
  ASSUME IInv, Whereabouts, DropEnd
  PROVE  Whereabouts'
<1>1. /\ gc = "off" /\ drop # NULL /\ drop' = NULL
      /\ \A p \in Obj \ {drop} : color'[p] = color[p]
      /\ drop \in Obj => color'[drop] = "BLACK"
      /\ alloc' = IF drop \in buffered THEN alloc ELSE alloc \ {drop}
      /\ UNCHANGED <<rc, dropbuf, roots, gc, dropped, fwork, gbuf, bwork>>
  BY DEF DropEnd, dropqueue, traversal, IInv, TypeOK
<1>2. drop \in Obj /\ drop \in dropped /\ buffered = roots
  BY <1>1 DEF IInv, TypeOK, CallStack, Placement
<1>3. Held' = Held /\ drop \notin Held /\ Held \subseteq Obj /\ Settled = Held
  BY <1>1, <1>2, NoTraversal, CellSets DEF Held, IInv
<1>4. Held \cap Purple' = Held \cap Purple /\ Settled' \subseteq Held
  BY <1>1, <1>3 DEF Purple, Settled
<1>5. \A p \in alloc' \cap dropped : p \in roots /\ color'[p] = "BLACK"
  <2> SUFFICES ASSUME NEW p \in alloc' \cap dropped PROVE p \in roots /\ color'[p] = "BLACK"
    OBVIOUS
  <2>1. CASE p = drop
    BY <1>1, <1>2, <2>1
  <2>2. CASE p # drop
    BY <1>1, <2>2 DEF Whereabouts, IInv, TypeOK
  <2> QED BY <2>1, <2>2
<1> QED BY <1>1, <1>3, <1>4, <1>5 DEF Whereabouts

\* Pass 1 frees every dropped object but the one whose drop function is running.
LEMMA WherePass1 == ASSUME IInv, Whereabouts, Pass1 PROVE Whereabouts'
<1> DEFINE dead == {h \in roots : color[h] = "BLACK" /\ rc[h] = 0}
<1>1. /\ gc = "pass1" /\ gc' = "mark" /\ alloc' = alloc \ dead /\ roots' = roots \ dead
      /\ UNCHANGED <<rc, color, dropbuf, dropped, drop, fwork, gbuf, cwork, bwork>>
  BY DEF Pass1, cascade, dropqueue
<1>2. dead \cap Held = {} /\ dead \cap Purple = {} /\ Settled = Held
  BY <1>1, NoTraversal DEF IInv, Placement, Purple
<1>3. Held' = Held /\ Purple' = Purple /\ Settled' = Settled
  BY <1>1, <1>2 DEF Held, Purple, Settled, Tried, Gray, White
<1>4. (alloc' \cap dropped) \ {drop} = {}
  BY <1>1 DEF Whereabouts, IInv, Placement
<1>5. \A o \in Settled : rc[o] = 0 => o \in dropbuf
  BY <1>1 DEF Whereabouts
<1>6. Held \cap Purple \subseteq roots' \cup dropbuf
  BY <1>1, <1>2 DEF Whereabouts
<1> HIDE DEF dead
<1> QED BY <1>1, <1>3, <1>4, <1>5, <1>6 DEF Whereabouts

\* The objects that lose a count to trial deletion are on the worklist.
LEMMA WhereMarkGray ==
  ASSUME IInv, Whereabouts, NEW h \in cwork, MarkGray(h)
  PROVE  Whereabouts'
<1>1. /\ gc = "mark" /\ bwork = {} /\ Held' = Held /\ h \in Obj /\ h \in Held /\ rel = NULL
      /\ UNCHANGED <<alloc, dropbuf, roots, gc, dropped, drop, bwork>>
  BY DEF MarkGray, cascade, dropqueue, IInv, CallStack, TypeOK, Held, MarkPhase
<1>2. CASE color[h] = "GRAY"
  <2>1. UNCHANGED <<rc, color>> /\ cwork' = cwork \ {h} /\ h \in Gray
    BY <1>1, <1>2 DEF MarkGray, Gray
  <2> QED BY <1>1, <2>1, WhereSame
<1>3. CASE color[h] # "GRAY"
  <2>1. color' = [color EXCEPT ![h] = "GRAY"] /\ rc' = Visited(h, -1)
        /\ cwork' = (cwork \ {h}) \cup Kids(h)
    BY <1>1, <1>3 DEF MarkGray
  <2>2. \A o \in Obj : o \in Kids(h) \/ rc'[o] = rc[o]
    <3> SUFFICES ASSUME NEW o \in Obj, o \notin Kids(h) PROVE rc'[o] = rc[o]
      OBVIOUS
    <3>1. Edges(h, o) = 0
      BY <1>1, EdgesLemma, KidsLemma DEF IInv
    <3>2. rc[o] \in Nat
      BY DEF IInv, TypeOK
    <3> QED BY <2>1, <3>1, <3>2 DEF Visited
  <2>3. Settled' \subseteq Settled \ {h} /\ Purple' \subseteq Purple /\ Settled \subseteq Obj
    BY <1>1, <2>1, CellSets DEF IInv, TypeOK, Settled, Tried, Gray, White, Purple
  <2>4. \A o \in Settled' : rc'[o] = 0 => o \in dropbuf \/ o \in cwork'
    BY <1>1, <2>1, <2>2, <2>3 DEF Whereabouts
  <2> QED BY <1>1, <2>3, <2>4 DEF Whereabouts
<1> QED BY <1>2, <1>3

\* What scan hands on has a count left; what turns white was not settled before either.
LEMMA WhereScan ==
  ASSUME IInv, Whereabouts, NEW h \in cwork, Scan(h)
  PROVE  Whereabouts'
<1>1. /\ gc = "scan" /\ bwork = {} /\ Held' = Held /\ h \in Obj
      /\ UNCHANGED <<alloc, rc, dropbuf, roots, gc, dropped, drop>>
  BY DEF Scan, cascade, dropqueue, IInv, TypeOK, Held
<1>2. Settled' = Settled /\ Purple' = Purple
  BY <1>1 DEF Scan, IInv, TypeOK, Settled, Tried, Gray, White, Purple
<1>3. \A k \in bwork' : rc[k] > 0
  BY <1>1 DEF Scan
<1> QED BY <1>1, <1>2, <1>3 DEF Whereabouts

\* What scan_black restores has a count, and so has what it visits next.
LEMMA WhereScanBlack ==
  ASSUME IInv, Whereabouts, NEW h \in bwork, ScanBlack(h)
  PROVE  Whereabouts'
<1>1. /\ gc = "scan" /\ Held' = Held /\ h \in Obj
      /\ UNCHANGED <<alloc, dropbuf, roots, gc, dropped, drop>>
  BY DEF ScanBlack, cascade, dropqueue, IInv, TypeOK, Held
<1>2. CASE color[h] = "BLACK"
  <2>1. UNCHANGED <<rc, color>> /\ bwork' = bwork \ {h}
    BY <1>2 DEF ScanBlack
  <2>2. Settled' = Settled /\ Purple' = Purple /\ Tried' = Tried
    BY <1>1, <2>1 DEF Settled, Tried, Gray, White, Purple
  <2> QED BY <1>1, <2>1, <2>2 DEF Whereabouts
<1>3. CASE color[h] # "BLACK"
  <2>1. color' = [color EXCEPT ![h] = "BLACK"] /\ rc' = Visited(h, 1)
        /\ bwork' = (bwork \ {h}) \cup Kids(h)
    BY <1>3 DEF ScanBlack
  <2>2. h \in Tried
    BY <1>1, <1>3 DEF IInv, ScanPhase, TypeOK, Purple, Tried, Gray, White
  <2>3. Tried' = Tried \ {h} /\ Purple' = Purple /\ Settled' \subseteq Settled \cup {h}
    <3>1. h \notin Purple
      BY <1>3, <2>2 DEF Tried, Gray, White, Purple
    <3>2. Tried' = Tried \ {h} /\ Purple' = Purple
      BY <1>1, <2>1, <3>1 DEF IInv, TypeOK, Gray, White, Tried, Purple
    <3> QED BY <1>1, <3>2 DEF Settled
  <2>4. \A o \in Obj : /\ rc[o] \in Nat /\ rc'[o] \in Nat /\ rc'[o] >= rc[o]
                       /\ o \in Kids(h) => rc'[o] > 0
    <3> SUFFICES ASSUME NEW o \in Obj
                 PROVE  /\ rc[o] \in Nat /\ rc'[o] \in Nat /\ rc'[o] >= rc[o]
                        /\ o \in Kids(h) => rc'[o] > 0
      OBVIOUS
    <3>1. Edges(h, o) \in Nat /\ (o \in Kids(h) => Edges(h, o) # 0)
      BY <1>1, EdgesLemma, KidsLemma DEF IInv
    <3>2. rc[o] \in Nat /\ rc'[o] = rc[o] + 1 * Edges(h, o)
      BY <2>1 DEF IInv, TypeOK, Visited
    <3> QED BY <3>1, <3>2
  <2>5. Settled' \subseteq Obj /\ bwork \subseteq Obj /\ Kids(h) \subseteq Obj
    BY <1>1, CellSets, KidsLemma DEF IInv, TypeOK, Settled
  <2>6. rc[h] > 0
    BY <1>1, <2>2 DEF Whereabouts
  <2>7. \A o \in Settled' : rc'[o] = 0 => o \in dropbuf
    BY <1>1, <2>3, <2>4, <2>5, <2>6 DEF Whereabouts
  <2>8. \A k \in bwork' \cap Tried' : rc'[k] > 0
    BY <1>1, <2>1, <2>3, <2>4, <2>5 DEF Whereabouts
  <2> QED BY <1>1, <2>3, <2>7, <2>8 DEF Whereabouts
<1> QED BY <1>2, <1>3

\* What the collector claims was white, not settled.
LEMMA WhereCollectWhite ==
  ASSUME IInv, Whereabouts, NEW h \in cwork, CollectWhite(h)
  PROVE  Whereabouts' /\ Settled' = Settled /\ Purple' = Purple
<1>1. /\ gc = "collect" /\ h \in Obj
      /\ UNCHANGED <<alloc, rc, dropbuf, roots, gc, dropped, drop, gbuf>>
  BY DEF CollectWhite, cascade, dropqueue, IInv, TypeOK
<1>2. Settled' = Settled /\ Purple' = Purple /\ Held' \subseteq Held
  <2>1. CASE color[h] # "WHITE"
    BY <1>1, <2>1 DEF CollectWhite, Settled, Held, Tried, Gray, White, Purple
  <2>2. CASE color[h] = "WHITE"
    <3>1. color' = [color EXCEPT ![h] = "BLACK"] /\ fwork' = fwork \cup {h}
      BY <2>2 DEF CollectWhite
    <3>2. h \in Tried /\ Tried' = Tried \ {h} /\ Purple' = Purple /\ Held' = Held \ {h}
      BY <1>1, <2>2, <3>1 DEF IInv, TypeOK, Tried, Gray, White, Purple, Held
    <3> QED BY <3>2 DEF Settled
  <2> QED BY <2>1, <2>2
<1> QED BY <1>1, <1>2 DEF Whereabouts

\* Compaction gives up candidates, but keeps those that are purple and not queued.
LEMMA WhereCompact ==
  ASSUME IInv, Whereabouts, QueueKept, Compact
  PROVE  Whereabouts' /\ Held' = Held /\ Tried = {} /\ dropbuf' = dropbuf
<1>0. Collector
  BY DEF Compact, IInv, Placement
<1>1. /\ gc = "collect" /\ gc' = "off" /\ roots' = Kept
      /\ UNCHANGED <<rc, color, dropped, drop, dropbuf>>
  BY <1>0, ConstantsAssumption DEF Compact, cascade, dropqueue, QueueKept, IInv, TypeOK
<1>2. PICK F \in SUBSET (gbuf \cup fwork) :
        gbuf' = (gbuf \cup fwork) \ F /\ alloc' = alloc \ F /\ fwork' = {}
  BY DEF Compact
<1>3. Held' = Held
  BY <1>1, <1>2 DEF Held
<1>4. Tried = {}
  BY DEF Compact, IInv, CollectPhase, Covered, Tried
<1>5. Tried' = Tried /\ Purple' = Purple /\ Settled' = Held /\ Settled = Held
  BY <1>1, <1>3, <1>4 DEF Tried, Gray, White, Purple, Settled
<1>6. Held \cap Purple \subseteq roots' \cup dropbuf
  <2> SUFFICES ASSUME NEW o \in Held \cap Purple, o \notin dropbuf PROVE o \in Kept
    BY <1>1
  <2>1. o \in roots /\ o \in buffered /\ rc[o] # 0 /\ color[o] = "PURPLE"
    BY <1>1, <1>5 DEF Whereabouts, Purple, IInv, Placement
  <2>2. rc[o] \in Nat
    BY DEF IInv, TypeOK, Purple
  <2> QED BY <2>1, <2>2 DEF Kept
<1>7. (alloc' \cap dropped') \ {drop'} = {}
  BY <1>1, <1>2 DEF Whereabouts
<1> QED BY <1>1, <1>3, <1>4, <1>5, <1>6, <1>7 DEF Whereabouts

\* The steps of a collection.
LEMMA WhereCollect == ASSUME IInv, Whereabouts, QueueKept, CollectStep PROVE Whereabouts'
<1>1. ASSUME NextPass("mark", "scan") \/ NextPass("scan", "collect") PROVE Whereabouts'
  <2>1. /\ UNCHANGED <<alloc, rc, color, dropbuf, roots, dropped, drop, bwork>>
        /\ Held' = Held /\ cwork = {} /\ gc' \in {"scan", "collect"} /\ bwork = {}
    BY <1>1 DEF NextPass, Held, header, cascade, dropqueue
  <2>2. Settled' = Settled /\ Purple' = Purple
    BY <2>1 DEF Settled, Tried, Gray, White, Purple
  <2>3. (alloc \cap dropped) \ {drop} = {}
    BY <1>1 DEF NextPass, Whereabouts
  <2> QED BY <2>1, <2>2, <2>3 DEF Whereabouts
<1>2. ASSUME NEW phase \in {"mark", "scan", "collect"}, NEW h \in pend, NEW wanted,
             Visit(phase, h, wanted)
      PROVE  Whereabouts'
  <2>1. /\ UNCHANGED <<rc, color, dropbuf, roots, dropped, drop, bwork, gc, alloc>>
        /\ Held' = Held /\ cwork = {}
    BY <1>2 DEF Visit, Held, header, cascade, dropqueue
  <2> QED BY <2>1, WhereSame
<1>3. ASSUME NEW h \in pend, MarkRoot(h) \/ ScanRoot(h) \/ CollectRoot(h) PROVE Whereabouts'
  BY <1>2, <1>3 DEF MarkRoot, ScanRoot, CollectRoot
<1>4. ASSUME NEW h \in cwork, MarkGray(h) \/ Scan(h) \/ CollectWhite(h) PROVE Whereabouts'
  BY <1>4, WhereMarkGray, WhereScan, WhereCollectWhite
<1>5. ASSUME NEW h \in bwork, ScanBlack(h) PROVE Whereabouts'
  BY <1>5, WhereScanBlack
<1> QED BY <1>1, <1>3, <1>4, <1>5, WherePass1, WhereCompact DEF CollectStep

\* Every step.
LEMMA NextWhere == ASSUME IInv, Whereabouts, QueueKept, [Next]_vars PROVE Whereabouts'
<1> USE DEF program, header, cascade, dropqueue, traversal
<1>1. ASSUME Mutate PROVE Whereabouts'
  <2>1. ASSUME NEW c, NEW x \in Obj \cup {NULL}, Store(c, x) PROVE Whereabouts'
    BY <2>1, WhereStore
  <2>2. NULL \in Obj \cup {NULL} /\ \A c \in Cell : ref[c] \in Obj \cup {NULL}
    BY DEF IInv, TypeOK
  <2>3. Local \subseteq Cell /\ \A w \in Local, s \in Slot :
          ref[w] # NULL => <<ref[w], s>> \in Cell
    BY <2>2 DEF Cell
  <2>4. ASSUME BeginNew \/ Exit PROVE Whereabouts'
    BY <2>4, WhereSame, HeldSame, NoTraversal DEF BeginNew, Exit, Running, Idle
  <2>5. ASSUME NEW v \in Local, NEW w \in Local, CopyLocal(v, w) PROVE Whereabouts'
    BY <2>1, <2>2, <2>3, <2>5 DEF CopyLocal
  <2>6. ASSUME NEW v \in Local, NEW w \in Local, NEW s \in Slot,
               GetField(v, w, s) \/ PutField(w, s, v)
        PROVE  Whereabouts'
    BY <2>1, <2>2, <2>3, <2>6 DEF GetField, PutField
  <2>7. ASSUME NEW v, NEW w, NEW s, PutNull(w, s) \/ Release(v) PROVE Whereabouts'
    BY <2>1, <2>2, <2>7 DEF PutNull, Release
  <2> QED BY <1>1, <2>4, <2>5, <2>6, <2>7 DEF Mutate
<1>2. ASSUME ReleaseOld PROVE Whereabouts'
  BY <1>2, ReleaseOldFacts, WhereRelease
<1>3. ASSUME NEW s \in todo, DropField(s) PROVE Whereabouts'
  <2>1. PICK k : k = ref[<<drop, s>>]
    OBVIOUS
  <2>2. /\ gc = "off" /\ UNCHANGED <<alloc, dropped, drop, fwork, gbuf, bwork>>
    BY <1>3 DEF DropField
  <2>3. CASE k = NULL
    <3>1. UNCHANGED <<header, roots, gc, dropqueue>>
      BY <1>3, <2>1, <2>3 DEF DropField
    <3> QED BY <2>2, <3>1, WhereSame, HeldSame, NoTraversal
  <2>4. CASE k # NULL
    BY <1>3, <2>1, <2>2, <2>4, DropFieldFacts, WhereRelease
  <2> QED BY <2>3, <2>4
<1>4. ASSUME PumpGbuf \/ Flush PROVE Whereabouts'
  <2>1. PICK F \in SUBSET gbuf : gbuf' = gbuf \ F /\ alloc' = alloc \ F
    BY <1>4, DrainGbufLemma DEF PumpGbuf, Flush, IInv
  <2>2. /\ gc = "off" /\ UNCHANGED <<rc, color, dropbuf, roots, dropped, drop, bwork, fwork, gc>>
    BY <1>4 DEF PumpGbuf, Flush, Idle
  <2>3. Held' = Held
    BY <2>1, <2>2 DEF Held
  <2> QED BY <2>1, <2>2, <2>3, WhereSame
<1>5. ASSUME DrainDone \/ CollectCycles \/ Done PROVE Whereabouts'
  <2>1. /\ gc = "off" /\ gc' \in {"off", "pass1"}
        /\ UNCHANGED <<alloc, rc, color, dropbuf, roots, dropped, drop, bwork, fwork, gbuf>>
    BY <1>5 DEF DrainDone, CollectCycles, Done, Idle
  <2> QED BY <2>1, WhereSame, HeldSame
<1>6. CASE UNCHANGED vars
  BY <1>6, WhereSame, HeldSame DEF vars
<1>7. ASSUME Runtime PROVE Whereabouts'
  BY <1>2, <1>3, <1>4, <1>5, <1>7, WhereMake, WhereDrainNext, WhereDropEnd, WhereCollect
     DEF Runtime
<1> QED BY <1>1, <1>6, <1>7 DEF Next

\* Initially the heap is empty.
LEMMA InitBookkeeping == Init => Bookkeeping
BY DEF Init, Bookkeeping, Whereabouts, Typed, Ending, Settled, Held

\* The bookkeeping is inductive as long as no queued drop is discarded.
LEMMA NextBookkeeping ==
  ASSUME IInv, Bookkeeping, QueueKept, [Next]_vars
  PROVE  Bookkeeping'
BY NextWhere, NextTyped, NextEnding DEF Bookkeeping

-----------------------------------------------------------------------------
(* Every settled object is entered from outside or anchored                 *)

\* Steps after which nothing settled is anchored less, or entered less.
LEMMA EnteredSame ==
  ASSUME IInv, Entered, Settled' = Settled, ref' = ref, DropCells' = DropCells,
         \A o \in Settled :
           o = rel \/ o \in dropbuf \/ o \in Purple \/ (gc = "mark" /\ o \in cwork)
             => o = rel' \/ o \in dropbuf' \/ o \in Purple' \/ (gc' = "mark" /\ o \in cwork')
  PROVE  Entered'
<1> SUFFICES ASSUME NEW S \in SUBSET Settled, S # {}, ~Anchored(S)'
             PROVE  \E p \in Settled \ S : Points(p, S)'
  BY DEF Entered
<1>1. ~Anchored(S)
  BY DEF Anchored
<1>2. PICK p \in Settled \ S : Points(p, S)
  BY <1>1 DEF Entered
<1> QED BY <1>2 DEF Points

\* A store: the overwritten reference is still owed, the new one is also in a local.
LEMMA EnteredStore ==
  ASSUME IInv, Entered, NEW c \in Cell, NEW x \in Obj \cup {NULL}, Store(c, x),
         x # NULL => \E v \in Local : ref'[v] = x
  PROVE  Entered'
<1> USE DEF cascade, dropqueue, traversal
<1>1. /\ gc = "off" /\ rel = NULL /\ rel' = ref[c] /\ drop = NULL
      /\ ref' = [ref EXCEPT ![c] = x] /\ ref \in [Cell -> Obj \cup {NULL}]
      /\ \A o \in Obj \ {x} : color'[o] = color[o]
      /\ \A o \in Obj : color'[o] \in {color[o], "BLACK"}
      /\ UNCHANGED <<alloc, dropbuf, gc, dropped, drop, todo>>
  BY DEF Store, Retain, Running, Idle, IInv, CallStack, TypeOK
<1>2. Held' = Held /\ Held \subseteq Obj /\ Settled = Held
  BY <1>1, CellSets, NoTraversal DEF Store, Held, IInv
<1>3. Tried' = {} /\ Settled' = Held
  BY <1>1, <1>2, NoTraversal DEF Tried, Gray, White, Settled
<1> SUFFICES ASSUME NEW S \in SUBSET Held, S # {}, ~Anchored(S)'
             PROVE  \E p \in Held \ S : Points(p, S)'
  BY <1>3 DEF Entered
<1>4. ref[c] \notin S /\ x \notin S /\ NULL \notin S /\ S \cap dropbuf = {}
  BY <1>1, <1>2, ConstantsAssumption DEF Anchored
<1>5. S \cap Purple = {}
  BY <1>1, <1>2, <1>4 DEF Anchored, Purple
<1>6. \A v \in Local : ref[v] \notin S
  <2>1. \A v \in Local : v \in Cell /\ ref'[v] \notin S
    BY DEF Anchored, Cell
  <2> QED BY <1>1, <1>4, <2>1
<1>7. DropCells = {}
  BY <1>1 DEF DropCells
<1>8. ~Anchored(S)
  BY <1>1, <1>4, <1>5, <1>6, <1>7 DEF Anchored
<1>9. PICK p \in Held \ S : Points(p, S)
  BY <1>2, <1>8 DEF Entered
<1>10. PICK d \in Fields(p) : ref[d] \in S
  BY <1>9 DEF Points
<1>11. d # c /\ d \in Cell
  BY <1>2, <1>4, <1>9, <1>10 DEF Fields, Cell
<1> QED BY <1>1, <1>9, <1>10, <1>11 DEF Points

\* The operations of the program: what a store retains is in a local.
LEMMA EnteredMutate == ASSUME IInv, Entered, Mutate PROVE Entered'
<1>1. ref \in [Cell -> Obj \cup {NULL}] /\ Local \subseteq Cell
      /\ \A w \in Local, s \in Slot : ref[w] # NULL => <<ref[w], s>> \in Cell \ Local
  BY ConstantsAssumption DEF IInv, TypeOK, Cell
<1>2. ASSUME NEW v \in Local, NEW x \in Obj \cup {NULL}, Store(v, x) PROVE Entered'
  <2>1. ref'[v] = x
    BY <1>1, <1>2 DEF Store
  <2> QED BY <1>1, <1>2, <2>1, EnteredStore
<1>3. ASSUME NEW v \in Local, NEW w \in Local, CopyLocal(v, w) PROVE Entered'
  BY <1>1, <1>2, <1>3 DEF CopyLocal
<1>4. ASSUME NEW v \in Local, NEW w \in Local, NEW s \in Slot, GetField(v, w, s) PROVE Entered'
  <2>1. ref[<<ref[w], s>>] \in Obj \cup {NULL}
    BY <1>1, <1>4 DEF GetField
  <2> QED BY <1>2, <1>4, <2>1 DEF GetField
<1>5. ASSUME NEW v \in Local, NEW w \in Local, NEW s \in Slot, PutField(w, s, v) PROVE Entered'
  <2>1. PICK c : c = <<ref[w], s>>
    OBVIOUS
  <2>2. c \in Cell \ Local /\ Store(c, ref[v]) /\ ref[v] \in Obj \cup {NULL}
    BY <1>1, <1>5, <2>1 DEF PutField
  <2>3. ref'[v] = ref[v]
    BY <1>1, <2>2 DEF Store
  <2> QED BY <2>2, <2>3, EnteredStore
<1>6. ASSUME NEW w \in Local, NEW s \in Slot, PutNull(w, s) PROVE Entered'
  <2>1. PICK c : c = <<ref[w], s>>
    OBVIOUS
  <2>2. c \in Cell /\ Store(c, NULL)
    BY <1>1, <1>6, <2>1 DEF PutNull
  <2> QED BY <2>2, EnteredStore
<1>7. ASSUME NEW v \in Local, Release(v) PROVE Entered'
  BY <1>2, <1>7 DEF Release
<1>8. ASSUME BeginNew \/ Exit PROVE Entered'
  <2>1. Settled' = Settled /\ Purple' = Purple /\ DropCells' = DropCells
    BY <1>8, HeldSame DEF BeginNew, Exit, header, traversal, Settled, Tried, Gray, White, Purple,
       DropCells
  <2> QED BY <1>8, <2>1, EnteredSame DEF BeginNew, Exit, dropqueue, traversal
<1> QED BY <1>3, <1>4, <1>5, <1>6, <1>7, <1>8 DEF Mutate

\* A release: the object is queued or purple now.
LEMMA EnteredRelease ==
  ASSUME IInv, Whereabouts, Entered, Collector, gc = "off", NEW o \in Held \ dropbuf,
         rc[o] >= 1, ReleaseLast(o) \/ ReleaseShared(o),
         UNCHANGED <<alloc, ref, dropped, drop, fwork, gbuf, bwork>>,
         rel' \in {rel, NULL}, rel # NULL => rel = o,
         DropCells' \subseteq DropCells,
         \A c \in DropCells : c \in DropCells' \/ ref[c] \in {o, NULL}
  PROVE  Entered'
<1>1. /\ Tried' = {} /\ Purple \subseteq Purple' /\ dropbuf \subseteq dropbuf'
  BY ReleaseFrame
<1>2. o \in dropbuf' \cup Purple'
  BY WhereRelease
<1>3. Held' = Held /\ Settled = Held /\ Settled' = Held /\ NULL \notin Held
  BY <1>1, NoTraversal, CellSets, ConstantsAssumption DEF Held, Settled, IInv
<1> SUFFICES ASSUME NEW S \in SUBSET Held, S # {}, ~Anchored(S)'
             PROVE  \E p \in Held \ S : Points(p, S)'
  BY <1>3 DEF Entered
<1>4. o \notin S /\ NULL \notin S
  BY <1>2, <1>3 DEF Anchored
<1>5. ~Anchored(S)
  BY <1>1, <1>4 DEF Anchored
<1>6. PICK p \in Held \ S : Points(p, S)
  BY <1>3, <1>5 DEF Entered
<1> QED BY <1>6 DEF Points

\* The field a drop function releases.
LEMMA EnteredDropField ==
  ASSUME IInv, Whereabouts, Entered, Collector, NEW s \in todo, DropField(s)
  PROVE  Entered'
<1>1. PICK k, c : c = <<drop, s>> /\ k = ref[c]
  OBVIOUS
<1>2. /\ gc = "off" /\ todo' = todo \ {s}
      /\ UNCHANGED <<alloc, ref, rel, dropped, drop, fwork, gbuf, bwork>>
  BY DEF DropField, program, traversal
<1>3. DropCells' = DropCells \ {c}
  BY <1>1, <1>2 DEF DropCells
<1>4. CASE k = NULL
  <2>1. UNCHANGED <<header, roots, gc, dropqueue>>
    BY <1>1, <1>4 DEF DropField
  <2>2. Held' = Held /\ Settled' = Settled /\ Purple' = Purple
    BY <1>2, <2>1, HeldSame DEF Settled, Tried, Gray, White, Purple, header
  <2> SUFFICES ASSUME NEW S \in SUBSET Settled, S # {}, ~Anchored(S)'
               PROVE  \E p \in Settled \ S : Points(p, S)'
    BY <2>2 DEF Entered
  <2>3. NULL \notin S
    BY CellSets, ConstantsAssumption DEF Settled, IInv
  <2>4. ~Anchored(S)
    BY <1>1, <1>2, <1>3, <1>4, <2>1, <2>2, <2>3 DEF Anchored, dropqueue
  <2>5. PICK p \in Settled \ S : Points(p, S)
    BY <2>4 DEF Entered
  <2> QED BY <1>2, <2>5 DEF Points
<1>5. CASE k # NULL
  <2>1. /\ k \in Held \ dropbuf /\ rc[k] >= 1 /\ (ReleaseLast(k) \/ ReleaseShared(k))
    BY <1>1, <1>5, DropFieldFacts
  <2>2. rel = NULL
    BY DEF DropField, IInv, CallStack
  <2> QED BY <1>1, <1>2, <1>3, <2>1, <2>2, EnteredRelease
<1> QED BY <1>4, <1>5

\* A new object is in a local; what the local held is owed.
LEMMA EnteredMake ==
  ASSUME IInv, Entered, NEW v \in Local, NEW o \in Obj, Make(v, o)
  PROVE  Entered'
<1> USE DEF dropqueue, traversal
<1>1. /\ gc = "off" /\ rel = NULL /\ o \notin alloc /\ alloc' = alloc \cup {o}
      /\ rel' = ref[v] /\ dropped' = dropped \ {o} /\ drop = NULL
      /\ ref' = [c \in Cell |-> IF c = v THEN o ELSE IF c \in Fields(o) THEN NULL ELSE ref[c]]
      /\ \A p \in Obj \ {o} : color'[p] = color[p]
      /\ color'[o] = "BLACK"
      /\ UNCHANGED <<drop, todo, dropbuf, roots, gc, fwork, gbuf, cwork>>
  BY DEF Make, Idle, IInv, CallStack, TypeOK
<1>2. Held' = Held \cup {o} /\ Held \subseteq Obj /\ Settled = Held /\ Tried = {}
      /\ o \notin Held
  BY <1>1, NoTraversal, CellSets DEF Held, IInv, CallStack, Placement
<1>3. Settled' = Held \cup {o}
  <2>1. Tried' = {}
    BY <1>1, <1>2 DEF Tried, Gray, White
  <2> QED BY <1>2, <2>1 DEF Settled
<1>4. v \in Cell /\ \A d \in Local : d \in Cell /\ d \notin Fields(o)
  BY ConstantsAssumption DEF Cell, Fields
<1> SUFFICES ASSUME NEW S \in SUBSET (Held \cup {o}), S # {}, ~Anchored(S)'
             PROVE  \E p \in (Held \cup {o}) \ S : Points(p, S)'
  BY <1>3 DEF Entered
<1>5. o \notin S /\ ref[v] \notin S /\ \A d \in Local : ref[d] \notin S
  BY <1>1, <1>4 DEF Anchored
<1>6. NULL \notin S /\ S \cap Purple = {} /\ DropCells = {}
  BY <1>1, <1>2, <1>5, ConstantsAssumption DEF Anchored, Purple, DropCells
<1>7. ~Anchored(S)
  BY <1>1, <1>5, <1>6 DEF Anchored
<1>8. PICK p \in Held \ S : Points(p, S)
  BY <1>2, <1>5, <1>7 DEF Entered
<1>9. PICK d \in Fields(p) : ref[d] \in S
  BY <1>8 DEF Points
<1>10. d \in Cell /\ d # v /\ d \notin Fields(o)
  BY <1>2, <1>8, <1>9, ConstantsAssumption DEF Fields, Cell
<1> QED BY <1>1, <1>8, <1>9, <1>10 DEF Points

\* The fields of an object whose drop begins become the cells the drop has to release.
LEMMA EnteredDrainNext ==
  ASSUME IInv, Entered, NEW x \in dropbuf, DrainNext(x)
  PROVE  Entered'
<1>1. /\ gc = "off" /\ drop = NULL /\ drop' = x /\ todo' = Slot /\ dropped' = dropped \cup {x}
      /\ dropbuf' = dropbuf \ {x}
      /\ UNCHANGED <<alloc, ref, rel, color, gc, fwork, gbuf, cwork>>
  BY DEF DrainNext, header, program, traversal
<1>2. Held' = Held \ {x} /\ x \in Held /\ Settled = Held /\ x \in Obj /\ x # NULL
  BY <1>1, NoTraversal, CellSets, ConstantsAssumption DEF Held, IInv, Placement
<1>3. Purple' = Purple /\ Settled' = Held \ {x} /\ DropCells = {} /\ DropCells' = Fields(x)
  BY <1>1, <1>2, NoTraversal DEF Purple, Tried, Gray, White, Settled, DropCells, Fields
<1> SUFFICES ASSUME NEW S \in SUBSET (Held \ {x}), S # {}, ~Anchored(S)'
             PROVE  \E p \in (Held \ {x}) \ S : Points(p, S)'
  BY <1>3 DEF Entered
<1>4. ~Anchored(S) /\ \A c \in Fields(x) : ref[c] \notin S
  BY <1>1, <1>3 DEF Anchored
<1>5. PICK p \in Held \ S : Points(p, S)
  BY <1>2, <1>4 DEF Entered
<1>6. p # x
  BY <1>4, <1>5 DEF Points
<1> QED BY <1>1, <1>5, <1>6 DEF Points

\* Marking puts what it deprives of an entry on the worklist.
LEMMA EnteredMarkGray ==
  ASSUME IInv, Entered, NEW h \in cwork, MarkGray(h)
  PROVE  Entered'
<1>1. /\ gc = "mark" /\ h \in Obj /\ h \in Held /\ Held' = Held /\ DropCells' = DropCells
      /\ UNCHANGED <<ref, rel, dropbuf, gc>>
  BY DEF MarkGray, MarkPhase, program, cascade, dropqueue, IInv, TypeOK, Held, DropCells
<1>2. CASE color[h] = "GRAY"
  <2>1. color' = color /\ cwork' = cwork \ {h} /\ h \in Gray
    BY <1>1, <1>2 DEF MarkGray, Gray
  <2>2. Settled' = Settled /\ Purple' = Purple /\ h \notin Settled
    BY <1>1, <2>1 DEF Settled, Tried, Gray, White, Purple
  <2> QED BY <1>1, <2>1, <2>2, EnteredSame
<1>3. CASE color[h] # "GRAY"
  <2>1. color' = [color EXCEPT ![h] = "GRAY"] /\ cwork' = (cwork \ {h}) \cup Kids(h)
    BY <1>3 DEF MarkGray
  <2>2. Tried' = Tried \cup {h} /\ Purple' = Purple \ {h}
    BY <1>1, <2>1 DEF IInv, TypeOK, Tried, Gray, White, Purple
  <2>3. Settled' = Settled \ {h}
    BY <1>1, <2>2 DEF Settled
  <2> SUFFICES ASSUME NEW S \in SUBSET (Settled \ {h}), S # {}, ~Anchored(S)'
               PROVE  \E p \in (Settled \ {h}) \ S : Points(p, S)'
    BY <2>3 DEF Entered
  <2>4. ~Anchored(S) /\ S \cap Kids(h) = {}
    BY <1>1, <2>1, <2>2 DEF Anchored
  <2>5. PICK p \in Settled \ S : Points(p, S)
    BY <2>4 DEF Entered
  <2>6. p # h
    <3>1. S \subseteq Obj
      BY CellSets DEF Settled, IInv
    <3> QED BY <2>4, <2>5, <3>1 DEF Points, Kids
  <2> QED BY <1>1, <2>5, <2>6 DEF Points
<1> QED BY <1>2, <1>3

\* What is restored is entered: by a counted cell, since its counter is positive.
LEMMA EnteredScanBlack ==
  ASSUME IInv, Whereabouts, Entered, NEW h \in bwork, ScanBlack(h)
  PROVE  Entered'
<1>1. /\ gc = "scan" /\ h \in Obj /\ h \in Held /\ Held' = Held /\ DropCells' = DropCells
      /\ rel = NULL
      /\ UNCHANGED <<ref, rel, dropbuf, gc, cwork>>
  BY DEF ScanBlack, ScanPhase, program, cascade, dropqueue, IInv, CallStack, TypeOK, Held,
     DropCells
<1>2. CASE color[h] = "BLACK"
  <2>1. color' = color
    BY <1>2 DEF ScanBlack
  <2>2. Settled' = Settled /\ Purple' = Purple
    BY <1>1, <2>1 DEF Settled, Tried, Gray, White, Purple
  <2> QED BY <1>1, <2>2, EnteredSame
<1>3. CASE color[h] # "BLACK"
  <2>1. color' = [color EXCEPT ![h] = "BLACK"]
    BY <1>3 DEF ScanBlack
  <2>2. h \in Tried /\ h \notin Purple
    BY <1>1, <1>3 DEF IInv, ScanPhase, TypeOK, Purple, Tried, Gray, White
  <2>3. Tried' = Tried \ {h} /\ Purple' = Purple
    BY <1>1, <2>1, <2>2 DEF IInv, TypeOK, Gray, White, Tried, Purple
  <2>4. Settled' = Settled \cup {h} /\ h \notin Settled
    BY <1>1, <2>2, <2>3 DEF Settled
  <2> SUFFICES ASSUME NEW S \in SUBSET (Settled \cup {h}), S # {}, ~Anchored(S)'
               PROVE  \E p \in (Settled \cup {h}) \ S : Points(p, S)'
    BY <2>4 DEF Entered
  <2>5. ~Anchored(S)
    BY <1>1, <2>3 DEF Anchored
  <2>6. CASE S \ {h} # {}
    <3>1. S \ {h} \in SUBSET Settled /\ ~Anchored(S \ {h})
      BY <2>5 DEF Anchored
    <3>2. PICK p \in Settled \ (S \ {h}) : Points(p, S \ {h})
      BY <2>6, <3>1 DEF Entered
    <3> QED BY <1>1, <2>4, <3>2 DEF Points
  <2>7. CASE S \ {h} = {}
    <3>1. S = {h}
      BY <2>7
    <3>2. Cardinality(Refs(h)) # 0
      <4>1. rc[h] > 0 /\ rc[h] = Cardinality(Refs(h)) + (IF rel = h THEN 1 ELSE 0)
        BY <1>1, <2>2 DEF Whereabouts, IInv, RcExact
      <4>2. rel # h
        BY <1>1, ConstantsAssumption
      <4> QED BY <4>1, <4>2, RefsFinite DEF IInv
    <3>3. PICK c \in Counted : ref[c] = h
      BY <3>2, FS_EmptySet DEF Refs
    <3>4. c \in Held \X Slot
      BY <2>5, <3>1, <3>3, CellSets DEF Anchored, Owned, IInv
    <3>5. PICK p \in Held : c \in Fields(p) /\ p = c[1]
      BY <3>4 DEF Fields
    <3>6. p \notin Tried /\ p # h
      BY <2>2, <3>3, <3>4, <3>5 DEF Counted, Tried, Gray, White
    <3>7. p \in Settled \ S /\ Points(p, S)
      BY <3>1, <3>3, <3>5, <3>6 DEF Settled, Points
    <3> QED BY <1>1, <3>7 DEF Points
  <2> QED BY <2>6, <2>7
<1> QED BY <1>2, <1>3

\* Steps that move no reference and colour no object.
LEMMA EnteredQuiet ==
  ASSUME IInv, Entered, UNCHANGED <<ref, rel, color, dropbuf, drop, todo>>, Held' = Held,
         cwork = {} \/ (gc' = gc /\ cwork' = cwork)
  PROVE  Entered'
<1>1. Settled' = Settled /\ Purple' = Purple /\ DropCells' = DropCells
  BY DEF Settled, Tried, Gray, White, Purple, DropCells
<1> QED BY <1>1, EnteredSame

\* What turns white was tried before.
LEMMA EnteredScan ==
  ASSUME IInv, Entered, NEW h \in cwork, Scan(h)
  PROVE  Entered'
<1>1. /\ gc = "scan" /\ Held' = Held /\ h \in Obj /\ DropCells' = DropCells
      /\ UNCHANGED <<ref, rel, dropbuf, gc>>
  BY DEF Scan, program, cascade, dropqueue, IInv, TypeOK, Held, DropCells
<1>2. Settled' = Settled /\ Purple' = Purple
  BY <1>1 DEF Scan, IInv, TypeOK, Settled, Tried, Gray, White, Purple
<1> QED BY <1>1, <1>2, EnteredSame

\* What is claimed was not settled.
LEMMA EnteredCollectWhite ==
  ASSUME IInv, Whereabouts, Entered, NEW h \in cwork, CollectWhite(h)
  PROVE  Entered'
<1>1. /\ gc = "collect" /\ DropCells' = DropCells
      /\ UNCHANGED <<ref, rel, dropbuf, gc>>
  BY DEF CollectWhite, program, cascade, dropqueue, DropCells
<1> QED BY <1>1, WhereCollectWhite, EnteredSame

\* Compaction gives up slots of the root buffer, and no purple object.
LEMMA EnteredCompact ==
  ASSUME IInv, Whereabouts, Entered, QueueKept, Compact
  PROVE  Entered'
<1>1. cwork = {} /\ UNCHANGED <<ref, rel, color, drop, todo>>
  BY DEF Compact, program, cascade
<1> QED BY <1>1, WhereCompact, EnteredQuiet

\* Pass 1 frees no held object.
LEMMA EnteredPass1 ==
  ASSUME IInv, Entered, Pass1
  PROVE  Entered'
<1> DEFINE dead == {h \in roots : color[h] = "BLACK" /\ rc[h] = 0}
<1>1. /\ gc = "pass1" /\ alloc' = alloc \ dead
      /\ UNCHANGED <<ref, rel, color, dropbuf, drop, todo, dropped, fwork, gbuf>>
  BY DEF Pass1, program, cascade, dropqueue
<1>2. dead \cap Held = {} /\ cwork = {}
  BY <1>1, NoTraversal DEF IInv, Placement, Purple
<1>3. Held' = Held
  BY <1>1, <1>2 DEF Held
<1> HIDE DEF dead
<1> QED BY <1>1, <1>2, <1>3, EnteredQuiet

\* The steps of a collection.
LEMMA EnteredCollect ==
  ASSUME IInv, Whereabouts, Entered, QueueKept, CollectStep
  PROVE  Entered'
<1>1. ASSUME NextPass("mark", "scan") \/ NextPass("scan", "collect") PROVE Entered'
  <2>1. cwork = {} /\ Held' = Held /\ UNCHANGED <<ref, rel, color, dropbuf, drop, todo>>
    BY <1>1 DEF NextPass, Held, header, program, cascade, dropqueue
  <2> QED BY <2>1, EnteredQuiet
<1>2. ASSUME NEW phase, NEW h, NEW wanted, Visit(phase, h, wanted) PROVE Entered'
  <2>1. cwork = {} /\ Held' = Held /\ UNCHANGED <<ref, rel, color, dropbuf, drop, todo>>
    BY <1>2 DEF Visit, Held, header, program, cascade, dropqueue
  <2> QED BY <2>1, EnteredQuiet
<1>3. ASSUME NEW h \in pend, MarkRoot(h) \/ ScanRoot(h) \/ CollectRoot(h) PROVE Entered'
  BY <1>2, <1>3 DEF MarkRoot, ScanRoot, CollectRoot
<1>4. ASSUME NEW h \in cwork, MarkGray(h) \/ Scan(h) \/ CollectWhite(h) PROVE Entered'
  BY <1>4, EnteredMarkGray, EnteredScan, EnteredCollectWhite
<1>5. ASSUME NEW h \in bwork, ScanBlack(h) PROVE Entered'
  BY <1>5, EnteredScanBlack
<1> QED BY <1>1, <1>3, <1>4, <1>5, EnteredPass1, EnteredCompact DEF CollectStep

\* The released old value of a store.
LEMMA EnteredReleaseOld ==
  ASSUME IInv, Whereabouts, Entered, Collector, ReleaseOld
  PROVE  Entered'
<1>1. PICK o : o = rel
  OBVIOUS
<1>2. rel' = NULL /\ DropCells' = DropCells /\ o \in Held \ dropbuf /\ rc[o] >= 1
  BY <1>1, ReleaseOldFacts DEF ReleaseOld, DropCells
<1>3. ReleaseLast(o) \/ ReleaseShared(o)
  BY <1>1 DEF ReleaseOld
<1> QED BY <1>1, <1>2, <1>3, ReleaseOldFacts, EnteredRelease

\* A drop that ends had no field left to release.
LEMMA EnteredDropEnd ==
  ASSUME IInv, Entered, DropEnd
  PROVE  Entered'
<1>1. /\ gc = "off" /\ drop # NULL /\ drop' = NULL /\ todo = {}
      /\ \A p \in Obj \ {drop} : color'[p] = color[p]
      /\ color'[drop] \in {"BLACK"} \/ drop \notin Obj
      /\ alloc' \subseteq alloc /\ alloc \ {drop} \subseteq alloc'
      /\ UNCHANGED <<ref, rel, dropbuf, gc, dropped, fwork, gbuf>>
  BY DEF DropEnd, program, dropqueue, traversal, IInv, TypeOK
<1>2. Held' = Held /\ drop \notin Held /\ Held \subseteq Obj /\ Settled = Held /\ Tried = {}
  BY <1>1, NoTraversal, CellSets DEF Held, IInv, CallStack
<1>3. Settled' = Held /\ DropCells' = DropCells
  <2>1. Held \cap Tried' = {}
    BY <1>1, <1>2 DEF Tried, Gray, White
  <2> QED BY <1>1, <1>2, <2>1 DEF Settled, DropCells
<1>4. \A o \in Held : o \in Purple => o \in Purple'
  BY <1>1, <1>2 DEF Purple
<1> QED BY <1>1, <1>2, <1>3, <1>4, EnteredSame

\* Every step of a program with the collector.
LEMMA NextEntered ==
  ASSUME IInv, Whereabouts, Entered, QueueKept, Collector, [Next]_vars
  PROVE  Entered'
<1> USE DEF program, header, cascade, dropqueue, traversal
<1>1. ASSUME PumpGbuf \/ Flush PROVE Entered'
  <2>1. PICK F \in SUBSET gbuf : gbuf' = gbuf \ F /\ alloc' = alloc \ F
    BY <1>1, DrainGbufLemma DEF PumpGbuf, Flush, IInv
  <2>2. /\ UNCHANGED <<ref, rel, color, dropbuf, drop, todo, dropped, fwork, gc, cwork>>
    BY <1>1 DEF PumpGbuf, Flush
  <2>3. Held' = Held
    BY <2>1, <2>2 DEF Held
  <2> QED BY <2>2, <2>3, EnteredQuiet
<1>2. ASSUME DrainDone \/ CollectCycles \/ Done PROVE Entered'
  <2>1. /\ gc = "off" /\ cwork' = cwork
        /\ UNCHANGED <<alloc, ref, rel, color, dropbuf, drop, todo, dropped, fwork, gbuf>>
    BY <1>2 DEF DrainDone, CollectCycles, Done, Idle
  <2>2. cwork = {}
    BY <2>1, NoTraversal
  <2> QED BY <2>1, <2>2, HeldSame, EnteredQuiet
<1>3. CASE UNCHANGED vars
  BY <1>3, HeldSame, EnteredQuiet DEF vars
<1>4. ASSUME Runtime PROVE Entered'
  BY <1>1, <1>2, <1>4, EnteredReleaseOld, EnteredMake, EnteredDrainNext, EnteredDropField,
     EnteredDropEnd, EnteredCollect DEF Runtime
<1> QED BY <1>3, <1>4, EnteredMutate DEF Next

-----------------------------------------------------------------------------
(* Without the collector the declared types do its work                     *)

\* Some object of any set is pointed to by none of the set, if the types admit no cycle: what
\* keeps its counter above 0 is outside.
LEMMA AcyclicEntered ==
  ASSUME IInv, Bookkeeping, ~Collector, Acyclic
  PROVE  Entered
<1>1. gc = "off" /\ Tried = {} /\ Settled = Held /\ Counted = Owned
  BY NoTraversal, AllCounted DEF IInv, Placement
<1> SUFFICES ASSUME NEW S \in SUBSET Held, S # {}, ~Anchored(S)
             PROVE  \E p \in Held \ S : Points(p, S)
  BY <1>1 DEF Entered
<1>2. PICK o \in S : \A p \in S : <<p, o>> \notin Shape
  BY CellSets DEF IInv, Acyclic
<1>3. o # NULL /\ rel # o /\ o \notin dropbuf
  BY CellSets, ConstantsAssumption DEF IInv, Anchored
<1>4. rc[o] # 0
  BY <1>1, <1>3 DEF Bookkeeping, Whereabouts
<1>5. Cardinality(Refs(o)) # 0
  BY <1>3, <1>4 DEF IInv, RcExact
<1>6. PICK c \in Owned : ref[c] = o
  BY <1>1, <1>5, FS_EmptySet DEF Refs
<1>7. c \in Held \X Slot
  BY <1>6 DEF Anchored, Owned
<1>8. PICK p \in Held : c \in Fields(p) /\ p = c[1]
  BY <1>7 DEF Fields
<1>9. <<p, o>> \in Shape
  BY <1>3, <1>6, <1>7, <1>8 DEF Bookkeeping, Typed
<1> QED BY <1>2, <1>6, <1>8, <1>9 DEF Points

\* Initially nothing is held.
LEMMA InitLeak == Init => LeakInv
<1>1. Init => Settled = {}
  BY DEF Init, Settled, Held
<1> QED BY <1>1, InitBookkeeping DEF LeakInv, Bookkeeping, Entered

-----------------------------------------------------------------------------
(* The theorems                                                             *)

\* The bookkeeping holds as long as no queued drop is discarded.
LEMMA BookkeepingInvariance == Spec /\ []QueueKept => []Bookkeeping
<1>1. IInv /\ Bookkeeping /\ QueueKept /\ [Next]_vars => Bookkeeping'
  BY NextBookkeeping
<1> QED BY <1>1, InitBookkeeping, Invariance, PTL DEF Spec

\* Every object that is not freed is anchored, or entered from one that is, in every state
\* of the cascade and of a collection step; and the shutdown empties the buffers in order.
THEOREM LeakInvariance == ASSUME Collector \/ Acyclic PROVE Spec /\ []QueueKept => []LeakInv
<1>1. CASE Collector
  <2>1. IInv /\ LeakInv /\ QueueKept /\ [Next]_vars => LeakInv'
    <3> SUFFICES ASSUME IInv, LeakInv, QueueKept, [Next]_vars PROVE LeakInv'
      OBVIOUS
    <3>1. Bookkeeping' /\ Entered'
      BY <1>1, NextBookkeeping, NextEntered DEF LeakInv, Bookkeeping
    <3> QED BY <3>1 DEF LeakInv, Bookkeeping
  <2> QED BY <2>1, InitLeak, Invariance, PTL DEF Spec
<1>2. CASE ~Collector
  <2>1. IInv /\ Bookkeeping => LeakInv
    BY <1>2, AcyclicEntered DEF LeakInv, Bookkeeping
  <2> QED BY <2>1, BookkeepingInvariance, Invariance, PTL
<1> QED BY <1>1, <1>2

\* What the program and the buffers do not reach, nothing reaches: it would not be entered.
LEMMA NothingForgotten == IInv /\ LeakInv => NoForgottenGarbage
<1> SUFFICES ASSUME IInv, LeakInv, Running PROVE NoForgottenGarbage
  BY DEF NoForgottenGarbage
<1>1. /\ gc = "off" /\ rel = NULL /\ drop = NULL /\ Settled = Held /\ DropCells = {}
      /\ NULL \notin Held
  BY NoTraversal, CellSets, ConstantsAssumption
     DEF Running, Idle, IInv, CallStack, DropCells
<1>2. ASSUME NEW C \in SUBSET Held, \A v \in Local : ref[v] \in C \cup {NULL},
             (roots \cap Held) \cup dropbuf \subseteq C,
             \A c \in C \X Slot : ref[c] \in C \cup {NULL}
      PROVE  C = Held
  <2> SUFFICES ASSUME C # Held PROVE FALSE
    OBVIOUS
  <2>1. PICK S : S = Held \ C
    OBVIOUS
  <2>2. S \cap dropbuf = {} /\ S \cap Purple = {}
    BY <1>1, <1>2, <2>1 DEF LeakInv, Whereabouts
  <2>3. \A v \in Local : ref[v] \notin S
    BY <1>1, <1>2, <2>1
  <2>4. S \in SUBSET Settled /\ S # {} /\ ~Anchored(S)
    BY <1>1, <2>1, <2>2, <2>3 DEF Anchored
  <2>5. PICK p \in Settled \ S : Points(p, S)
    BY <2>4 DEF LeakInv, Entered
  <2>6. PICK c \in Fields(p) : ref[c] \in S
    BY <2>5 DEF Points
  <2>7. p \in C /\ c \in C \X Slot
    BY <1>1, <2>1, <2>5, <2>6 DEF Fields
  <2> QED BY <1>1, <1>2, <2>1, <2>6, <2>7
<1>3. ASSUME NEW o \in alloc \cap dropped PROVE o \in roots /\ color[o] = "BLACK" /\ rc[o] = 0
  BY <1>1, <1>3, ConstantsAssumption DEF LeakInv, Whereabouts, IInv, Placement, TypeOK
<1> QED BY <1>2, <1>3 DEF NoForgottenGarbage

\* At the end nothing is left that could enter anything.
LEMMA NothingLeft == IInv /\ LeakInv => ZeroLiveAtExit
<1> SUFFICES ASSUME IInv, LeakInv, pc = "done" PROVE alloc = {}
  BY DEF ZeroLiveAtExit
<1>1. /\ gc = "off" /\ rel = NULL /\ drop = NULL /\ dropbuf \cup roots \cup gbuf = {}
      /\ \A v \in Local : ref[v] = NULL
  BY DEF LeakInv, Ending
<1>2. fwork = {} /\ Settled = Held /\ DropCells = {} /\ NULL \notin Held
  BY <1>1, NoTraversal, CellSets, ConstantsAssumption DEF IInv, DropCells
<1>3. ~Anchored(Held)
  BY <1>1, <1>2 DEF LeakInv, Whereabouts, Anchored
<1>4. Held = {}
  BY <1>2, <1>3 DEF LeakInv, Entered
<1>5. alloc \cap dropped = {}
  BY <1>1, ConstantsAssumption DEF LeakInv, Whereabouts, IInv, TypeOK
<1> QED BY <1>1, <1>2, <1>4, <1>5 DEF Held

\* No garbage is forgotten by jrt_release, drain_drops and jrt_collect_step, whatever the
\* capacities, unless collector_trim discards queued drops: with the collector for every
\* program, in a NO_CYCLES build for programs whose types admit no cycle.
THEOREM GarbageIsRemembered ==
  ASSUME Collector \/ Acyclic PROVE Spec /\ []QueueKept => []NoForgottenGarbage
BY LeakInvariance, Invariance, NothingForgotten, PTL

\* jrt_shutdown frees every object, under the same conditions: live_objects is 0 at the end.
THEOREM NothingLeftAtExit ==
  ASSUME Collector \/ Acyclic PROVE Spec /\ []QueueKept => []ZeroLiveAtExit
BY LeakInvariance, Invariance, NothingLeft, PTL

\* The drop queue at most doubles when it is full of distinct objects.
LEMMA QueueBound ==
  ASSUME TypeOK, dropcap <= DROP_CAP0 \/ dropcap <= 2 * Cardinality(Obj), [Next]_vars
  PROVE  dropcap' <= DROP_CAP0 \/ dropcap' <= 2 * Cardinality(Obj)
<1> DEFINE Small(n) == n <= DROP_CAP0 \/ n <= 2 * Cardinality(Obj)
<1> USE DEF dropqueue
<1>1. Cardinality(dropbuf) \in Nat /\ Cardinality(Obj) \in Nat
      /\ Cardinality(dropbuf) <= Cardinality(Obj)
  BY ConstantsAssumption, FS_Subset, FS_CardinalityType DEF TypeOK
<1>2. ASSUME NEW o, ReleaseLast(o) \/ ReleaseShared(o) PROVE Small(dropcap')
  BY <1>1, <1>2, ConstantsAssumption DEF ReleaseLast, ReleaseShared, DropEnq, TypeOK
<1>3. ASSUME Mutate PROVE dropcap' = dropcap
  BY <1>3 DEF Mutate, CopyLocal, GetField, PutField, PutNull, Release, Store, BeginNew, Exit
<1>4. ASSUME CollectStep PROVE dropcap' \in {dropcap, 0}
  <2>1. ASSUME Pass1 \/ Compact PROVE dropcap' \in {dropcap, 0}
    BY <2>1 DEF Pass1, Compact
  <2>2. ASSUME NextPass("mark", "scan") \/ NextPass("scan", "collect") PROVE dropcap' = dropcap
    BY <2>2 DEF NextPass
  <2>3. ASSUME NEW h, MarkRoot(h) \/ ScanRoot(h) \/ CollectRoot(h) PROVE dropcap' = dropcap
    BY <2>3 DEF MarkRoot, ScanRoot, CollectRoot, Visit
  <2>4. ASSUME NEW h, MarkGray(h) \/ Scan(h) \/ CollectWhite(h) \/ ScanBlack(h)
        PROVE  dropcap' = dropcap
    BY <2>4 DEF MarkGray, Scan, CollectWhite, ScanBlack
  <2> QED BY <1>4, <2>1, <2>2, <2>3, <2>4 DEF CollectStep
<1>5. ASSUME ReleaseOld PROVE Small(dropcap')
  BY <1>2, <1>5 DEF ReleaseOld
<1>6. ASSUME NEW s, DropField(s) PROVE Small(dropcap')
  BY <1>2, <1>6 DEF DropField
<1>7. ASSUME NEW v, NEW o, PumpGbuf \/ Make(v, o) \/ DrainNext(o) \/ DropEnd \/ DrainDone
                           \/ CollectCycles \/ Flush \/ Done \/ UNCHANGED vars
      PROVE  dropcap' = dropcap
  BY <1>7 DEF PumpGbuf, Make, DrainNext, DropEnd, DrainDone, CollectCycles, Flush, Done, vars
<1>8. 0 <= DROP_CAP0
  BY ConstantsAssumption
<1>9. Small(dropcap')
  BY <1>3, <1>4, <1>5, <1>6, <1>7, <1>8 DEF Next, Runtime
<1> QED BY <1>9

\* collector_trim never discards a queued drop of a heap of at most TRIM_CAP / 2 objects.
THEOREM SmallHeapsKeepTheirQueue == ASSUME HeapFits PROVE Spec => []QueueKept
<1> DEFINE Bound == dropcap <= DROP_CAP0 \/ dropcap <= 2 * Cardinality(Obj)
<1>1. Init => Bound
  BY ConstantsAssumption DEF Init
<1>2. TypeOK /\ Bound /\ [Next]_vars => Bound'
  BY QueueBound
<1>3. TypeOK /\ Bound => QueueKept
  BY ConstantsAssumption, FS_CardinalityType DEF TypeOK, QueueKept, HeapFits
<1> HIDE DEF Bound
<1> QED BY <1>1, <1>2, <1>3, TypeCorrect, PTL DEF Spec
=============================================================================
