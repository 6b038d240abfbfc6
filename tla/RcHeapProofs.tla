---------------------------- MODULE RcHeapProofs ----------------------------
(***************************************************************************)
(* The safety properties of RcHeap for every heap, program and capacity:   *)
(* IInv is inductive, and the properties follow from it.                   *)
(***************************************************************************)
EXTENDS RcHeapInv, FiniteSetTheorems, TLAPS

-----------------------------------------------------------------------------
(* Sets of cells                                                            *)

\* The program has finitely many cells.
LEMMA CellFinite == IsFiniteSet(Cell)
<1>1. IsFiniteSet(Obj \X Slot)
  BY ConstantsAssumption, FS_Product
<1> QED BY <1>1, ConstantsAssumption, FS_Union DEF Cell

\* Counting what is left of a finite set.
LEMMA CardMinus ==
  ASSUME NEW S, NEW T, IsFiniteSet(S), T \subseteq S
  PROVE  /\ Cardinality(S \ T) = Cardinality(S) - Cardinality(T)
         /\ Cardinality(S) \in Nat /\ Cardinality(T) \in Nat /\ Cardinality(S \ T) \in Nat
<1>1. S \cap T = T
  OBVIOUS
<1>2. IsFiniteSet(T) /\ IsFiniteSet(S \ T)
  BY FS_Subset
<1> QED BY <1>1, <1>2, FS_Difference, FS_CardinalityType

\* Counting a disjoint union.
LEMMA CardPlus ==
  ASSUME NEW S, NEW T, IsFiniteSet(S), IsFiniteSet(T), S \cap T = {}
  PROVE  /\ Cardinality(S \cup T) = Cardinality(S) + Cardinality(T)
         /\ Cardinality(S) \in Nat /\ Cardinality(T) \in Nat
<1>1. Cardinality(S) \in Nat /\ Cardinality(T) \in Nat
  BY FS_CardinalityType
<1>2. Cardinality(S \cup T) = Cardinality(S) + Cardinality(T) - Cardinality({})
  BY FS_Union
<1> QED BY <1>1, <1>2, FS_EmptySet

\* The cells that count are cells of the program.
LEMMA CellSets ==
  ASSUME TypeOK
  PROVE  Held \subseteq Obj /\ Owned \subseteq Cell /\ Counted \subseteq Owned
BY DEF TypeOK, Held, Owned, Counted, Cell, DropCells

\* The references to an object can be counted.
LEMMA RefsFinite ==
  ASSUME TypeOK, NEW o
  PROVE  IsFiniteSet(Refs(o)) /\ Cardinality(Refs(o)) \in Nat
<1>1. Refs(o) \subseteq Cell
  BY CellSets DEF Refs
<1> QED BY <1>1, CellFinite, FS_Subset, FS_CardinalityType

\* Without trial deletion under way, every owning cell counts.
LEMMA AllCounted ==
  ASSUME TypeOK, Tried = {}
  PROVE  Counted = Owned
<1>1. \A o \in Obj : color[o] \in {"BLACK", "PURPLE"}
  BY DEF TypeOK, Tried, Gray, White
<1> QED BY <1>1, CellSets DEF Counted

\* Only what is referenced has a positive counter, and the other way round.
LEMMA Referenced ==
  ASSUME TypeOK, RcExact, NEW c \in Counted, ref[c] \in Held
  PROVE  rc[ref[c]] >= 1
<1> DEFINE o == ref[c]
<1>1. c \in Refs(o)
  BY DEF Refs
<1>2. Cardinality(Refs(o)) # 0
  BY <1>1, RefsFinite, FS_EmptySet
<1> QED BY <1>2, RefsFinite DEF RcExact

\* An object that no counting cell and no pending release refers to is at count 0.
LEMMA Unreferenced ==
  ASSUME TypeOK, RcExact, NEW o \in Held, rc[o] = 0
  PROVE  rel # o /\ \A c \in Counted : ref[c] # o
<1>1. rel # o /\ Cardinality(Refs(o)) = 0
  BY RefsFinite DEF RcExact
<1>2. Refs(o) = {}
  BY <1>1, RefsFinite, FS_EmptySet
<1> QED BY <1>1, <1>2 DEF Refs

\* Nothing that counts refers to a queued object.
LEMMA QueuedAtZero ==
  ASSUME IInv, NEW x \in dropbuf
  PROVE  rc[x] = 0 /\ Refs(x) = {}
<1>1. x \in Held /\ x # NULL
  BY ConstantsAssumption DEF IInv, Placement, TypeOK
<1>2. Refs(x) = {} /\ rel # x
  BY <1>1 DEF IInv, Ownership, Target, Refs
<1> QED BY <1>1, <1>2, FS_EmptySet DEF IInv, RcExact

\* The number of edges is a number, and it is 0 exactly when there is no edge.
LEMMA EdgesLemma ==
  ASSUME TypeOK, NEW h \in Obj, NEW o
  PROVE  /\ Edges(h, o) \in Nat
         /\ IsFiniteSet({c \in Fields(h) : ref[c] = o})
         /\ Edges(h, o) # 0 <=> Points(h, {o})
<1>1. {c \in Fields(h) : ref[c] = o} \subseteq Cell
  BY DEF Fields, Cell
<1>2. IsFiniteSet({c \in Fields(h) : ref[c] = o})
  BY <1>1, CellFinite, FS_Subset
<1> QED BY <1>2, FS_CardinalityType, FS_EmptySet DEF Edges, Points

-----------------------------------------------------------------------------
(* The initial state, and the steps that move no reference                  *)

\* The empty heap satisfies the invariant.
LEMMA InitIInv == Init => IInv
<1> SUFFICES ASSUME Init PROVE IInv
  OBVIOUS
<1>1. TypeOK
  <2>1. draining \in BOOLEAN
    BY Zenon DEF Init
  <2>2. ref \in [Cell -> Obj \cup {NULL}]
    BY DEF Init
  <2>3. rc \in [Obj -> Nat] /\ color \in [Obj -> {"BLACK", "GRAY", "WHITE", "PURPLE"}]
    BY DEF Init
  <2> QED BY <2>1, <2>2, <2>3 DEF Init, TypeOK
<1>2. Held = {} /\ Owned = Local /\ Counted = Local /\ Tried = {} /\ Purple = {}
  BY DEF Init, Held, Owned, Counted, DropCells, Tried, Gray, White, Purple
<1>3. CallStack
  BY DEF Init, CallStack
<1>4. Placement
  BY <1>2 DEF Init, Placement
<1>5. Ownership
  BY <1>2 DEF Init, Ownership, Target, Cell
<1>6. RcExact
  BY <1>2 DEF RcExact
<1> QED BY <1>1, <1>3, <1>4, <1>5, <1>6 DEF Init, IInv, MarkPhase, ScanPhase, CollectPhase

\* The sets the invariant speaks of depend on these variables only.
LEMMA SameSets ==
  ASSUME UNCHANGED <<alloc, ref, color, dropped, drop, todo, fwork, gbuf>>
  PROVE  /\ Held' = Held /\ Owned' = Owned /\ Counted' = Counted
         /\ Gray' = Gray /\ White' = White /\ Tried' = Tried /\ Purple' = Purple
         /\ \A o : Refs(o)' = Refs(o)
BY DEF Held, Owned, Counted, DropCells, Gray, White, Tried, Purple, Refs

\* Steps that change only what the program is doing.
LEMMA ControlStep ==
  ASSUME IInv, TypeOK',
         UNCHANGED <<alloc, ref, rel, header, drop, todo, dropped, dropqueue, roots, gc,
                     traversal, gbuf>>,
         (drop # NULL => draining'), (rel # NULL => ~draining')
  PROVE  IInv'
<1> USE DEF header, dropqueue, traversal
<1>1. Held' = Held /\ Owned' = Owned /\ Counted' = Counted
      /\ Gray' = Gray /\ White' = White /\ Tried' = Tried /\ Purple' = Purple
      /\ \A o : Refs(o)' = Refs(o)
  BY SameSets
<1>2. CallStack'
  BY DEF IInv, CallStack
<1>3. Placement'
  BY <1>1 DEF IInv, Placement
<1>4. Ownership'
  BY <1>1 DEF IInv, Ownership, Target
<1>5. RcExact'
  BY <1>1 DEF IInv, RcExact
<1>6. MarkPhase'
  BY <1>1 DEF IInv, MarkPhase, Covered, Points
<1>7. ScanPhase'
  BY <1>1 DEF IInv, ScanPhase, Covered, Points
<1>8. CollectPhase'
  BY <1>1 DEF IInv, CollectPhase, Covered, Points
<1> QED BY <1>2, <1>3, <1>4, <1>5, <1>6, <1>7, <1>8 DEF IInv

\* jrt_alloc starting a bounded drain.
LEMMA BeginNewStep == ASSUME IInv, BeginNew PROVE IInv'
<1> USE DEF program, header, dropqueue, traversal
<1>1. TypeOK'
  <2>1. draining' \in BOOLEAN
    BY Zenon DEF IInv, TypeOK, BeginNew, StartDrain
  <2>2. left' \in Int
    BY ConstantsAssumption DEF IInv, TypeOK, BeginNew, StartDrain
  <2> QED BY <2>1, <2>2 DEF IInv, TypeOK, BeginNew
<1> QED BY <1>1, ControlStep DEF BeginNew, StartDrain, Running, Idle, IInv, CallStack

\* jrt_shutdown starting its first full drain.
LEMMA ExitStep == ASSUME IInv, Exit PROVE IInv'
<1> USE DEF program, header, dropqueue, traversal
<1>1. TypeOK'
  BY DEF IInv, TypeOK, Exit, StartDrain
<1> QED BY <1>1, ControlStep DEF Exit, StartDrain, Running, Idle

\* The end of drain_drops.
LEMMA DrainDoneStep == ASSUME IInv, DrainDone PROVE IInv'
<1> USE DEF program, header, dropqueue, traversal
<1>1. TypeOK'
  <2>1. draining' \in BOOLEAN
    BY Zenon DEF DrainDone
  <2> QED BY <2>1 DEF IInv, TypeOK, DrainDone
<1> QED BY <1>1, ControlStep DEF DrainDone

\* The end of jrt_shutdown.
LEMMA DoneStep == ASSUME IInv, Done PROVE IInv'
<1> USE DEF program, header, cascade, dropqueue, traversal
<1>1. TypeOK'
  BY DEF IInv, TypeOK, Done
<1> QED BY <1>1, ControlStep DEF Done, Idle, IInv, CallStack

\* Steps that only free objects the program no longer holds.
LEMMA FreeStep ==
  ASSUME IInv, TypeOK',
         gc = "off", gc' = "off", Idle, Tried = {},
         UNCHANGED <<ref, rel, header, drop, todo, dropped, dropbuf, roots, traversal>>,
         NEW F \in SUBSET gbuf, gbuf' = gbuf \ F, alloc' = alloc \ F,
         rel' # NULL => ~draining', drop' = NULL
  PROVE  IInv'
<1> USE DEF header, traversal
<1>1. Held' = Held
  BY DEF Held
<1>2. /\ DropCells' = DropCells /\ Owned' = Owned /\ Counted' = Counted
      /\ Gray' = Gray /\ White' = White /\ Tried' = Tried /\ Purple' = Purple
      /\ \A o : Refs(o)' = Refs(o)
  BY <1>1 DEF DropCells, Owned, Counted, Gray, White, Tried, Purple, Refs
<1>3. CallStack'
  BY DEF IInv, CallStack
<1>4. Placement'
  BY <1>1, <1>2 DEF IInv, Placement, CallStack
<1>5. Ownership'
  BY <1>1, <1>2 DEF IInv, Ownership, Target
<1>6. RcExact'
  BY <1>1, <1>2 DEF IInv, RcExact
<1> QED BY <1>3, <1>4, <1>5, <1>6 DEF IInv, MarkPhase, ScanPhase, CollectPhase

\* drain_gbuf frees a part of the deferred garbage and touches nothing else.
LEMMA DrainGbufLemma ==
  ASSUME TypeOK, NEW n, DrainGbuf(n)
  PROVE  \E F \in SUBSET gbuf : gbuf' = gbuf \ F /\ alloc' = alloc \ F
BY DEF DrainGbuf

\* The deferred frees an allocation pays for.
LEMMA PumpGbufStep == ASSUME IInv, PumpGbuf PROVE IInv'
<1> USE DEF program, header, cascade, dropqueue, traversal
<1>1. PICK F \in SUBSET gbuf : gbuf' = gbuf \ F /\ alloc' = alloc \ F
  BY DrainGbufLemma DEF IInv, PumpGbuf
<1>2. TypeOK'
  BY <1>1 DEF IInv, TypeOK, PumpGbuf
<1> QED BY <1>1, <1>2, FreeStep DEF PumpGbuf, Idle, IInv, Placement, CallStack

\* The last flush of the deferred garbage.
LEMMA FlushStep == ASSUME IInv, Flush PROVE IInv'
<1> USE DEF program, header, dropqueue, traversal
<1>1. PICK F \in SUBSET gbuf : gbuf' = gbuf \ F /\ alloc' = alloc \ F
  BY DrainGbufLemma DEF IInv, Flush
<1>2. TypeOK'
  BY <1>1 DEF IInv, TypeOK, Flush, StartDrain
<1> QED BY <1>1, <1>2, FreeStep DEF Flush, Idle, IInv, Placement, CallStack

\* DropEnd: the dropped object loses its colour, and its memory unless it is buffered.
LEMMA DropEndStep == ASSUME IInv, DropEnd PROVE IInv'
<1> USE DEF program, cascade, dropqueue, traversal, IInv
<1>1. drop \in Obj /\ drop \notin Held /\ drop \in alloc /\ drop \in dropped
  BY DEF TypeOK, DropEnd, CallStack, Held
<1>2. TypeOK'
  BY <1>1 DEF TypeOK, DropEnd
<1>3. Held' = Held /\ DropCells' = {} /\ DropCells = {}
  BY <1>1 DEF DropEnd, Held, DropCells
<1>4. Tried = {}
  BY DEF DropEnd, Placement
<1>5. Tried' = {} /\ Purple' \subseteq Purple /\ Purple \subseteq Purple' \cup {drop}
  BY <1>1, <1>4 DEF DropEnd, TypeOK, Tried, Gray, White, Purple
<1>6. Owned' = Owned
  BY <1>3 DEF Owned, DropEnd
<1>7. Counted' = Counted /\ \A o : Refs(o)' = Refs(o)
  <2>1. \A o \in Held : color'[o] = color[o]
    BY <1>1 DEF DropEnd, TypeOK
  <2>2. Counted' = Counted
    BY <1>3, <1>6, <2>1 DEF Counted
  <2> QED BY <2>2 DEF Refs, DropEnd
<1>8. CallStack'
  BY DEF DropEnd, CallStack
<1>9. Placement'
  BY <1>1, <1>3, <1>4, <1>5 DEF DropEnd, Placement
<1>10. Ownership'
  BY <1>3, <1>6, <1>7 DEF DropEnd, Ownership, Target
<1>11. RcExact'
  BY <1>3, <1>7 DEF DropEnd, RcExact
<1> QED BY <1>2, <1>8, <1>9, <1>10, <1>11 DEF DropEnd, MarkPhase, ScanPhase, CollectPhase

\* jrt_collect_cycles starting another step.
LEMMA CollectCyclesStep == ASSUME IInv, CollectCycles PROVE IInv'
<1> USE DEF program, header, cascade, dropqueue, traversal, IInv
<1>1. TypeOK'
  BY DEF TypeOK, CollectCycles
<1>2. Held' = Held /\ Owned' = Owned /\ Counted' = Counted
      /\ Gray' = Gray /\ White' = White /\ Tried' = Tried /\ Purple' = Purple
      /\ \A o : Refs(o)' = Refs(o)
  BY SameSets DEF CollectCycles
<1>3. CallStack'
  BY DEF CollectCycles, CallStack, Idle
<1>4. Placement'
  BY <1>2 DEF CollectCycles, Placement, Idle
<1>5. Ownership' /\ RcExact'
  BY <1>2 DEF CollectCycles, Ownership, RcExact, Target
<1> QED BY <1>1, <1>3, <1>4, <1>5 DEF CollectCycles, MarkPhase, ScanPhase, CollectPhase

-----------------------------------------------------------------------------
(* The passes of a collection step                                          *)

\* Pass 1 frees dropped objects only: none of them is held.
LEMMA Pass1Step == ASSUME IInv, Pass1 PROVE IInv'
<1> USE DEF program, cascade, dropqueue, IInv
<1> DEFINE dead == {h \in roots : color[h] = "BLACK" /\ rc[h] = 0}
<1>1. alloc' = alloc \ dead /\ roots' = roots \ dead /\ buffered' = buffered \ dead
      /\ batch' \subseteq roots' /\ pend' = batch' /\ gc = "pass1" /\ gc' = "mark"
      /\ UNCHANGED <<program, rc, color, cascade, dropqueue, cwork, bwork, fwork, gbuf>>
  BY DEF Pass1
<1> HIDE DEF dead
<1>2. dead \cap Held = {} /\ dead \cap gbuf = {} /\ drop \notin dead /\ Tried = {}
  <2>1. dead \subseteq roots /\ dead \cap Purple = {} /\ \A h \in dead : rc[h] = 0
    BY DEF dead, Purple
  <2>2. drop \in roots => drop \in Purple
    BY ConstantsAssumption DEF CallStack, Purple, TypeOK
  <2> QED BY <1>1, <2>1, <2>2 DEF Placement
<1>3. TypeOK'
  BY <1>1 DEF TypeOK
<1>4. Held' = Held /\ DropCells' = DropCells
  BY <1>1, <1>2 DEF Held, DropCells
<1>5. /\ Owned' = Owned /\ Counted' = Counted /\ \A o : Refs(o)' = Refs(o)
      /\ Gray' = Gray /\ White' = White /\ Tried' = Tried /\ Purple' = Purple
  BY <1>1, <1>4 DEF Owned, Counted, Refs, Gray, White, Tried, Purple
<1>6. CallStack'
  BY <1>1, <1>2 DEF CallStack
<1>7. Placement'
  BY <1>1, <1>2, <1>4, <1>5 DEF Placement, CallStack, dead
<1>8. Ownership' /\ RcExact'
  BY <1>1, <1>4, <1>5 DEF Ownership, Target, RcExact
<1>9. MarkPhase'
  BY <1>1, <1>2, <1>5 DEF MarkPhase, Covered, Tried, CallStack
<1> QED BY <1>1, <1>3, <1>6, <1>7, <1>8, <1>9 DEF ScanPhase, CollectPhase

\* Taking a batch entry changes no counter, colour or cell.
LEMMA VisitFrame ==
  ASSUME IInv, NEW phase \in {"mark", "scan", "collect"}, NEW h \in pend, NEW wanted,
         Visit(phase, h, wanted)
  PROVE  /\ TypeOK' /\ CallStack' /\ Placement' /\ Ownership' /\ RcExact'
         /\ Held' = Held /\ Gray' = Gray /\ White' = White /\ Purple' = Purple
         /\ Tried' = Tried
         /\ UNCHANGED <<alloc, program, header, cascade, dropqueue, roots, gc, batch,
                        bwork, fwork, gbuf>>
<1> USE DEF program, header, cascade, dropqueue, IInv
<1>1. /\ gc = phase /\ pend' = pend \ {h} /\ cwork' \subseteq {h}
      /\ UNCHANGED <<alloc, program, header, cascade, dropqueue, roots, gc, batch,
                     bwork, fwork, gbuf>>
  BY DEF Visit
<1>2. /\ Held' = Held /\ Owned' = Owned /\ Counted' = Counted
      /\ Gray' = Gray /\ White' = White /\ Tried' = Tried /\ Purple' = Purple
      /\ \A o : Refs(o)' = Refs(o)
  BY <1>1, SameSets
<1>3. TypeOK'
  BY <1>1 DEF TypeOK
<1>4. CallStack'
  BY <1>1 DEF CallStack
<1>5. Placement'
  BY <1>1, <1>2 DEF Placement
<1>6. Ownership' /\ RcExact'
  BY <1>1, <1>2 DEF Ownership, Target, RcExact
<1> QED BY <1>1, <1>2, <1>3, <1>4, <1>5, <1>6

\* Marking starts from a live candidate of the batch.
LEMMA MarkRootStep == ASSUME IInv, NEW h \in pend, MarkRoot(h) PROVE IInv'
<1> USE DEF program, header, cascade, dropqueue, IInv
<1>1. Visit("mark", h, color[h] = "PURPLE" /\ rc[h] > 0)
  BY DEF MarkRoot
<1>2. /\ TypeOK' /\ CallStack' /\ Placement' /\ Ownership' /\ RcExact'
      /\ Held' = Held /\ Gray' = Gray /\ White' = White
      /\ UNCHANGED <<alloc, program, header, cascade, dropqueue, roots, gc, batch,
                     bwork, fwork, gbuf>>
  BY <1>1, VisitFrame
<1>3. gc = "mark" /\ cwork = {} /\ h \in batch /\ cwork' \subseteq {h}
      /\ (h \in cwork' => rc[h] > 0)
  BY <1>1 DEF Visit, Placement
<1>4. h \in cwork' => h \in Held \ dropbuf
  <2> SUFFICES ASSUME h \in cwork' PROVE h \in Held \ dropbuf
    OBVIOUS
  <2>1. h \in Held
    BY <1>3 DEF Placement, Held, CallStack
  <2> QED BY <1>3, <2>1, QueuedAtZero
<1>5. MarkPhase'
  BY <1>2, <1>3, <1>4 DEF MarkPhase, Covered, Points
<1> QED BY <1>2, <1>3, <1>5 DEF ScanPhase, CollectPhase

\* Scanning starts from a gray member of the batch.
LEMMA ScanRootStep == ASSUME IInv, NEW h \in pend, ScanRoot(h) PROVE IInv'
<1> USE DEF program, header, cascade, dropqueue, IInv
<1>1. Visit("scan", h, color[h] = "GRAY")
  BY DEF ScanRoot
<1>2. /\ TypeOK' /\ CallStack' /\ Placement' /\ Ownership' /\ RcExact'
      /\ Held' = Held /\ Gray' = Gray /\ White' = White /\ Tried' = Tried
      /\ Purple' = Purple
      /\ UNCHANGED <<alloc, program, header, cascade, dropqueue, roots, gc, batch,
                     bwork, fwork, gbuf>>
  BY <1>1, VisitFrame
<1>3. gc = "scan" /\ cwork = {} /\ bwork = {} /\ pend' = pend \ {h}
      /\ cwork' = IF h \in Gray THEN {h} ELSE {}
  BY <1>1 DEF Visit, TypeOK, Gray
<1>4. Gray \cap (pend' \cup cwork' \cup bwork') = Gray \cap (pend \cup cwork \cup bwork)
  <2>1. bwork' = {}
    BY <1>2, <1>3
  <2>2. Gray \cap (pend' \cup cwork') = Gray \cap pend
    BY <1>3
  <2> QED BY <1>3, <2>1, <2>2
<1>5. cwork' \cup bwork' \subseteq Held \ Purple
  BY <1>2, <1>3 DEF Placement, Tried, Gray, Purple
<1>6. Covered(Gray, pend' \cup cwork' \cup bwork')
  BY <1>3, <1>4 DEF ScanPhase, Covered
<1>7. ScanPhase'
  BY <1>2, <1>3, <1>5, <1>6 DEF ScanPhase, Covered, Points
<1> QED BY <1>2, <1>3, <1>7 DEF MarkPhase, CollectPhase

\* Collecting starts from a white member of the batch.
LEMMA CollectRootStep == ASSUME IInv, NEW h \in pend, CollectRoot(h) PROVE IInv'
<1> USE DEF program, header, cascade, dropqueue, IInv
<1>1. Visit("collect", h, color[h] = "WHITE")
  BY DEF CollectRoot
<1>2. /\ TypeOK' /\ CallStack' /\ Placement' /\ Ownership' /\ RcExact'
      /\ Gray' = Gray /\ White' = White
      /\ UNCHANGED <<alloc, program, header, cascade, dropqueue, roots, gc, batch,
                     bwork, fwork, gbuf>>
  BY <1>1, VisitFrame
<1>3. gc = "collect" /\ cwork = {} /\ pend' = pend \ {h}
      /\ cwork' = IF h \in White THEN {h} ELSE {}
  BY <1>1 DEF Visit, TypeOK, White
<1>4. White \cap (pend' \cup cwork') = White \cap (pend \cup cwork)
  BY <1>3
<1>5. Covered(White, pend' \cup cwork')
  BY <1>3, <1>4 DEF CollectPhase, Covered
<1>6. CollectPhase'
  BY <1>2, <1>3, <1>5 DEF CollectPhase, Covered, Points
<1> QED BY <1>2, <1>3, <1>6 DEF MarkPhase, ScanPhase

\* Passing on to the next loop changes no counter, colour or cell.
LEMMA NextPassFrame ==
  ASSUME IInv, NEW from \in {"mark", "scan"}, NEW to \in {"scan", "collect"},
         NextPass(from, to)
  PROVE  /\ TypeOK' /\ CallStack' /\ Placement' /\ Ownership' /\ RcExact'
         /\ Held' = Held /\ Gray' = Gray /\ White' = White /\ Purple' = Purple
         /\ Tried' = Tried
<1> USE DEF program, header, cascade, dropqueue, IInv
<1>1. /\ Held' = Held /\ Owned' = Owned /\ Counted' = Counted
      /\ Gray' = Gray /\ White' = White /\ Tried' = Tried /\ Purple' = Purple
      /\ \A o : Refs(o)' = Refs(o)
  BY SameSets DEF NextPass
<1>2. TypeOK'
  BY DEF TypeOK, NextPass
<1>3. CallStack'
  BY DEF NextPass, CallStack
<1>4. Placement'
  BY <1>1 DEF NextPass, Placement
<1>5. Ownership' /\ RcExact'
  BY <1>1 DEF NextPass, Ownership, Target, RcExact
<1> QED BY <1>1, <1>2, <1>3, <1>4, <1>5

\* When marking is over the gray objects are closed under references.
LEMMA MarkDoneStep == ASSUME IInv, NextPass("mark", "scan") PROVE IInv'
<1> USE DEF program, header, IInv
<1>1. /\ TypeOK' /\ CallStack' /\ Placement' /\ Ownership' /\ RcExact'
      /\ Held' = Held /\ Gray' = Gray /\ White' = White /\ Purple' = Purple
      /\ Tried' = Tried
  BY NextPassFrame
<1>2. White = {} /\ Tried = Gray /\ Covered(Gray, batch)
      /\ \A p \in Gray : \A c \in Fields(p) : ref[c] \in Gray \cup {NULL}
  BY DEF NextPass, MarkPhase, Tried
<1>3. Gray \cap Purple = {} /\ NULL \notin Purple
  BY ConstantsAssumption DEF Gray, Purple
<1>4. \A p \in Tried : ~Points(p, Purple)
  BY <1>2, <1>3 DEF Points
<1>5. ScanPhase'
  BY <1>1, <1>2, <1>4 DEF NextPass, ScanPhase, Covered, Points
<1> QED BY <1>1, <1>5 DEF NextPass, MarkPhase, CollectPhase

\* When scanning is over nothing is gray any more: a gray object would have to be
\* reachable from an empty worklist.
LEMMA ScanDoneStep == ASSUME IInv, NextPass("scan", "collect") PROVE IInv'
<1> USE DEF program, header, IInv
<1>1. /\ TypeOK' /\ CallStack' /\ Placement' /\ Ownership' /\ RcExact'
      /\ Gray' = Gray /\ White' = White
  BY NextPassFrame
<1>2. Covered(Gray, {}) /\ Covered(Tried, batch)
  BY DEF NextPass, ScanPhase
<1>3. Gray = {}
  BY <1>2 DEF Covered
<1>4. Covered(White, batch)
  BY <1>2, <1>3 DEF Tried
<1>5. CollectPhase'
  BY <1>1, <1>3, <1>4 DEF NextPass, ScanPhase, CollectPhase, Covered, Points
<1> QED BY <1>1, <1>5 DEF NextPass, MarkPhase, ScanPhase

-----------------------------------------------------------------------------
(* The traversals                                                           *)

\* Restricting a set and adding what the removed member reaches keeps it covered.
LEMMA CoveredRemove ==
  ASSUME NEW X, NEW src, NEW src2, NEW h, Covered(X, src), src \subseteq src2 \cup {h},
         \A k \in X \ {h} : Points(h, {k}) => k \in src2
  PROVE  Covered(X \ {h}, src2)
<1> SUFFICES ASSUME NEW S \in SUBSET (X \ {h}), S # {}, S \cap src2 = {}
             PROVE  \E p \in (X \ {h}) \ S : Points(p, S)
  BY DEF Covered
<1>1. PICK p \in X \ S : Points(p, S)
  BY DEF Covered
<1>2. PICK c \in Fields(p) : ref[c] \in S
  BY <1>1 DEF Points
<1>3. p # h
  BY <1>2 DEF Points
<1> QED BY <1>1, <1>3

\* A set stays covered when it grows by an object that it or its sources point to.
LEMMA CoveredAdd ==
  ASSUME NEW X, NEW src, NEW h, Covered(X, src), h \in src \/ \E p \in X : Points(p, {h})
  PROVE  Covered(X \cup {h}, src)
<1> SUFFICES ASSUME NEW S \in SUBSET (X \cup {h}), S # {}, S \cap src = {}, h \notin X
             PROVE  \E p \in (X \cup {h}) \ S : Points(p, S)
  BY DEF Covered
<1>1. CASE S = {h}
  BY <1>1
<1>2. CASE S # {h}
  <2>1. S \ {h} # {} /\ S \ {h} \in SUBSET X /\ (S \ {h}) \cap src = {}
    BY <1>2
  <2>2. PICK p \in X \ (S \ {h}) : Points(p, S \ {h})
    BY <2>1 DEF Covered
  <2> QED BY <2>2 DEF Points
<1> QED BY <1>1, <1>2

\* What trace visits, for an object whose fields hold live targets.
LEMMA KidsLemma ==
  ASSUME TypeOK, NEW h \in Obj
  PROVE  /\ Kids(h) \subseteq Obj
         /\ \A k \in Obj : k \in Kids(h) <=> Points(h, {k})
         /\ \A c \in Fields(h) : ref[c] \in Kids(h) \cup {NULL}
BY DEF Kids, Points, Fields, TypeOK, Cell

\* A step that colours h and counts its edges once less, or once more.
LEMMA RecountLemma ==
  ASSUME TypeOK, RcExact, NEW h \in Held, rel = NULL,
         UNCHANGED <<ref, rel>>, Held' = Held,
         \/ /\ rc' = Visited(h, -1)
            /\ Fields(h) \subseteq Counted /\ Counted' = Counted \ Fields(h)
         \/ /\ rc' = Visited(h, 1)
            /\ Fields(h) \cap Counted = {} /\ Counted' = Counted \cup Fields(h),
         Kids(h) \subseteq Held
  PROVE  /\ RcExact' /\ rc' \in [Obj -> Nat]
         /\ \A o \in Obj : o \notin Kids(h) => rc'[o] = rc[o]
<1>a. ASSUME NEW o \in Obj, o \notin Kids(h)
      PROVE  rc'[o] = rc[o]
  <2>1. Edges(h, o) = 0
    BY <1>a, CellSets, EdgesLemma, KidsLemma
  <2> QED BY <2>1 DEF Visited, TypeOK
<1> SUFFICES ASSUME NEW o \in Held
             PROVE  rc'[o] = Cardinality(Refs(o)') /\ rc'[o] \in Nat
  <2>1. \A o \in Obj : rc'[o] \in Nat
    BY <1>a DEF TypeOK
  <2>2. rc' = [o \in Obj |-> rc'[o]]
    BY DEF Visited
  <2> QED BY <1>a, <2>1, <2>2, ConstantsAssumption DEF RcExact, Held, TypeOK
<1>1. h \in Obj /\ o \in Obj
  BY CellSets
<1>2. rc[o] = Cardinality(Refs(o)) /\ rc[o] \in Nat
  BY <1>1, ConstantsAssumption, RefsFinite DEF RcExact, TypeOK
<1> DEFINE E == {c \in Fields(h) : ref[c] = o}
<1>3. IsFiniteSet(E) /\ Edges(h, o) = Cardinality(E) /\ Edges(h, o) \in Nat
  BY <1>1, EdgesLemma DEF Edges
<1>4. CASE /\ rc' = Visited(h, -1)
           /\ Fields(h) \subseteq Counted /\ Counted' = Counted \ Fields(h)
  <2>1. Refs(o)' = Refs(o) \ E /\ E \subseteq Refs(o)
    BY <1>4 DEF Refs
  <2>2. rc'[o] = rc[o] - Edges(h, o)
    BY <1>1, <1>2, <1>3, <1>4 DEF Visited
  <2>3. /\ Cardinality(Refs(o) \ E) = Cardinality(Refs(o)) - Cardinality(E)
        /\ Cardinality(Refs(o) \ E) \in Nat
    BY <2>1, RefsFinite, CardMinus
  <2> QED BY <1>2, <1>3, <2>1, <2>2, <2>3
<1>5. CASE /\ rc' = Visited(h, 1)
           /\ Fields(h) \cap Counted = {} /\ Counted' = Counted \cup Fields(h)
  <2>1. Refs(o)' = Refs(o) \cup E /\ Refs(o) \cap E = {}
    BY <1>5 DEF Refs
  <2>2. rc'[o] = rc[o] + Edges(h, o)
    BY <1>1, <1>2, <1>3, <1>5 DEF Visited
  <2>3. Cardinality(Refs(o) \cup E) = Cardinality(Refs(o)) + Cardinality(E)
    BY <1>3, <2>1, RefsFinite, CardPlus
  <2> QED BY <1>2, <1>3, <2>1, <2>2, <2>3
<1> QED BY <1>4, <1>5

\* The children of an object that is being traversed are held.
LEMMA KidsHeld ==
  ASSUME IInv, NEW h \in Held
  PROVE  /\ Fields(h) \subseteq Owned
         /\ Kids(h) \subseteq Target \cup fwork
         /\ fwork = {} => Kids(h) \subseteq Held \ dropbuf
<1>1. Fields(h) \subseteq Owned
  BY DEF Fields, Owned
<1>2. Kids(h) \subseteq Target \cup fwork
  BY <1>1 DEF IInv, Ownership, Kids
<1> QED BY <1>1, <1>2, CellSets, ConstantsAssumption DEF IInv, Target, Kids

\* Trial deletion takes the fields of one more object out of the count.
LEMMA MarkGrayStep == ASSUME IInv, NEW h \in cwork, MarkGray(h) PROVE IInv'
<1> USE DEF program, cascade, dropqueue, IInv
<1>1. /\ gc = "mark" /\ h \in Held \ dropbuf /\ h \in Obj /\ White = {} /\ fwork = {}
      /\ bwork = {} /\ rel = NULL
      /\ UNCHANGED <<alloc, program, buffered, cascade, dropqueue, roots, gc, batch, pend,
                     bwork, fwork, gbuf>>
  BY ConstantsAssumption, CellSets DEF MarkGray, MarkPhase, CallStack, TypeOK
<1>2. Held' = Held /\ Owned' = Owned /\ Target' = Target
  BY <1>1 DEF Held, Owned, DropCells, Target
<1>3. CASE color[h] = "GRAY"
  <2>1. cwork' = cwork \ {h} /\ UNCHANGED <<rc, color>> /\ h \in Gray
    BY <1>1, <1>3 DEF MarkGray, Gray
  <2>2. /\ Counted' = Counted /\ Gray' = Gray /\ White' = White /\ Tried' = Tried
        /\ Purple' = Purple /\ \A o : Refs(o)' = Refs(o)
    BY <1>1, <2>1, SameSets
  <2>3. TypeOK' /\ CallStack' /\ Placement' /\ Ownership' /\ RcExact'
    <3>1. TypeOK'
      BY <1>1, <2>1 DEF TypeOK
    <3>2. CallStack' /\ Placement'
      BY <1>1, <1>2, <2>1, <2>2 DEF CallStack, Placement
    <3> QED BY <1>1, <1>2, <2>1, <2>2, <3>1, <3>2 DEF Ownership, RcExact
  <2>4. MarkPhase'
    BY <1>1, <1>2, <2>1, <2>2 DEF MarkPhase, Covered, Points
  <2> QED BY <1>1, <2>3, <2>4 DEF ScanPhase, CollectPhase
<1>4. CASE color[h] # "GRAY"
  <2>1. color' = [color EXCEPT ![h] = "GRAY"] /\ rc' = Visited(h, -1)
        /\ cwork' = (cwork \ {h}) \cup Kids(h)
    BY <1>1, <1>4 DEF MarkGray
  <2>2. color[h] \in {"BLACK", "PURPLE"} /\ h \notin Gray
    BY <1>1, <1>4 DEF TypeOK, White, Gray
  <2>3. Gray' = Gray \cup {h} /\ White' = {} /\ Purple' \subseteq Purple
        /\ Purple \subseteq Purple' \cup {h}
    BY <1>1, <2>1 DEF TypeOK, Gray, White, Purple
  <2>4. /\ Fields(h) \subseteq Owned /\ Kids(h) \subseteq Held \ dropbuf
        /\ Kids(h) \subseteq Obj
    BY <1>1, KidsHeld, KidsLemma
  <2>5. Fields(h) \subseteq Counted /\ Counted' = Counted \ Fields(h)
    BY <1>1, <1>2, <2>1, <2>2, <2>4 DEF Counted, Fields, TypeOK
  <2>6. RcExact' /\ rc' \in [Obj -> Nat] /\ \A o \in Obj : o \notin Kids(h) => rc'[o] = rc[o]
    BY <1>1, <1>2, <2>1, <2>4, <2>5, RecountLemma
  <2>7. TypeOK'
    BY <1>1, <2>1, <2>4, <2>6 DEF TypeOK
  <2>8. CallStack'
    BY <1>1, <2>1 DEF CallStack, Held, TypeOK
  <2>9. Placement'
    <3>1. Tried' \subseteq Held \ dropbuf
      BY <1>1, <2>3 DEF Placement, Tried
    <3>2. \A o \in alloc \cap dropped : rc'[o] = 0
      BY <2>4, <2>6 DEF Placement, Held, TypeOK
    <3> QED BY <1>1, <1>2, <3>1, <3>2 DEF Placement
  <2>10. Ownership'
    BY <1>1, <1>2, <2>5 DEF Ownership
  <2>11. \A p \in Gray' : \A c \in Fields(p) : ref'[c] \in Gray' \cup cwork' \cup {NULL}
    BY <1>1, <2>1, <2>3, KidsLemma DEF MarkPhase
  <2>12. \A k \in cwork' : k \in Gray' \cup batch \/ \E p \in Gray' : Points(p, {k})'
    BY <1>1, <2>1, <2>3, <2>4, KidsLemma DEF MarkPhase, Points
  <2>13. Covered(Gray \cup {h}, batch)
    BY <1>1, <2>2, CoveredAdd DEF MarkPhase
  <2>14. MarkPhase'
    BY <1>1, <1>2, <2>1, <2>3, <2>4, <2>11, <2>12, <2>13 DEF MarkPhase, Covered, Points
  <2> QED BY <1>1, <2>6, <2>7, <2>8, <2>9, <2>10, <2>14 DEF ScanPhase, CollectPhase
<1> QED BY <1>3, <1>4

\* Scanning turns an unreferenced gray object white, or hands a referenced one on.
LEMMA ScanStep == ASSUME IInv, NEW h \in cwork, Scan(h) PROVE IInv'
<1> USE DEF program, cascade, dropqueue, IInv
<1>1. /\ gc = "scan" /\ h \in Held \ Purple /\ h \in Obj /\ fwork = {} /\ bwork = {}
      /\ UNCHANGED <<alloc, program, rc, buffered, cascade, dropqueue, roots, gc, batch,
                     pend, fwork, gbuf>>
  BY CellSets DEF Scan, ScanPhase, CallStack
<1>2. Held' = Held /\ Owned' = Owned /\ Target' = Target /\ DropCells' = DropCells
  BY <1>1 DEF Held, Owned, DropCells, Target
<1>3. CASE /\ color' = color /\ cwork' = cwork \ {h} /\ bwork' \subseteq {h}
           /\ h \in Gray => bwork' = {h}
  <2>1. /\ Counted' = Counted /\ Gray' = Gray /\ White' = White /\ Tried' = Tried
        /\ Purple' = Purple /\ \A o : Refs(o)' = Refs(o)
    BY <1>1, <1>3, SameSets
  <2>2. TypeOK' /\ CallStack' /\ Placement'
    BY <1>1, <1>2, <1>3, <2>1 DEF TypeOK, CallStack, Placement
  <2>3. Ownership' /\ RcExact'
    BY <1>1, <1>2, <2>1 DEF Ownership, RcExact
  <2>4. Covered(Gray, pend \cup cwork' \cup bwork') /\ Covered(Tried, batch \cup bwork')
    BY <1>1, <1>3 DEF ScanPhase, Covered
  <2>5. ScanPhase'
    BY <1>1, <1>2, <1>3, <2>1, <2>4 DEF ScanPhase, Covered, Points
  <2> QED BY <1>1, <2>2, <2>3, <2>5 DEF MarkPhase, CollectPhase
<1>4. CASE /\ color[h] = "GRAY" /\ rc[h] <= 0 /\ color' = [color EXCEPT ![h] = "WHITE"]
           /\ cwork' = (cwork \ {h}) \cup Kids(h) /\ bwork' = bwork
  <2>1. /\ h \in Gray /\ Gray' = Gray \ {h} /\ White' = White \cup {h}
        /\ Tried' = Tried /\ Purple' = Purple /\ rc[h] = 0
    BY <1>1, <1>4 DEF TypeOK, Gray, White, Tried, Purple
  <2>2. Counted' = Counted /\ \A o : Refs(o)' = Refs(o)
    BY <1>1, <1>2, <1>4 DEF Counted, Refs, TypeOK
  <2>3. Kids(h) \subseteq Held /\ Kids(h) \cap Purple = {} /\ Kids(h) \subseteq Obj
    BY <1>1, <2>1, KidsHeld, KidsLemma DEF ScanPhase, Tried, Points
  <2>4. TypeOK'
    BY <1>1, <1>4, <2>3 DEF TypeOK
  <2>5. CallStack'
    BY <1>1, <1>4 DEF CallStack, Held, TypeOK
  <2>6. Placement'
    BY <1>1, <1>2, <2>1 DEF Placement
  <2>7. Ownership' /\ RcExact'
    BY <1>1, <1>2, <2>2 DEF Ownership, RcExact
  <2>8. Covered(Gray \ {h}, pend \cup cwork' \cup bwork)
    <3>1. Covered(Gray, pend \cup cwork \cup bwork)
      BY <1>1 DEF ScanPhase
    <3>2. pend \cup cwork \cup bwork \subseteq (pend \cup cwork' \cup bwork) \cup {h}
      BY <1>1, <1>4
    <3>3. \A k \in Gray \ {h} : Points(h, {k}) => k \in pend \cup cwork' \cup bwork
      BY <1>1, <1>4, KidsLemma DEF Gray
    <3> QED BY <3>1, <3>2, <3>3, CoveredRemove
  <2>9. ScanPhase'
    BY <1>1, <1>2, <1>4, <2>1, <2>3, <2>8 DEF ScanPhase, Covered, Points
  <2> QED BY <1>1, <2>4, <2>5, <2>6, <2>7, <2>9 DEF MarkPhase, CollectPhase
<1>5. \/ color[h] # "GRAY" /\ cwork' = cwork \ {h} /\ UNCHANGED <<color, bwork>>
      \/ cwork' = cwork \ {h} /\ bwork' = {h} /\ UNCHANGED color
      \/ /\ color[h] = "GRAY" /\ rc[h] <= 0 /\ color' = [color EXCEPT ![h] = "WHITE"]
         /\ cwork' = (cwork \ {h}) \cup Kids(h) /\ bwork' = bwork
  BY DEF Scan
<1> QED BY <1>1, <1>3, <1>4, <1>5 DEF Gray

\* Restoring an object makes its fields count again.
LEMMA ScanBlackStep == ASSUME IInv, NEW h \in bwork, ScanBlack(h) PROVE IInv'
<1> USE DEF program, cascade, dropqueue, IInv
<1>1. /\ gc = "scan" /\ h \in Held \ Purple /\ h \in Obj /\ fwork = {} /\ rel = NULL
      /\ UNCHANGED <<alloc, program, buffered, cascade, dropqueue, roots, gc, batch, pend,
                     cwork, fwork, gbuf>>
  BY CellSets DEF ScanBlack, ScanPhase, CallStack
<1>2. Held' = Held /\ Owned' = Owned /\ Target' = Target
  BY <1>1 DEF Held, Owned, DropCells, Target
<1>3. CASE color[h] = "BLACK"
  <2>1. bwork' = bwork \ {h} /\ UNCHANGED <<rc, color>> /\ h \notin Tried
    BY <1>3 DEF ScanBlack, Tried, Gray, White
  <2>2. /\ Counted' = Counted /\ Gray' = Gray /\ White' = White /\ Tried' = Tried
        /\ Purple' = Purple /\ \A o : Refs(o)' = Refs(o)
    BY <1>1, <2>1, SameSets
  <2>3. TypeOK' /\ CallStack' /\ Placement'
    BY <1>1, <1>2, <2>1, <2>2 DEF TypeOK, CallStack, Placement
  <2>4. Ownership' /\ RcExact'
    BY <1>1, <1>2, <2>1, <2>2 DEF Ownership, RcExact
  <2>5. Covered(Gray, pend \cup cwork \cup bwork') /\ Covered(Tried, batch \cup bwork')
    BY <1>1, <2>1 DEF ScanPhase, Covered, Tried
  <2>6. ScanPhase'
    BY <1>1, <1>2, <2>1, <2>2, <2>5 DEF ScanPhase, Covered, Points, Tried
  <2> QED BY <1>1, <2>3, <2>4, <2>6 DEF MarkPhase, CollectPhase
<1>4. CASE color[h] # "BLACK"
  <2>1. color' = [color EXCEPT ![h] = "BLACK"] /\ rc' = Visited(h, 1)
        /\ bwork' = (bwork \ {h}) \cup Kids(h)
    BY <1>4 DEF ScanBlack
  <2>2. h \in Tried
    BY <1>1, <1>4 DEF TypeOK, Purple, Tried, Gray, White
  <2>3. Gray' = Gray \ {h} /\ White' = White \ {h} /\ Tried' = Tried \ {h}
        /\ Purple' = Purple
    BY <1>1, <2>1 DEF TypeOK, Gray, White, Tried, Purple
  <2>4. /\ Fields(h) \subseteq Owned /\ Kids(h) \subseteq Held \ dropbuf
        /\ Kids(h) \subseteq Obj /\ Kids(h) \cap Purple = {}
    BY <1>1, <2>2, KidsHeld, KidsLemma DEF ScanPhase, Points
  <2>5. Fields(h) \cap Counted = {} /\ Counted' = Counted \cup Fields(h)
    BY <1>1, <1>2, <2>1, <2>2, <2>4 DEF Counted, Fields, TypeOK, Tried, Gray, White
  <2>6. RcExact' /\ rc' \in [Obj -> Nat] /\ \A o \in Obj : o \notin Kids(h) => rc'[o] = rc[o]
    BY <1>1, <1>2, <2>1, <2>4, <2>5, RecountLemma
  <2>7. TypeOK'
    BY <1>1, <2>1, <2>4, <2>6 DEF TypeOK
  <2>8. CallStack'
    BY <1>1, <2>1 DEF CallStack, Held, TypeOK
  <2>9. Placement'
    <3>1. \A o \in alloc \cap dropped : rc'[o] = 0
      BY <2>4, <2>6 DEF Placement, Held, TypeOK
    <3> QED BY <1>1, <1>2, <2>3, <3>1 DEF Placement
  <2>10. Ownership'
    <3>1. \A c \in Fields(h) : ref[c] \in Target
      BY <1>1, <2>4 DEF Ownership
    <3> QED BY <1>1, <1>2, <2>5, <3>1 DEF Ownership
  <2>11. \A w \in White' : rc'[w] = 0 \/ w \in bwork'
    BY <1>1, <2>1, <2>3, <2>6 DEF ScanPhase, White
  <2>12. Covered(Gray \ {h}, pend \cup cwork \cup bwork')
    <3>1. Covered(Gray, pend \cup cwork \cup bwork)
      BY <1>1 DEF ScanPhase
    <3>2. pend \cup cwork \cup bwork \subseteq (pend \cup cwork \cup bwork') \cup {h}
      BY <1>1, <2>1
    <3>3. \A k \in Gray \ {h} : Points(h, {k}) => k \in pend \cup cwork \cup bwork'
      BY <1>1, <2>1, KidsLemma DEF Gray
    <3> QED BY <3>1, <3>2, <3>3, CoveredRemove
  <2>13. Covered(Tried \ {h}, batch \cup bwork')
    <3>1. Covered(Tried, batch \cup bwork)
      BY <1>1 DEF ScanPhase
    <3>2. batch \cup bwork \subseteq (batch \cup bwork') \cup {h}
      BY <1>1, <2>1
    <3>3. \A k \in Tried \ {h} : Points(h, {k}) => k \in batch \cup bwork'
      BY <1>1, <2>1, KidsLemma DEF Tried, Gray, White
    <3> QED BY <3>1, <3>2, <3>3, CoveredRemove
  <2>14. ScanPhase'
    BY <1>1, <1>2, <2>1, <2>3, <2>4, <2>11, <2>12, <2>13 DEF ScanPhase, Covered, Points
  <2> QED BY <1>1, <2>6, <2>7, <2>8, <2>9, <2>10, <2>14 DEF MarkPhase, CollectPhase
<1> QED BY <1>3, <1>4

\* Claiming a white object: no counting cell refers to it.
LEMMA CollectWhiteStep == ASSUME IInv, NEW h \in cwork, CollectWhite(h) PROVE IInv'
<1> USE DEF program, cascade, dropqueue, IInv
<1>1. /\ gc = "collect" /\ h \in Obj /\ bwork = {} /\ rel = NULL /\ Gray = {}
      /\ UNCHANGED <<alloc, program, rc, buffered, cascade, dropqueue, roots, gc, batch,
                     pend, bwork, gbuf>>
  BY DEF CollectWhite, CollectPhase, CallStack, TypeOK
<1>2. CASE color[h] # "WHITE"
  <2>1. cwork' = cwork \ {h} /\ UNCHANGED <<color, fwork>> /\ h \notin White
    BY <1>2 DEF CollectWhite, White
  <2>2. /\ Held' = Held /\ Owned' = Owned /\ Counted' = Counted /\ Gray' = Gray
        /\ White' = White /\ Tried' = Tried /\ Purple' = Purple
        /\ \A o : Refs(o)' = Refs(o)
    BY <1>1, <2>1, SameSets
  <2>3. TypeOK' /\ CallStack' /\ Placement'
    BY <1>1, <2>1, <2>2 DEF TypeOK, CallStack, Placement
  <2>4. Ownership' /\ RcExact'
    BY <1>1, <2>1, <2>2 DEF Ownership, RcExact, Target
  <2>5. Covered(White, pend \cup cwork')
    BY <1>1, <2>1 DEF CollectPhase, Covered
  <2>6. CollectPhase'
    BY <1>1, <2>1, <2>2, <2>5 DEF CollectPhase, Covered, Points
  <2> QED BY <1>1, <2>3, <2>4, <2>6 DEF MarkPhase, ScanPhase
<1>3. CASE color[h] = "WHITE"
  <2>1. color' = [color EXCEPT ![h] = "BLACK"] /\ fwork' = fwork \cup {h}
        /\ cwork' = (cwork \ {h}) \cup Kids(h)
    BY <1>3 DEF CollectWhite
  <2>2. /\ h \in White /\ h \in Tried /\ h \in Held \ dropbuf /\ rc[h] = 0
        /\ h \notin dropped /\ h \in alloc /\ h \notin gbuf
    BY <1>1, <1>3 DEF White, Tried, Placement, CollectPhase, Held
  <2>3. Gray' = {} /\ White' = White \ {h} /\ Tried' = Tried \ {h} /\ Purple' = Purple
    BY <1>1, <1>3, <2>1 DEF TypeOK, Gray, White, Tried, Purple
  <2>4. Held' = Held \ {h} /\ DropCells' = DropCells
    BY <1>1, <2>1, <2>2 DEF Held, DropCells
  <2>5. Owned' \subseteq Owned /\ \A c \in Owned : c \in Owned' \/ c \in Fields(h)
    BY <1>1, <2>4 DEF Owned, Fields, DropCells
  <2>6. Counted' = Counted
    <3>1. Counted \cap Fields(h) = {}
      BY <1>1, <1>3, <2>2 DEF Counted, Fields
    <3>2. Fields(h) \cap Owned' = {}
      BY <1>1, <2>2, <2>4, ConstantsAssumption DEF Owned, Fields, DropCells, CallStack
    <3>3. \A o \in Held : o # h => color'[o] = color[o]
      BY <2>1 DEF TypeOK, Held
    <3> QED BY <1>1, <2>4, <2>5, <3>1, <3>2, <3>3, ConstantsAssumption
            DEF Counted, Fields, Owned, DropCells
  <2>7. \A o : Refs(o)' = Refs(o)
    BY <1>1, <2>6 DEF Refs
  <2>8. \A c \in Counted : ref[c] # h
    BY <2>2, Unreferenced
  <2>9. TypeOK'
    BY <1>1, <2>1, KidsLemma DEF TypeOK
  <2>10. CallStack'
    BY <1>1, <2>1, <2>2 DEF CallStack, TypeOK
  <2>11. Placement'
    BY <1>1, <2>1, <2>2, <2>3, <2>4 DEF Placement, Tried, Gray, White, Purple
  <2>12. Ownership'
    BY <1>1, <2>1, <2>4, <2>5, <2>6, <2>8, ConstantsAssumption DEF Ownership, Target
  <2>13. RcExact'
    BY <1>1, <2>4, <2>7 DEF RcExact
  <2>14. Covered(White \ {h}, pend \cup cwork')
    <3>1. Covered(White, pend \cup cwork)
      BY <1>1 DEF CollectPhase
    <3>2. pend \cup cwork \subseteq (pend \cup cwork') \cup {h}
      BY <2>1
    <3>3. \A k \in White \ {h} : Points(h, {k}) => k \in pend \cup cwork'
      BY <1>1, <2>1, KidsLemma DEF White
    <3> QED BY <3>1, <3>2, <3>3, CoveredRemove
  <2>15. CollectPhase'
    BY <1>1, <2>3, <2>14 DEF CollectPhase, Covered, Points
  <2> QED BY <1>1, <2>9, <2>10, <2>11, <2>12, <2>13, <2>15 DEF MarkPhase, ScanPhase
<1> QED BY <1>2, <1>3

\* The end of a step: nothing is gray or white any more.
LEMMA CompactStep == ASSUME IInv, Compact PROVE IInv'
<1> USE DEF program, cascade, IInv
<1>1. PICK F \in SUBSET (gbuf \cup fwork) : gbuf' = (gbuf \cup fwork) \ F /\ alloc' = alloc \ F
  BY DEF Compact
<1>2. /\ gc = "collect" /\ pend = {} /\ cwork = {} /\ bwork = {} /\ rel = NULL
      /\ gc' = "off" /\ fwork' = {} /\ batch' = {}
      /\ UNCHANGED <<program, rc, color, cascade, pend, cwork, bwork>>
      /\ roots' = Kept /\ buffered' = Unbuffer(Kept)
      /\ dropbuf' \subseteq dropbuf
  BY DEF Compact, CallStack, dropqueue
<1>3. White = {} /\ Tried = {}
  BY <1>2 DEF CollectPhase, Covered, Tried
<1>4. Kept \subseteq roots /\ Kept \subseteq Purple /\ buffered' = Kept
      /\ \A h \in Kept : rc[h] > 0
  BY <1>2 DEF Kept, Unbuffer, Purple, TypeOK, Placement
<1>5. Held' = Held /\ DropCells' = DropCells
  BY <1>1, <1>2 DEF Held, DropCells
<1>6. /\ Owned' = Owned /\ Counted' = Counted /\ Gray' = Gray /\ White' = White
      /\ Tried' = Tried /\ Purple' = Purple /\ \A o : Refs(o)' = Refs(o)
  BY <1>2, <1>5 DEF Owned, Counted, Gray, White, Tried, Purple, Refs
<1>7. TypeOK'
  <2>1. dropcap' \in Nat
    BY DEF TypeOK, Compact, dropqueue
  <2> QED BY <1>1, <1>2, <1>4, <2>1 DEF TypeOK
<1>8. drop # NULL => drop \in alloc' /\ (drop \in roots' => color[drop] = "PURPLE")
  BY <1>1, <1>2, <1>4 DEF CallStack, Placement
<1>9. CallStack'
  BY <1>2, <1>8 DEF CallStack
<1>10. Placement'
  <2>1. roots' \cap (gbuf \cup fwork) = {} /\ roots' \subseteq alloc'
    BY <1>1, <1>2, <1>4 DEF Placement
  <2>2. gbuf' \subseteq alloc'
    BY <1>1 DEF Placement
  <2>3. dropped' \cap (fwork' \cup gbuf') = {}
    BY <1>1, <1>2 DEF Placement
  <2> QED BY <1>1, <1>2, <1>3, <1>4, <1>5, <1>6, <2>1, <2>2, <2>3 DEF Placement
<1>11. Ownership'
  BY <1>2, <1>3, <1>5, <1>6, AllCounted DEF Ownership, Target
<1>12. RcExact'
  BY <1>2, <1>5, <1>6 DEF RcExact
<1> QED BY <1>2, <1>7, <1>9, <1>10, <1>11, <1>12 DEF MarkPhase, ScanPhase, CollectPhase

-----------------------------------------------------------------------------
(* Steps that move a reference                                              *)

\* Overwriting one cell changes two reference sets by one.
LEMMA Overwrite ==
  ASSUME TypeOK, NEW c \in Counted, NEW x, NEW o,
         ref' = [ref EXCEPT ![c] = x], Counted' = Counted
  PROVE  /\ Cardinality(Refs(o)') = Cardinality(Refs(o)) + (IF x = o THEN 1 ELSE 0)
                                                       - (IF ref[c] = o THEN 1 ELSE 0)
         /\ Cardinality(Refs(o)) \in Nat /\ Cardinality(Refs(o)') \in Nat
<1>1. c \in Cell /\ Counted \subseteq Cell /\ ref \in [Cell -> Obj \cup {NULL}]
  BY CellSets DEF TypeOK
<1>2. IsFiniteSet(Refs(o)) /\ Cardinality(Refs(o)) \in Nat
  BY RefsFinite
<1>3. CASE x = o
  <2>1. Refs(o)' = Refs(o) \cup {c} /\ (c \in Refs(o) <=> ref[c] = o)
    BY <1>1, <1>3 DEF Refs
  <2>2. IsFiniteSet(Refs(o)') /\ Cardinality(Refs(o)') = IF c \in Refs(o)
          THEN Cardinality(Refs(o)) ELSE Cardinality(Refs(o)) + 1
    BY <1>2, <2>1, FS_AddElement
  <2> QED BY <1>2, <1>3, <2>1, <2>2, FS_CardinalityType
<1>4. CASE x # o
  <2>1. Refs(o)' = Refs(o) \ {c} /\ (c \in Refs(o) <=> ref[c] = o)
    BY <1>1, <1>4 DEF Refs
  <2>2. IsFiniteSet(Refs(o)') /\ Cardinality(Refs(o)') = IF c \in Refs(o)
          THEN Cardinality(Refs(o)) - 1 ELSE Cardinality(Refs(o))
    BY <1>2, <2>1, FS_RemoveElement
  <2> QED BY <1>2, <1>4, <2>1, <2>2, FS_CardinalityType
<1> QED BY <1>3, <1>4

\* A store keeps the counters exact: the new value is retained, the old one is owed.
LEMMA StoreStep ==
  ASSUME IInv, NEW c \in Counted, NEW x \in Target, x # NULL => rc[x] >= 1, Store(c, x)
  PROVE  IInv'
<1> USE DEF cascade, dropqueue, traversal, IInv
<1>1. /\ gc = "off" /\ rel = NULL /\ ~draining /\ drop = NULL /\ todo = {} /\ Tried = {}
      /\ fwork = {}
      /\ ref' = [ref EXCEPT ![c] = x] /\ rel' = ref[c]
      /\ UNCHANGED <<alloc, pc, buffered, cascade, dropqueue, roots, gc, traversal, gbuf>>
  BY DEF Store, Running, Idle, CallStack, Placement
<1>2. /\ c \in Cell /\ ref[c] \in Target /\ (x # NULL => x \in Obj /\ x \in Held)
      /\ x \in Obj \cup {NULL}
  BY CellSets DEF Ownership, Target
<1>3. /\ rc' \in [Obj -> Nat] /\ color' \in [Obj -> {"BLACK", "GRAY", "WHITE", "PURPLE"}]
      /\ \A o \in Obj : rc'[o] = rc[o] + (IF o = x THEN 1 ELSE 0)
      /\ \A o \in Obj : o # x => color'[o] = color[o]
      /\ x # NULL => color'[x] = "BLACK" /\ rc'[x] >= 2
  BY <1>2, ConstantsAssumption DEF Store, Retain, TypeOK
<1>4. Held' = Held /\ DropCells' = DropCells /\ Owned' = Owned /\ Target' = Target
  BY <1>1 DEF Held, DropCells, Owned, Target
<1>5. Gray' = {} /\ White' = {} /\ Tried' = {} /\ Purple \subseteq Purple' \cup {x}
      /\ Purple' \subseteq Purple
  <2>1. \A o \in Obj : color'[o] \in {color[o], "BLACK"}
    BY <1>3, ConstantsAssumption
  <2>2. Gray' = {} /\ White' = {}
    BY <1>1, <2>1 DEF Tried, Gray, White
  <2> QED BY <1>3, <2>1, <2>2 DEF Tried, Purple
<1>6. Counted' = Counted
  <2>1. \A o \in Obj : color'[o] \in {"BLACK", "PURPLE"}
    BY <1>3, <1>5 DEF Gray, White
  <2>2. Counted = Owned
    BY <1>1, AllCounted
  <2>3. Held \subseteq Obj
    BY CellSets
  <2> QED BY <1>4, <2>1, <2>2, <2>3 DEF Counted
<1>7. TypeOK'
  <2>1. ref' \in [Cell -> Obj \cup {NULL}] /\ rel' \in Obj \cup {NULL}
    BY <1>1, <1>2 DEF TypeOK
  <2> QED BY <1>1, <1>3, <2>1 DEF TypeOK
<1>8. CallStack'
  BY <1>1 DEF CallStack
<1>9. Placement'
  <2>1. ASSUME NEW o \in alloc \cap dropped PROVE rc'[o] = 0
    <3>1. o \in Obj /\ o # x /\ rc[o] = 0 /\ rc[o] \in Nat
      BY <1>2, ConstantsAssumption DEF Placement, Held, TypeOK
    <3> QED BY <1>3, <3>1
  <2>2. ASSUME NEW o \in roots \cap Held, o \notin Purple' PROVE rc'[o] >= 2
    <3>1. CASE o = x
      BY <1>3, <3>1, ConstantsAssumption DEF TypeOK
    <3>2. CASE o # x
      <4>1. o \in Obj /\ o \notin Purple /\ rc[o] >= 2 /\ rc[o] \in Nat
        BY <1>1, <1>5, <2>2, <3>2 DEF Placement, TypeOK
      <4> QED BY <1>3, <3>2, <4>1
    <3> QED BY <3>1, <3>2
  <2> QED BY <1>1, <1>4, <1>5, <2>1, <2>2 DEF Placement
<1>10. Ownership'
  BY <1>1, <1>2, <1>4, <1>6, CellSets DEF Ownership, TypeOK
<1>11. RcExact'
  <2> SUFFICES ASSUME NEW o \in Held
               PROVE  rc'[o] = Cardinality(Refs(o)') + (IF rel' = o THEN 1 ELSE 0)
    BY <1>4 DEF RcExact
  <2>1. o \in Obj /\ o # NULL /\ rc[o] \in Nat
    BY CellSets, ConstantsAssumption DEF TypeOK
  <2>2. rc[o] = Cardinality(Refs(o))
    BY <1>1, <2>1, RefsFinite DEF RcExact
  <2>3. Cardinality(Refs(o)') = Cardinality(Refs(o)) + (IF x = o THEN 1 ELSE 0)
                                                   - (IF ref[c] = o THEN 1 ELSE 0)
    BY <1>1, <1>6, Overwrite
  <2>4. rc'[o] = rc[o] + (IF o = x THEN 1 ELSE 0) /\ rel' = ref[c]
    BY <1>1, <1>3, <2>1
  <2> QED BY <2>1, <2>2, <2>3, <2>4
<1> QED BY <1>1, <1>7, <1>8, <1>9, <1>10, <1>11 DEF MarkPhase, ScanPhase, CollectPhase

\* A cell the program can read holds a live target that is counted.
LEMMA Readable ==
  ASSUME IInv, Running
  PROVE  /\ Local \subseteq Counted
         /\ \A w \in Local, s \in Slot : ref[w] # NULL => <<ref[w], s>> \in Counted
         /\ \A c \in Counted : ref[c] \in Target /\ (ref[c] # NULL => rc[ref[c]] >= 1)
<1> USE DEF IInv
<1>1. Counted = Owned
  BY AllCounted DEF Running, Idle, Placement
<1>2. Local \subseteq Counted
  BY <1>1 DEF Owned
<1>3. \A c \in Counted : ref[c] \in Target /\ (ref[c] # NULL => rc[ref[c]] >= 1)
  BY Referenced DEF Ownership, Target
<1> QED BY <1>1, <1>2, <1>3 DEF Owned, Target

\* Every operation of the program is such a store.
LEMMA MutatorStores ==
  ASSUME IInv, NEW v \in Local, NEW w \in Local, NEW s \in Slot,
         \/ CopyLocal(v, w) \/ GetField(v, w, s) \/ PutField(w, s, v) \/ PutNull(w, s)
         \/ Release(v)
  PROVE  IInv'
<1>1. Running
  BY DEF CopyLocal, GetField, PutField, PutNull, Release, Store
<1>2. NULL \in Target
  BY DEF Target
<1>3. CASE CopyLocal(v, w)
  BY <1>1, <1>3, Readable, StoreStep DEF CopyLocal
<1>4. CASE GetField(v, w, s)
  BY <1>1, <1>4, Readable, StoreStep DEF GetField
<1>5. CASE PutField(w, s, v)
  BY <1>1, <1>5, Readable, StoreStep DEF PutField
<1>6. CASE PutNull(w, s)
  BY <1>1, <1>2, <1>6, Readable, StoreStep DEF PutNull
<1>7. CASE Release(v)
  BY <1>1, <1>2, <1>7, Readable, StoreStep DEF Release
<1> QED BY <1>3, <1>4, <1>5, <1>6, <1>7

\* What jrt_release does to a live object, whoever calls it.
LEMMA ReleaseFrame ==
  ASSUME IInv, gc = "off", NEW o \in Held \ dropbuf, rc[o] >= 1,
         ReleaseLast(o) \/ ReleaseShared(o)
  PROVE  /\ rc' = [rc EXCEPT ![o] = rc[o] - 1] /\ rc' \in [Obj -> Nat]
         /\ color' \in [Obj -> {"BLACK", "GRAY", "WHITE", "PURPLE"}]
         /\ \A p \in Obj : p # o => color'[p] = color[p]
         /\ Gray' = {} /\ White' = {} /\ Tried' = {} /\ Purple \subseteq Purple'
         /\ buffered' = roots' /\ roots' \subseteq roots \cup {o}
         /\ gc' \in {"off", "pass1"} /\ (~Collector => roots' = {} /\ gc' = "off")
         /\ \A p \in roots' \cap Held : p \in Purple' \/ rc'[p] >= 2
         /\ dropbuf \subseteq dropbuf' /\ dropbuf' \subseteq dropbuf \cup {o}
         /\ (o \in dropbuf' => rc'[o] = 0) /\ dropcap' \in Nat
<1> USE DEF IInv
<1>1. o \in Obj /\ rc[o] \in Nat /\ Tried = {} /\ buffered = roots
      /\ (o \in roots => o \in Purple \/ rc[o] >= 2)
  BY CellSets DEF TypeOK, Placement
<1>2. rc' = [rc EXCEPT ![o] = rc[o] - 1]
  BY DEF ReleaseLast, ReleaseShared
<1>3. rc' \in [Obj -> Nat] /\ \A p \in Obj : rc'[p] = IF p = o THEN rc[o] - 1 ELSE rc[p]
  BY <1>1, <1>2 DEF TypeOK
<1>4. CASE ReleaseLast(o)
  <2>1. /\ UNCHANGED <<color, buffered, roots, gc>> /\ rc[o] = 1
        /\ dropbuf' = dropbuf \cup {o}
    BY <1>4 DEF ReleaseLast, DropEnq
  <2>2. dropcap' \in Nat
    BY <1>4, ConstantsAssumption DEF ReleaseLast, DropEnq, TypeOK
  <2>3. Gray' = {} /\ White' = {} /\ Tried' = {} /\ Purple' = Purple
    BY <1>1, <2>1 DEF Gray, White, Tried, Purple
  <2>4. \A p \in roots' \cap Held : p \in Purple' \/ rc'[p] >= 2
    BY <1>1, <1>3, <2>1, <2>3 DEF Placement, TypeOK
  <2>5. color' \in [Obj -> {"BLACK", "GRAY", "WHITE", "PURPLE"}]
    BY <2>1 DEF TypeOK
  <2>6. ~Collector => roots' = {} /\ gc' = "off"
    BY <2>1 DEF Placement
  <2>7. rc'[o] = 0
    BY <1>1, <1>3, <2>1
  <2> QED BY <1>1, <1>2, <1>3, <2>1, <2>2, <2>3, <2>4, <2>5, <2>6, <2>7
<1>5. CASE ReleaseShared(o) /\ ~Collector
  <2>1. UNCHANGED <<color, buffered, roots, gc, dropbuf, dropcap>> /\ roots = {}
    BY <1>5 DEF ReleaseShared, dropqueue, Placement
  <2>2. Gray' = {} /\ White' = {} /\ Tried' = {} /\ Purple' = Purple
    BY <1>1, <2>1 DEF Gray, White, Tried, Purple
  <2>3. color' \in [Obj -> {"BLACK", "GRAY", "WHITE", "PURPLE"}] /\ dropcap' \in Nat
    BY <2>1 DEF TypeOK
  <2> QED BY <1>1, <1>2, <1>3, <2>1, <2>2, <2>3
<1>6. CASE ReleaseShared(o) /\ Collector
  <2>1. PossibleRoot(o) /\ UNCHANGED <<dropbuf, dropcap>>
    BY <1>6 DEF ReleaseShared, dropqueue
  <2>2. /\ color' = [color EXCEPT ![o] = "PURPLE"]
        /\ buffered' = roots' /\ roots' \subseteq roots \cup {o}
        /\ gc' \in {"off", "pass1"}
    <3>1. CASE color[o] = "PURPLE"
      BY <1>1, <2>1, <3>1 DEF PossibleRoot, TypeOK
    <3>2. CASE color[o] # "PURPLE"
      BY <1>1, <2>1, <3>2 DEF PossibleRoot
    <3> QED BY <3>1, <3>2
  <2>3. /\ color' \in [Obj -> {"BLACK", "GRAY", "WHITE", "PURPLE"}] /\ dropcap' \in Nat
        /\ \A p \in Obj : p # o => color'[p] = color[p]
        /\ color'[o] = "PURPLE"
    BY <1>1, <2>1, <2>2 DEF TypeOK
  <2>4. Gray' = {} /\ White' = {} /\ Tried' = {} /\ Purple' = Purple \cup {o}
    BY <1>1, <2>3 DEF Gray, White, Tried, Purple
  <2>5. \A p \in roots' \cap Held : p \in Purple' \/ rc'[p] >= 2
    BY <1>1, <1>3, <2>2, <2>4 DEF Placement, TypeOK
  <2> QED BY <1>1, <1>2, <1>3, <1>6, <2>1, <2>2, <2>3, <2>4, <2>5
<1> QED BY <1>4, <1>5, <1>6

\* The release a store owes.
LEMMA ReleaseOldStep == ASSUME IInv, ReleaseOld PROVE IInv'
<1> USE DEF traversal
<1>o. PICK o : o = rel
  OBVIOUS
<1>1. /\ o # NULL /\ ~draining /\ gc = "off" /\ (ReleaseLast(o) \/ ReleaseShared(o))
      /\ rel' = NULL
      /\ UNCHANGED <<alloc, ref, pc, drop, todo, dropped, traversal, gbuf>>
  BY <1>o DEF ReleaseOld
<1>2. o \in Held \ dropbuf /\ o \in Obj
  BY <1>1, <1>o, CellSets DEF IInv, Ownership, Target
<1>3. /\ rc[o] = Cardinality(Refs(o)) + 1 /\ rc[o] >= 1 /\ Cardinality(Refs(o)) \in Nat
  BY <1>o, <1>2, RefsFinite DEF IInv, RcExact
<1>4. /\ rc' = [rc EXCEPT ![o] = rc[o] - 1] /\ rc' \in [Obj -> Nat]
      /\ color' \in [Obj -> {"BLACK", "GRAY", "WHITE", "PURPLE"}]
      /\ Gray' = {} /\ White' = {} /\ Tried' = {}
      /\ buffered' = roots' /\ roots' \subseteq roots \cup {o}
      /\ gc' \in {"off", "pass1"} /\ (~Collector => roots' = {} /\ gc' = "off")
      /\ \A p \in roots' \cap Held : p \in Purple' \/ rc'[p] >= 2
      /\ dropbuf \subseteq dropbuf' /\ dropbuf' \subseteq dropbuf \cup {o}
      /\ (o \in dropbuf' => rc'[o] = 0) /\ dropcap' \in Nat
  BY <1>1, <1>2, <1>3, ReleaseFrame
<1>5. drop = NULL /\ todo = {} /\ fwork = {} /\ batch = {} /\ pend = {} /\ cwork = {}
      /\ bwork = {} /\ Tried = {}
  BY <1>1 DEF IInv, CallStack, Placement
<1>6. Held' = Held /\ DropCells' = DropCells /\ Owned' = Owned
  BY <1>1 DEF Held, DropCells, Owned
<1>7. Counted = Owned /\ Counted' = Owned'
  <2>1. \A p \in Obj : color'[p] \in {"BLACK", "PURPLE"}
    BY <1>4 DEF Gray, White
  <2> QED BY <1>5, <1>6, <2>1, AllCounted, CellSets DEF IInv, Counted
<1>8. \A p : Refs(p)' = Refs(p)
  BY <1>1, <1>6, <1>7 DEF Refs
<1>9. TypeOK'
  <2>1. draining' \in BOOLEAN
    BY Zenon DEF IInv, ReleaseOld, StartDrain, TypeOK
  <2>2. left' \in Int
    BY ConstantsAssumption DEF IInv, ReleaseOld, StartDrain, TypeOK
  <2> QED BY <1>1, <1>2, <1>4, <2>1, <2>2 DEF IInv, TypeOK
<1>10. CallStack'
  BY <1>1, <1>4, <1>5 DEF IInv, CallStack
<1>11. Placement'
  <2>1. \A p \in alloc \cap dropped : rc'[p] = 0
    BY <1>2, <1>4 DEF IInv, Placement, Held, TypeOK
  <2>2. o \in alloc /\ o \notin gbuf
    BY <1>2 DEF Held
  <2> QED BY <1>1, <1>2, <1>4, <1>5, <1>6, <2>1, <2>2 DEF IInv, Placement
<1>12. Ownership'
  <2>1. o \in dropbuf' => Refs(o) = {}
    <3>1. rc'[o] = rc[o] - 1
      BY <1>2, <1>4 DEF IInv, TypeOK
    <3>2. o \in dropbuf' => Cardinality(Refs(o)) = 0
      BY <1>3, <1>4, <3>1
    <3> QED BY <3>2, RefsFinite, FS_EmptySet DEF IInv
  <2>2. \A c \in Owned : ref[c] \in Target'
    BY <1>1, <1>4, <1>6, <1>7, <2>1 DEF IInv, Ownership, Target, Refs
  <2> QED BY <1>1, <1>6, <1>7, <2>2 DEF IInv, Ownership, Target
<1>13. RcExact'
  <2> SUFFICES ASSUME NEW p \in Held PROVE rc'[p] = Cardinality(Refs(p))
    BY <1>1, <1>6, <1>8, RefsFinite, CellSets, ConstantsAssumption DEF IInv, RcExact
  <2>1. p \in Obj /\ Cardinality(Refs(p)) \in Nat
    BY RefsFinite, CellSets DEF IInv
  <2>2. CASE p = o
    BY <1>2, <1>3, <1>4, <2>2 DEF IInv, TypeOK
  <2>3. CASE p # o
    BY <1>o, <1>4, <2>1, <2>3 DEF IInv, RcExact, TypeOK
  <2> QED BY <2>2, <2>3
<1> QED BY <1>4, <1>9, <1>10, <1>11, <1>12, <1>13 DEF IInv, MarkPhase, ScanPhase, CollectPhase

\* The release of one field by a drop function.
LEMMA DropFieldStep == ASSUME IInv, NEW s \in todo, DropField(s) PROVE IInv'
<1> USE DEF program, traversal
<1>o. PICK d : d = drop
  OBVIOUS
<1> DEFINE c == <<d, s>>
<1>1. /\ d # NULL /\ gc = "off" /\ todo' = todo \ {s}
      /\ UNCHANGED <<alloc, program, draining, left, drop, dropped, traversal, gbuf>>
  BY <1>o DEF DropField
<1>2. /\ d \in Obj /\ s \in Slot /\ draining /\ d \in alloc /\ d \in dropped
      /\ d \notin Held /\ c \in Cell /\ c \notin Local /\ rel = NULL /\ Tried = {}
      /\ fwork = {}
  BY <1>o, <1>1, ConstantsAssumption DEF IInv, TypeOK, CallStack, Placement, Held, Cell
<1>3. Held' = Held /\ DropCells' = DropCells \ {c} /\ c \in DropCells
  BY <1>o, <1>1, <1>2 DEF Held, DropCells
<1>4. Owned' = Owned \ {c} /\ c \in Owned
  BY <1>2, <1>3 DEF Owned
<1>5. Counted = Owned /\ ref[c] \in Target
  BY <1>1, <1>2, <1>4, AllCounted DEF IInv, Ownership
<1>6. CASE ref[c] = NULL
  <2>1. UNCHANGED <<header, roots, gc, dropqueue>>
    BY <1>o, <1>6 DEF DropField
  <2>2. Tried' = {} /\ Purple' = Purple
    BY <1>2, <2>1 DEF header, Tried, Gray, White, Purple
  <2>3. Counted' = Counted \ {c}
    BY <1>3, <1>4, <1>5, <2>1 DEF Counted, header
  <2>4. \A o \in Obj : Refs(o)' = Refs(o)
    BY <1>1, <1>6, <2>3, ConstantsAssumption DEF Refs
  <2>5. TypeOK'
    BY <1>1, <2>1 DEF IInv, TypeOK, header, dropqueue
  <2>6. CallStack'
    BY <1>1, <1>2, <2>1 DEF IInv, CallStack, header
  <2>7. Placement'
    BY <1>1, <1>2, <1>3, <2>1, <2>2 DEF IInv, Placement, header, dropqueue
  <2>8. Ownership'
    BY <1>1, <1>3, <1>4, <2>1, <2>3 DEF IInv, Ownership, Target, header, dropqueue
  <2>9. RcExact'
    BY <1>1, <1>3, <2>1, <2>4, CellSets DEF IInv, RcExact, header
  <2> QED BY <1>1, <2>1, <2>5, <2>6, <2>7, <2>8, <2>9
          DEF IInv, MarkPhase, ScanPhase, CollectPhase
<1>7. CASE ref[c] # NULL
  <2>o. PICK o : o = ref[c]
    OBVIOUS
  <2>1. o \in Held \ dropbuf /\ o \in Obj /\ o # d
    BY <1>2, <1>5, <1>7, <2>o, CellSets DEF IInv, Target
  <2>2. rc[o] >= 1 /\ rc[o] = Cardinality(Refs(o)) /\ Cardinality(Refs(o)) \in Nat
    BY <1>2, <1>4, <1>5, <2>o, <2>1, Referenced, RefsFinite, ConstantsAssumption
       DEF IInv, RcExact
  <2>3. ReleaseLast(o) \/ ReleaseShared(o)
    BY <1>o, <1>7, <2>o DEF DropField
  <2>4. /\ rc' = [rc EXCEPT ![o] = rc[o] - 1] /\ rc' \in [Obj -> Nat]
        /\ color' \in [Obj -> {"BLACK", "GRAY", "WHITE", "PURPLE"}]
        /\ \A p \in Obj : p # o => color'[p] = color[p]
        /\ Gray' = {} /\ White' = {} /\ Tried' = {}
        /\ buffered' = roots' /\ roots' \subseteq roots \cup {o}
        /\ gc' \in {"off", "pass1"} /\ (~Collector => roots' = {} /\ gc' = "off")
        /\ \A p \in roots' \cap Held : p \in Purple' \/ rc'[p] >= 2
        /\ dropbuf \subseteq dropbuf' /\ dropbuf' \subseteq dropbuf \cup {o}
        /\ (o \in dropbuf' => rc'[o] = 0) /\ dropcap' \in Nat
    BY <1>1, <2>1, <2>2, <2>3, ReleaseFrame
  <2>5. rc'[o] = rc[o] - 1
    BY <2>1, <2>4 DEF IInv, TypeOK
  <2>6. Counted' = Counted \ {c}
    <3>1. \A p \in Obj : color'[p] \in {"BLACK", "PURPLE"}
      BY <2>4 DEF Gray, White
    <3> QED BY <1>3, <1>4, <1>5, <3>1, CellSets DEF IInv, Counted
  <2>7. Refs(o)' = Refs(o) \ {c} /\ c \in Refs(o) /\ \A p : p # o => Refs(p)' = Refs(p)
    BY <1>1, <1>4, <1>5, <2>o, <2>6 DEF Refs
  <2>8. Cardinality(Refs(o)') = Cardinality(Refs(o)) - 1
    BY <2>7, RefsFinite, FS_RemoveElement DEF IInv
  <2>9. TypeOK'
    BY <1>1, <1>2, <2>1, <2>4 DEF IInv, TypeOK
  <2>10. CallStack'
    BY <1>o, <1>1, <1>2, <2>1, <2>4 DEF IInv, CallStack
  <2>11. Placement'
    <3>1. \A p \in alloc \cap dropped : rc'[p] = 0
      BY <2>1, <2>4 DEF IInv, Placement, Held, TypeOK
    <3>2. o \in alloc /\ o \notin gbuf
      BY <2>1 DEF Held
    <3>3. roots' \subseteq alloc /\ gbuf \cap roots' = {} /\ batch \subseteq roots'
      BY <1>1, <2>4, <3>2 DEF IInv, Placement, CallStack
    <3>4. dropbuf' \subseteq Held
      BY <2>1, <2>4 DEF IInv, Placement
    <3> QED BY <1>1, <1>2, <1>3, <2>4, <3>1, <3>3, <3>4 DEF IInv, Placement
  <2>12. Ownership'
    <3>1. o \in dropbuf' => Refs(o)' = {}
      <4>1. o \in dropbuf' => Cardinality(Refs(o)') = 0
        BY <2>2, <2>4, <2>5, <2>8
      <4>2. IsFiniteSet(Refs(o)')
        BY <2>7, RefsFinite, FS_RemoveElement DEF IInv
      <4> QED BY <4>1, <4>2, FS_EmptySet
    <3>2. \A p \in Owned' : ref[p] \in Target'
      BY <1>1, <1>3, <1>4, <1>5, <2>4, <2>6, <3>1 DEF IInv, Ownership, Target, Refs
    <3> QED BY <1>1, <1>2, <1>4, <1>5, <2>6, <3>2 DEF Ownership, Target
  <2>13. RcExact'
    <3> SUFFICES ASSUME NEW p \in Held
                 PROVE  rc'[p] = Cardinality(Refs(p)') + (IF rel' = p THEN 1 ELSE 0)
      BY <1>3 DEF RcExact
    <3>1. p \in Obj /\ p # NULL /\ rel' = NULL /\ Cardinality(Refs(p)) \in Nat
      BY <1>1, <1>2, RefsFinite, CellSets, ConstantsAssumption DEF IInv
    <3>2. CASE p = o
      BY <2>2, <2>5, <2>8, <3>1, <3>2
    <3>3. CASE p # o
      BY <1>2, <2>4, <2>7, <3>1, <3>3 DEF IInv, RcExact, TypeOK
    <3> QED BY <3>2, <3>3
  <2> QED BY <2>4, <2>9, <2>10, <2>11, <2>12, <2>13
          DEF IInv, MarkPhase, ScanPhase, CollectPhase
<1> QED BY <1>6, <1>7

\* A queued object begins its drop: its fields become the cells to release.
LEMMA DrainNextStep == ASSUME IInv, NEW x \in dropbuf, DrainNext(x) PROVE IInv'
<1> USE DEF program, header, traversal, IInv
<1>1. /\ draining /\ drop = NULL /\ gc = "off" /\ dropbuf' = dropbuf \ {x}
      /\ drop' = x /\ todo' = Slot /\ dropped' = dropped \cup {x}
      /\ UNCHANGED <<alloc, program, header, draining, dropcap, roots, gc, traversal, gbuf>>
  BY DEF DrainNext
<1>2. /\ x \in Held /\ x \in Obj /\ x # NULL /\ rel = NULL /\ Tried = {} /\ fwork = {}
      /\ rc[x] = 0
  BY <1>1, CellSets, QueuedAtZero, ConstantsAssumption DEF CallStack, Placement
<1>3. /\ Held' = Held \ {x} /\ DropCells' = Fields(x) /\ DropCells = {}
      /\ Target' = Target
  BY <1>1, <1>2 DEF Held, DropCells, Fields, Target
<1>4. Owned' = Owned
  BY <1>2, <1>3 DEF Owned, Fields
<1>5. /\ Counted = Owned /\ Counted' = Owned /\ Gray' = Gray /\ White' = White
      /\ Tried' = Tried /\ Purple' = Purple
  <2>1. \A p \in Obj : color'[p] \in {"BLACK", "PURPLE"}
    BY <1>1, <1>2 DEF TypeOK, Tried, Gray, White
  <2>2. Counted' = Owned'
    BY <1>3, <2>1, CellSets DEF Counted
  <2> QED BY <1>1, <1>2, <1>4, <2>2, AllCounted DEF Tried, Gray, White, Purple
<1>6. \A o : Refs(o)' = Refs(o)
  BY <1>1, <1>5 DEF Refs
<1>7. TypeOK'
  <2>1. left' \in Int
    BY DEF DrainNext, TypeOK
  <2> QED BY <1>1, <1>2, <2>1 DEF TypeOK
<1>8. x \in roots => color[x] = "PURPLE"
  BY <1>1, <1>2 DEF Placement, Purple
<1>9. CallStack'
  BY <1>1, <1>2, <1>8 DEF CallStack, Held
<1>10. Placement'
  BY <1>1, <1>2, <1>3, <1>5 DEF Placement, Held
<1>11. Ownership' /\ RcExact'
  BY <1>1, <1>2, <1>3, <1>4, <1>5, <1>6 DEF Ownership, RcExact
<1> QED BY <1>1, <1>7, <1>9, <1>10, <1>11 DEF MarkPhase, ScanPhase, CollectPhase

\* A new object starts with one reference and fields that are null.
LEMMA MakeStep == ASSUME IInv, NEW v \in Local, NEW o \in Obj, Make(v, o) PROVE IInv'
<1> USE DEF dropqueue, traversal, IInv
<1>1. /\ gc = "off" /\ rel = NULL /\ ~draining /\ o \notin alloc /\ drop = NULL
      /\ alloc' = alloc \cup {o} /\ rel' = ref[v] /\ dropped' = dropped \ {o}
      /\ buffered' = buffered \ {o}
      /\ ref' = [c \in Cell |-> IF c = v THEN o ELSE IF c \in Fields(o) THEN NULL ELSE ref[c]]
      /\ rc' = [rc EXCEPT ![o] = 1] /\ color' = [color EXCEPT ![o] = "BLACK"]
      /\ UNCHANGED <<draining, left, drop, todo, dropqueue, roots, gc, traversal, gbuf>>
  BY DEF Make, Idle, CallStack
<1>2. /\ o \notin Held /\ o \notin roots /\ o \notin buffered /\ o \notin gbuf
      /\ o \notin dropbuf /\ Tried = {} /\ fwork = {} /\ o # NULL /\ o \notin Target
  BY <1>1, ConstantsAssumption DEF Held, Placement, CallStack, Target
<1>3. Held' = Held \cup {o} /\ DropCells' = {} /\ DropCells = {} /\ Target' = Target \cup {o}
  BY <1>1, <1>2 DEF Held, DropCells, Target
<1>4. Owned' = Owned \cup Fields(o) /\ Owned \cap Fields(o) = {} /\ v \in Owned
      /\ Fields(o) \subseteq Cell
  BY <1>2, <1>3, ConstantsAssumption DEF Owned, Fields, Cell
<1>5. TypeOK'
  <2>1. ref' \in [Cell -> Obj \cup {NULL}] /\ rel' \in Obj \cup {NULL}
    BY <1>1, ConstantsAssumption DEF TypeOK, Cell
  <2>2. pc' = "run"
    BY DEF Make
  <2> QED BY <1>1, <2>1, <2>2 DEF TypeOK
<1>6. Gray' = {} /\ White' = {} /\ Tried' = {}
      /\ \A p \in Obj : p # o => color'[p] = color[p] /\ rc'[p] = rc[p]
  BY <1>1, <1>2 DEF TypeOK, Gray, White, Tried
<1>7. Counted = Owned /\ Counted' = Owned'
  <2>1. \A p \in Obj : color'[p] \in {"BLACK", "PURPLE"}
    BY <1>5, <1>6 DEF TypeOK, Gray, White
  <2>2. Held' \subseteq Obj
    BY <1>3, CellSets
  <2> QED BY <1>2, <2>1, <2>2, AllCounted DEF Counted
<1>8. \A c \in Owned : c \in Cell /\ ref'[c] = IF c = v THEN o ELSE ref[c]
  BY <1>1, <1>4, CellSets
<1>9. \A c \in Fields(o) : ref'[c] = NULL
  BY <1>1, <1>4, ConstantsAssumption DEF Fields
<1>10. ref[v] \in Target /\ \A c \in Owned : ref[c] \in Target
  BY <1>2, <1>4, <1>7 DEF Ownership
<1>11. CallStack'
  BY <1>1 DEF CallStack
<1>12. Placement'
  <2>1. \A p \in alloc' \cap dropped' : rc'[p] = 0
    BY <1>1, <1>6 DEF Placement, TypeOK
  <2>2. \A p \in roots' \cap Held' : p \in Purple' \/ rc'[p] >= 2
    BY <1>1, <1>2, <1>3, <1>6 DEF Placement, Purple, TypeOK
  <2> QED BY <1>1, <1>2, <1>3, <1>6, <2>1, <2>2 DEF Placement
<1>13. Ownership'
  BY <1>1, <1>2, <1>3, <1>4, <1>7, <1>8, <1>9, <1>10 DEF Ownership, Target
<1>14. RcExact'
  <2>1. Refs(o)' = {v}
    BY <1>2, <1>4, <1>7, <1>8, <1>9, <1>10 DEF Refs
  <2>2. rel' # o /\ rc'[o] = 1
    BY <1>1, <1>2, <1>10 DEF TypeOK
  <2>3. rc'[o] = Cardinality(Refs(o)') + (IF rel' = o THEN 1 ELSE 0)
    BY <2>1, <2>2, FS_Singleton
  <2>4. ASSUME NEW p \in Held
        PROVE  rc'[p] = Cardinality(Refs(p)') + (IF rel' = p THEN 1 ELSE 0)
    <3>1. p \in Obj /\ p # o /\ p # NULL /\ rc'[p] = Cardinality(Refs(p))
          /\ Cardinality(Refs(p)) \in Nat
      BY <1>1, <1>2, <1>6, CellSets, RefsFinite, ConstantsAssumption DEF RcExact
    <3>2. Refs(p)' = Refs(p) \ {v} /\ (v \in Refs(p) <=> ref[v] = p)
      BY <1>4, <1>7, <1>8, <1>9, <3>1 DEF Refs
    <3>3. IsFiniteSet(Refs(p)') /\ Cardinality(Refs(p)') = IF v \in Refs(p)
            THEN Cardinality(Refs(p)) - 1 ELSE Cardinality(Refs(p))
      BY <3>2, RefsFinite, FS_RemoveElement
    <3> QED BY <1>1, <3>1, <3>2, <3>3
  <2> QED BY <1>3, <2>3, <2>4 DEF RcExact
<1> QED BY <1>1, <1>5, <1>11, <1>12, <1>13, <1>14 DEF MarkPhase, ScanPhase, CollectPhase

-----------------------------------------------------------------------------
(* The inductive invariant, and the properties that follow                  *)

\* Every step preserves the invariant.
LEMMA NextIInv == ASSUME IInv, [Next]_vars PROVE IInv'
<1>1. ASSUME NEW v \in Local, NEW w \in Local, CopyLocal(v, w) PROVE IInv'
  <2>1. CASE Slot = {}
    <3>1. Running /\ NULL \in Target
      BY <1>1 DEF CopyLocal, Store, Target
    <3> QED BY <1>1, <3>1, Readable, StoreStep DEF CopyLocal
  <2>2. CASE Slot # {}
    BY <1>1, <2>2, MutatorStores
  <2> QED BY <2>1, <2>2
<1>2. ASSUME NEW v \in Local, NEW w \in Local, NEW s \in Slot,
             GetField(v, w, s) \/ PutField(w, s, v)
      PROVE  IInv'
  BY <1>2, MutatorStores
<1>3. ASSUME NEW w \in Local, NEW s \in Slot, PutNull(w, s) PROVE IInv'
  BY <1>3, MutatorStores
<1>4. ASSUME NEW v \in Local, Release(v) PROVE IInv'
  <2>1. Running /\ NULL \in Target
    BY <1>4 DEF Release, Store, Target
  <2> QED BY <1>4, <2>1, Readable, StoreStep DEF Release
<1>5. ASSUME BeginNew \/ Exit PROVE IInv'
  BY <1>5, BeginNewStep, ExitStep
<1>6. ASSUME Mutate PROVE IInv'
  BY <1>1, <1>2, <1>3, <1>4, <1>5, <1>6 DEF Mutate
<1>7. ASSUME CollectStep PROVE IInv'
  BY <1>7, Pass1Step, MarkDoneStep, ScanDoneStep, CompactStep, MarkRootStep, ScanRootStep,
     CollectRootStep, MarkGrayStep, ScanStep, CollectWhiteStep, ScanBlackStep
     DEF CollectStep
<1>8. ASSUME Runtime PROVE IInv'
  BY <1>7, <1>8, ReleaseOldStep, PumpGbufStep, MakeStep, DrainNextStep, DropFieldStep,
     DropEndStep, DrainDoneStep, CollectCyclesStep, FlushStep, DoneStep DEF Runtime
<1>9. CASE UNCHANGED vars
  <2> USE <1>9 DEF vars, program, header, cascade, dropqueue, traversal
  <2>1. TypeOK'
    BY DEF IInv, TypeOK
  <2> QED BY <2>1, ControlStep DEF IInv, CallStack
<1> QED BY <1>6, <1>8, <1>9 DEF Next

\* The inductive invariant holds in every reachable state.
THEOREM Invariance == Spec => []IInv
BY InitIInv, NextIInv, PTL DEF Spec

\* Counters and worklists have their types: no counter ever wraps below zero, where the
\* runtime would take the object for immortal (jrt_retain and jrt_release).
THEOREM TypeCorrect == Spec => []TypeOK
<1>1. IInv => TypeOK
  BY DEF IInv
<1> QED BY <1>1, Invariance, PTL

\* The reference counts of jrt_retain, jrt_release, drop functions and trial deletion are
\* exact in every state between two loop iterations of the runtime.
THEOREM ExactCounters == Spec => []RcExact
<1>1. IInv => RcExact
  BY DEF IInv
<1> QED BY <1>1, Invariance, PTL

\* No owning cell refers to an object the runtime has freed or begun to destroy.
THEOREM NoUseAfterFree == Spec => []NoDangling
<1>1. IInv => NoDangling
  BY DEF IInv, NoDangling, Ownership, Target
<1> QED BY <1>1, Invariance, PTL

\* jrt_collect_step leaves no object gray or white behind.
THEOREM CollectorIsTransparent == Spec => []ConsistentBetweenSteps
<1>1. IInv => ConsistentBetweenSteps
  BY DEF IInv, TypeOK, Placement, ConsistentBetweenSteps, Tried, Gray, White
<1> QED BY <1>1, Invariance, PTL

\* The buffered bit and the root buffer agree, and no freed object stays in the buffer.
THEOREM RootBufferIsSound == Spec => []BufferedBitMatchesRoots
<1>1. IInv => BufferedBitMatchesRoots
  BY DEF IInv, Placement, BufferedBitMatchesRoots
<1> QED BY <1>1, Invariance, PTL

\* drain_drops may put off the drop of a queued object: nobody can reach it.
THEOREM DeferringDropsIsInvisible == Spec => []QueuedAreUnreachable
<1>1. IInv => QueuedAreUnreachable
  <2> SUFFICES ASSUME IInv, NEW x \in dropbuf
               PROVE  x \in Held /\ rc[x] = 0 /\ \A c \in Owned : ref[c] # x
    BY DEF QueuedAreUnreachable
  <2>1. x \in Held /\ x # NULL /\ x \notin fwork
    BY CellSets, ConstantsAssumption DEF IInv, Placement, Held
  <2> QED BY <2>1, QueuedAtZero DEF IInv, Ownership, Target
<1> QED BY <1>1, Invariance, PTL

-----------------------------------------------------------------------------
(* The root buffer stays small                                              *)

\* The program, the cascade and the pumps leave the root buffer alone.
LEMMA QuietBound ==
  ASSUME RootsBound, gc = "off", gc' = "off", roots' = roots
  PROVE  RootsBound'
BY DEF RootsBound

\* A release adds one candidate at most, and starts a step when the buffer is full.
LEMMA ReleaseBound ==
  ASSUME IInv, RootsBound, gc = "off", NEW o \in Obj, ReleaseLast(o) \/ ReleaseShared(o)
  PROVE  RootsBound'
<1>1. CASE roots' = roots /\ gc' = "off"
  BY <1>1, QuietBound
<1>2. CASE /\ roots' = roots \cup {o}
           /\ gc' = IF Cardinality(roots') >= SOFT_CAP THEN "pass1" ELSE gc
  <2>1. IsFiniteSet(roots)
    BY ConstantsAssumption, FS_Subset DEF IInv, TypeOK
  <2>2. Cardinality(roots') <= Cardinality(roots) + 1 /\ Cardinality(roots) \in Nat
        /\ Cardinality(roots') \in Nat
    <3>1. IsFiniteSet(roots')
      BY <1>2, <2>1, FS_AddElement
    <3> QED BY <1>2, <2>1, <3>1, FS_AddElement, FS_CardinalityType
  <2>3. SOFT_CAP \in Nat
    BY ConstantsAssumption
  <2> QED BY <1>2, <2>2, <2>3 DEF RootsBound
<1> QED BY <1>1, <1>2 DEF ReleaseLast, ReleaseShared, PossibleRoot

\* Pass 1 takes the tail of the buffer; what is left of the head is below the cap.
LEMMA Pass1Bound == ASSUME IInv, RootsBound, Pass1 PROVE RootsBound'
<1>1. Cardinality(roots) \in Nat /\ Cardinality(roots) <= SOFT_CAP
  <2>1. IsFiniteSet(roots)
    BY ConstantsAssumption, FS_Subset DEF IInv, TypeOK
  <2> QED BY <2>1, FS_CardinalityType DEF RootsBound, Pass1
<1>2. Cardinality(roots' \ batch') < SOFT_CAP
  <2>1. IsFiniteSet(roots' \ batch')
    BY ConstantsAssumption, FS_Subset DEF IInv, TypeOK, Pass1
  <2>2. Cardinality(roots' \ batch') \in Nat
    BY <2>1, FS_CardinalityType
  <2>3. Cardinality(roots' \ batch')
          <= IF Cardinality(roots) - COLLECT_BATCH > 0
               THEN Cardinality(roots) - COLLECT_BATCH ELSE 0
    BY DEF Pass1
  <2> QED BY <1>1, <2>2, <2>3, ConstantsAssumption
<1> QED BY <1>2 DEF RootsBound, Pass1

\* Visiting a batch entry starts the traversal from every candidate.
LEMMA VisitBound ==
  ASSUME IInv, RootsBound, NEW h \in pend, MarkRoot(h) \/ ScanRoot(h) \/ CollectRoot(h)
  PROVE  RootsBound'
<1>1. UNCHANGED <<roots, gc, batch, rc, color>> /\ pend' = pend \ {h} /\ cwork = {}
  BY DEF MarkRoot, ScanRoot, CollectRoot, Visit, header
<1>2. \A k : Candidate(k)' = Candidate(k)
  BY <1>1 DEF Candidate, Purple
<1>3. gc = "mark" => (Candidate(h) => h \in cwork')
  BY DEF MarkRoot, ScanRoot, CollectRoot, Visit, Candidate, Purple
<1> QED BY <1>1, <1>2, <1>3 DEF RootsBound

\* Trial deletion makes no object a candidate.
LEMMA MarkGrayBound ==
  ASSUME IInv, RootsBound, NEW h \in cwork, MarkGray(h)
  PROVE  RootsBound'
<1>1. UNCHANGED <<roots, gc, batch, pend>> /\ gc = "mark" /\ cwork \ {h} \subseteq cwork'
  BY DEF MarkGray
<1>2. h \notin Purple'
  BY DEF MarkGray, Purple, IInv, TypeOK
<1>3. \A k \in Obj : Candidate(k)' => Candidate(k)
  <2>1. \A k \in Obj : k \in Purple' => k \in Purple
    BY DEF MarkGray, Purple, IInv, TypeOK
  <2>2. \A k \in Obj : rc[k] \in Nat /\ rc'[k] <= rc[k]
    <3>1. \A k \in Obj : Edges(h, k) \in Nat
      BY EdgesLemma DEF IInv, TypeOK
    <3> QED BY <3>1 DEF MarkGray, Visited, IInv, TypeOK
  <2>3. \A k \in Obj : rc'[k] \in Nat
    BY MarkGrayStep DEF IInv, TypeOK
  <2> QED BY <2>1, <2>2, <2>3 DEF Candidate
<1>4. batch \subseteq Obj
  BY DEF IInv, TypeOK
<1> QED BY <1>1, <1>2, <1>3, <1>4 DEF RootsBound, Candidate

\* What scanning restores was gray or white, and no such object points to a purple one.
LEMMA ScanBlackBound ==
  ASSUME IInv, RootsBound, NEW h \in bwork, ScanBlack(h)
  PROVE  RootsBound'
<1>1. UNCHANGED <<roots, gc, batch, pend>> /\ gc = "scan" /\ h \in Obj
  BY DEF ScanBlack, IInv, TypeOK
<1>2. ASSUME NEW k \in Obj, Candidate(k)' PROVE Candidate(k)
  <2>1. k \in Purple
    BY <1>2 DEF ScanBlack, Purple, Candidate, IInv, TypeOK
  <2>2. CASE color[h] = "BLACK"
    BY <1>2, <2>1, <2>2 DEF ScanBlack, Candidate
  <2>3. CASE color[h] # "BLACK"
    <3>1. h \in Tried
      BY <1>1, <2>3 DEF IInv, TypeOK, ScanPhase, Tried, Gray, White, Purple
    <3>2. ~Points(h, {k})
      BY <1>1, <2>1, <3>1 DEF IInv, ScanPhase, Points
    <3>3. {c \in Fields(h) : ref[c] = k} = {}
      BY <3>2 DEF Points
    <3>4. Edges(h, k) = 0
      BY <3>3, FS_EmptySet DEF Edges
    <3>5. rc'[k] = rc[k]
      <4>1. rc[k] \in Nat
        BY DEF IInv, TypeOK
      <4>2. rc' = Visited(h, 1)
        BY <2>3 DEF ScanBlack
      <4>3. rc'[k] = rc[k] + 1 * Edges(h, k)
        BY <4>2 DEF Visited
      <4> QED BY <3>4, <4>1, <4>3
    <3> QED BY <1>2, <2>1, <3>5 DEF Candidate
  <2> QED BY <2>2, <2>3
<1>3. batch \subseteq Obj
  BY DEF IInv, TypeOK
<1> QED BY <1>1, <1>2, <1>3 DEF RootsBound

\* The other iterations of a step only take colours other than purple.
LEMMA ColouringBound ==
  ASSUME IInv, RootsBound, NEW h \in cwork, Scan(h) \/ CollectWhite(h)
  PROVE  RootsBound'
<1>1. UNCHANGED <<roots, gc, batch, pend, rc>> /\ gc \in {"scan", "collect"}
  BY DEF Scan, CollectWhite
<1>2. \A k \in Obj : Candidate(k)' => Candidate(k)
  BY <1>1 DEF Scan, CollectWhite, Candidate, Purple, IInv, TypeOK
<1>3. batch \subseteq Obj
  BY DEF IInv, TypeOK
<1> QED BY <1>1, <1>2, <1>3 DEF RootsBound

\* Compaction keeps candidates only, none of them from the batch.
LEMMA CompactBound == ASSUME IInv, RootsBound, Compact PROVE RootsBound'
<1>1. roots' \subseteq roots \ batch
  <2>1. Kept \subseteq roots
    BY DEF Kept
  <2>2. \A h \in Kept : Candidate(h)
    BY DEF Kept, Candidate, Purple, IInv, TypeOK
  <2> QED BY <2>1, <2>2 DEF Compact, RootsBound
<1>2. IsFiniteSet(roots \ batch)
  BY ConstantsAssumption, FS_Subset DEF IInv, TypeOK
<1>3. Cardinality(roots') <= Cardinality(roots \ batch) /\ Cardinality(roots') \in Nat
      /\ Cardinality(roots \ batch) \in Nat
  BY <1>1, <1>2, FS_Subset, FS_CardinalityType
<1> QED BY <1>3, ConstantsAssumption DEF RootsBound, Compact

\* Every step preserves the bound.
LEMMA NextBound == ASSUME IInv, RootsBound, [Next]_vars PROVE RootsBound'
<1>1. ASSUME Mutate PROVE RootsBound'
  BY <1>1, QuietBound DEF Mutate, CopyLocal, GetField, PutField, PutNull, Release, Store,
     BeginNew, Exit, Running, Idle
<1>2. ASSUME ReleaseOld PROVE RootsBound'
  <2>1. rel \in Obj
    BY <1>2 DEF ReleaseOld, IInv, TypeOK
  <2> QED BY <1>2, <2>1, ReleaseBound DEF ReleaseOld
<1>3. ASSUME NEW s \in todo, DropField(s) PROVE RootsBound'
  <2>1. drop \in Obj /\ s \in Slot /\ ref[<<drop, s>>] \in Obj \cup {NULL}
    BY <1>3 DEF DropField, IInv, TypeOK, Cell
  <2>2. CASE ref[<<drop, s>>] = NULL
    BY <1>3, <2>1, <2>2, QuietBound DEF DropField, ReleaseLast
  <2>3. CASE ref[<<drop, s>>] # NULL
    BY <1>3, <2>1, <2>3, ReleaseBound DEF DropField
  <2> QED BY <2>2, <2>3
<1>4. ASSUME PumpGbuf \/ DropEnd \/ DrainDone \/ Flush \/ Done PROVE RootsBound'
  BY <1>4, QuietBound DEF PumpGbuf, DropEnd, DrainDone, Flush, Done, Idle
<1>5. ASSUME NEW v, NEW o, Make(v, o) PROVE RootsBound'
  BY <1>5, QuietBound DEF Make, Idle
<1>6. ASSUME NEW x, DrainNext(x) PROVE RootsBound'
  BY <1>6, QuietBound DEF DrainNext
<1>7. ASSUME CollectCycles PROVE RootsBound'
  <2>1. IsFiniteSet(roots)
    BY ConstantsAssumption, FS_Subset DEF IInv, TypeOK
  <2>2. Cardinality(roots) \in Nat
    BY <2>1, FS_CardinalityType
  <2> QED BY <1>7, <2>2, ConstantsAssumption DEF CollectCycles, Idle, RootsBound
<1>8. ASSUME NextPass("mark", "scan") \/ NextPass("scan", "collect") PROVE RootsBound'
  BY <1>8 DEF NextPass, RootsBound, Candidate, Purple, header
<1>9. ASSUME CollectStep PROVE RootsBound'
  BY <1>8, <1>9, Pass1Bound, VisitBound, MarkGrayBound, ScanBlackBound, ColouringBound,
     CompactBound DEF CollectStep
<1>10. CASE UNCHANGED vars
  BY <1>10 DEF vars, header, traversal, RootsBound, Candidate, Purple
<1>11. ASSUME Runtime PROVE RootsBound'
  BY <1>2, <1>3, <1>4, <1>5, <1>6, <1>7, <1>9, <1>11 DEF Runtime
<1> QED BY <1>1, <1>10, <1>11 DEF Next

\* possible_root and jrt_collect_step keep the root buffer below the soft cap, whatever
\* the program does: a step that starts full leaves room, so roots never grows to the
\* size at which collector_trim would free it with its candidates.
THEOREM RootBufferStaysSmall == Spec => []RootBufferBounded
<1>1. Init => RootsBound
  BY FS_EmptySet, ConstantsAssumption DEF Init, RootsBound
<1>2. RootsBound => RootBufferBounded
  BY DEF RootsBound, RootBufferBounded
<1>3. IInv /\ RootsBound /\ [Next]_vars => RootsBound'
  BY NextBound
<1> QED BY <1>1, <1>2, <1>3, Invariance, PTL DEF Spec

-----------------------------------------------------------------------------
(* Refinement: the runtime implements the managed heap                      *)

\* Whenever memory is given back, the objects that remain held are closed under reach.
LEMMA HeldIsClosed ==
  ASSUME IInv, Tried = {}, NEW F, F \cap Held = {}
  PROVE  Heap!Unreachable(F)
<1>1. Counted = Owned
  BY AllCounted DEF IInv
<1>2. Held \in SUBSET (alloc \ F)
  BY DEF Held
<1>3. \A v \in Local : ref[v] \in Held \cup {NULL}
  BY <1>1 DEF IInv, Ownership, Owned, Target
<1>4. \A c \in Held \X Slot : ref[c] \in Held \cup {NULL}
  BY <1>1 DEF IInv, Ownership, Owned, Target
<1>5. Heap!ClosedUnderReach(Held)
  BY <1>3, <1>4 DEF Heap!ClosedUnderReach
<1> QED BY <1>2, <1>5 DEF Heap!Unreachable

\* Freeing objects that are not held is a Reclaim step of the abstract heap.
LEMMA ReclaimStep ==
  ASSUME IInv, Tried = {}, NEW F \in SUBSET alloc, F \cap Held = {},
         alloc' = alloc \ F, ref' = ref
  PROVE  Heap!Next
<1>1. Heap!Unreachable(F)
  BY HeldIsClosed
<1> QED BY <1>1 DEF Heap!Next, Heap!Reclaim

\* A store is an assignment of the abstract heap.
LEMMA StoreRefines ==
  ASSUME Running, NEW c \in Heap!Nameable, NEW x \in Heap!Readable,
         Store(c, x)
  PROVE  Heap!Next
BY DEF Store, Heap!Next, Heap!Assign

\* The cells a program reads and writes can be named from its locals.
LEMMA NameableCells ==
  /\ Local \subseteq Heap!Nameable
  /\ \A w \in Local, s \in Slot : ref[w] # NULL => <<ref[w], s>> \in Heap!Nameable
  /\ \A d \in Heap!Nameable : ref[d] \in Heap!Readable
  /\ NULL \in Heap!Readable
BY DEF Heap!Nameable, Heap!Readable, Heap!Fields

\* The steps of the program, seen from the abstract heap.
LEMMA MutateRefines ==
  ASSUME IInv, Mutate
  PROVE  Heap!Next \/ UNCHANGED <<alloc, ref>>
<1>1. ASSUME NEW v \in Local, NEW w \in Local, CopyLocal(v, w) PROVE Heap!Next
  BY <1>1, NameableCells, StoreRefines DEF CopyLocal, Store
<1>2. ASSUME NEW v \in Local, NEW w \in Local, NEW s \in Slot,
             GetField(v, w, s) \/ PutField(w, s, v)
      PROVE  Heap!Next
  BY <1>2, NameableCells, StoreRefines DEF GetField, PutField, Store
<1>3. ASSUME NEW w \in Local, NEW s \in Slot, PutNull(w, s) PROVE Heap!Next
  BY <1>3, NameableCells, StoreRefines DEF PutNull, Store
<1>4. ASSUME NEW v \in Local, Release(v) PROVE Heap!Next
  BY <1>4, NameableCells, StoreRefines DEF Release, Store
<1>5. ASSUME BeginNew \/ Exit PROVE UNCHANGED <<alloc, ref>>
  BY <1>5 DEF BeginNew, Exit
<1> QED BY <1>1, <1>2, <1>3, <1>4, <1>5 DEF Mutate

\* The steps of the runtime, seen from the abstract heap.
LEMMA RuntimeRefines ==
  ASSUME IInv, Runtime
  PROVE  Heap!Next \/ UNCHANGED <<alloc, ref>>
<1> USE DEF program
<1>1. ASSUME ReleaseOld \/ DrainDone \/ CollectCycles \/ Done PROVE UNCHANGED <<alloc, ref>>
  BY <1>1 DEF ReleaseOld, DrainDone, CollectCycles, Done
<1>2. ASSUME NEW n, DrainGbuf(n), gc = "off", UNCHANGED ref PROVE Heap!Next
  <2>1. PICK F \in SUBSET gbuf : alloc' = alloc \ F
    BY <1>2, DrainGbufLemma DEF IInv
  <2>2. Tried = {} /\ F \in SUBSET alloc /\ F \cap Held = {}
    BY <1>2 DEF IInv, Placement, Held
  <2> QED BY <1>2, <2>1, <2>2, ReclaimStep
<1>3. ASSUME PumpGbuf \/ Flush PROVE Heap!Next
  BY <1>2, <1>3 DEF PumpGbuf, Flush, Idle
<1>4. ASSUME NEW v \in Local, NEW o \in Obj, Make(v, o) PROVE Heap!Next
  BY <1>4 DEF Make, Heap!Next, Heap!Allocate, Cell, Heap!Cell, Fields, Heap!Fields
<1>5. ASSUME NEW x \in dropbuf, DrainNext(x) PROVE UNCHANGED <<alloc, ref>>
  BY <1>5 DEF DrainNext
<1>6. ASSUME NEW s \in todo, DropField(s) PROVE UNCHANGED <<alloc, ref>>
  BY <1>6 DEF DropField
<1>7. ASSUME DropEnd PROVE Heap!Next \/ UNCHANGED <<alloc, ref>>
  <2>1. Tried = {} /\ {drop} \in SUBSET alloc /\ {drop} \cap Held = {}
    BY <1>7 DEF DropEnd, IInv, Placement, CallStack, Held
  <2>2. ref' = ref /\ (alloc' = alloc \/ alloc' = alloc \ {drop})
    BY <1>7 DEF DropEnd
  <2> QED BY <2>1, <2>2, ReclaimStep
<1>8. ASSUME Pass1 PROVE Heap!Next
  <2> DEFINE dead == {h \in roots : color[h] = "BLACK" /\ rc[h] = 0}
  <2>1. Tried = {} /\ dead \in SUBSET alloc /\ dead \cap Held = {}
    BY <1>8 DEF Pass1, IInv, Placement, Purple
  <2>2. ref' = ref /\ alloc' = alloc \ dead
    BY <1>8 DEF Pass1
  <2> QED BY <2>1, <2>2, ReclaimStep
<1>9. ASSUME Compact PROVE Heap!Next
  <2>1. PICK F \in SUBSET (gbuf \cup fwork) : alloc' = alloc \ F
    BY <1>9 DEF Compact
  <2>2. Tried = {} /\ F \in SUBSET alloc /\ F \cap Held = {} /\ ref' = ref
    BY <1>9 DEF Compact, IInv, CollectPhase, Covered, Placement, Tried, Held
  <2> QED BY <2>1, <2>2, ReclaimStep
<1>10. ASSUME NextPass("mark", "scan") \/ NextPass("scan", "collect")
       PROVE  UNCHANGED <<alloc, ref>>
  BY <1>10 DEF NextPass
<1>11. ASSUME NEW h, MarkRoot(h) \/ ScanRoot(h) \/ CollectRoot(h)
       PROVE  UNCHANGED <<alloc, ref>>
  BY <1>11 DEF MarkRoot, ScanRoot, CollectRoot, Visit
<1>12. ASSUME NEW h, MarkGray(h) \/ Scan(h) \/ ScanBlack(h) \/ CollectWhite(h)
       PROVE  UNCHANGED <<alloc, ref>>
  BY <1>12 DEF MarkGray, Scan, ScanBlack, CollectWhite
<1>13. ASSUME CollectStep PROVE Heap!Next \/ UNCHANGED <<alloc, ref>>
  BY <1>8, <1>9, <1>10, <1>11, <1>12, <1>13 DEF CollectStep
<1> QED BY <1>1, <1>3, <1>4, <1>5, <1>6, <1>7, <1>13 DEF Runtime

\* Every free_obj of the runtime, from a cascade, from pass 1 or from the deferred queue
\* of the collector, takes objects the program can no longer reach; every other step is
\* an allocation, an assignment of the program, or invisible to it.
THEOREM Refinement == Spec => ImplementsManagedHeap
<1>1. Init => Heap!Init
  BY DEF Init, Heap!Init, Cell, Heap!Cell
<1>2. IInv /\ [Next]_vars => [Heap!Next]_<<alloc, ref>>
  BY MutateRefines, RuntimeRefines DEF Next, vars, program
<1> QED BY <1>1, <1>2, Invariance, PTL DEF Spec, ImplementsManagedHeap, Heap!Spec

=============================================================================
