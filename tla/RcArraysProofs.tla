--------------------------- MODULE RcArraysProofs ---------------------------
(***************************************************************************)
(* Reference arrays in a build without the collector, for every heap and   *)
(* program: the counters stay exact although aastore and arraycopy release *)
(* elements that are still in their slots.                                 *)
(***************************************************************************)
EXTENDS RcArraysInv, RcHeapLeakProofs

-----------------------------------------------------------------------------
(* A state of an array operation                                            *)

\* Every owning cell counts, and the array's slots are fields of a held object.
LEMMA StoreFacts ==
  ASSUME StoreInv
  PROVE  /\ Held = alloc \ (dropped \cup gbuf) /\ Held \subseteq Obj /\ NULL \notin Held
         /\ Tried = {} /\ Counted = Owned /\ Owned \subseteq Cell
         /\ DOMAIN writes \subseteq Held \X Slot /\ Stale \subseteq DOMAIN writes
         /\ DOMAIN writes \cap Local = {} /\ DOMAIN writes \subseteq Owned
<1>1. Held = alloc \ (dropped \cup gbuf) /\ Held \subseteq Obj /\ NULL \notin Held
  BY ConstantsAssumption DEF StoreInv, StoreTypes, Held
<1>2. Tried = {}
  BY DEF StoreInv, StoreTypes, Tried, Gray, White
<1>3. Counted = Owned
  BY <1>1 DEF StoreInv, StoreTypes, Counted
<1>4. Owned \subseteq Cell
  BY <1>1 DEF Owned, Cell, DropCells
<1>5. PICK v \in Local : ref[v] # NULL /\ DOMAIN writes \subseteq Fields(ref[v])
  BY DEF StoreInv, Operation
<1>6. v \in Owned \ Stale
  BY <1>5, ConstantsAssumption DEF Owned, Stale, Fields, StoreInv, StoreTypes, Cell
<1>7. ref[v] \in Held
  BY <1>5, <1>6 DEF StoreInv, Target
<1>8. DOMAIN writes \subseteq Held \X Slot
  BY <1>5, <1>7 DEF Fields
<1> QED BY <1>1, <1>2, <1>3, <1>4, <1>8, ConstantsAssumption DEF Owned, Stale

\* What counts can be counted.
LEMMA StoreCount ==
  ASSUME StoreInv, NEW o
  PROVE  /\ IsFiniteSet(Holding(o)) /\ Cardinality(Holding(o)) \in Nat
         /\ IsFiniteSet(Coming(o)) /\ Cardinality(Coming(o)) \in Nat
         /\ o \in Held => rc[o] = Cardinality(Holding(o)) + Cardinality(Coming(o))
                                + (IF rel = o THEN 1 ELSE 0)
<1>1. Holding(o) \subseteq Cell /\ Coming(o) \subseteq Cell
  BY StoreFacts DEF Holding, Coming
<1>2. Holding(o) = {c \in Counted \ (DOMAIN writes \ owed) : ref[c] = o}
  BY StoreFacts DEF Holding, Stale
<1>3. o \in Held => rc[o] = Cardinality(Holding(o)) + Cardinality(Coming(o))
                          + (IF rel = o THEN 1 ELSE 0)
  BY <1>2 DEF StoreInv, RcExactWithArrays, Coming
<1> QED BY <1>1, <1>3, CellFinite, FS_Subset, FS_CardinalityType

-----------------------------------------------------------------------------
(* Outside and inside of an array operation the same facts are kept         *)

\* On the way in.
LEMMA HeapToStore ==
  ASSUME ~Collector, IInv, Whereabouts, gc = "off", drop = NULL
  PROVE  /\ Places
         /\ roots \cup buffered \cup batch \cup pend \cup cwork \cup bwork \cup fwork = {}
         /\ color \in [Obj -> {"BLACK", "PURPLE"}]
         /\ Counted = Owned
<1>1. roots \cup buffered \cup batch \cup pend \cup cwork \cup bwork \cup fwork = {}
  BY DEF IInv, Placement, CallStack
<1>2. Tried = {} /\ Settled = Held /\ Counted = Owned
  BY NoTraversal, AllCounted DEF IInv
<1>3. color \in [Obj -> {"BLACK", "PURPLE"}]
  BY <1>2 DEF IInv, TypeOK, Tried, Gray, White
<1>4. alloc \cap dropped \subseteq {drop}
  BY <1>1 DEF Whereabouts
<1> QED BY <1>1, <1>2, <1>3, <1>4 DEF IInv, Placement, Whereabouts, Places

\* On the way out.
LEMMA StoreToHeap ==
  StoreTypes /\ CallStack /\ Places
    => Placement /\ Whereabouts /\ MarkPhase /\ ScanPhase /\ CollectPhase
<1> SUFFICES ASSUME StoreTypes, CallStack, Places
             PROVE  Placement /\ Whereabouts /\ MarkPhase /\ ScanPhase /\ CollectPhase
  OBVIOUS
<1>1. Tried = {}
  BY DEF StoreTypes, Tried, Gray, White
<1>2. Placement
  <2>1. \A o \in alloc \cap dropped : rc[o] = 0
    BY ConstantsAssumption DEF Places, StoreTypes
  <2> QED BY <1>1, <2>1 DEF Places, Placement, StoreTypes
<1>3. Whereabouts
  BY <1>1 DEF Places, Whereabouts, Settled, StoreTypes
<1> QED BY <1>2, <1>3 DEF StoreTypes, MarkPhase, ScanPhase, CollectPhase

-----------------------------------------------------------------------------
(* The steps of an array operation                                          *)

\* aastore and arraycopy retain what they are about to write.
LEMMA BeginStep ==
  ASSUME ~Collector, IInv, Whereabouts, Typed, NEW ws, BeginWrites(ws),
         NEW v \in Local, ref[v] # NULL, DOMAIN ws \subseteq Fields(ref[v]),
         \A c \in DOMAIN ws : ws[c] \in Target
  PROVE  StoreInv'
<1> DEFINE In(o) == Cardinality({c \in DOMAIN ws : ws[c] = o})
<1> USE DEF traversal, header, cascade, dropqueue
<1>1. /\ gc = "off" /\ rel = NULL /\ drop = NULL /\ ~draining
      /\ writes' = ws /\ owed' = DOMAIN ws
      /\ rc' = [o \in Obj |-> rc[o] + In(o)]
      /\ color' = [o \in Obj |-> IF \E c \in DOMAIN ws : ws[c] = o THEN "BLACK" ELSE color[o]]
      /\ UNCHANGED <<alloc, ref, rel, draining, left, drop, todo, dropped, dropbuf, dropcap,
                     roots, buffered, gc, batch, pend, cwork, bwork, fwork, gbuf>>
  BY DEF BeginWrites, Running, Idle, IInv, CallStack
<1>2. Places /\ Counted = Owned /\ color \in [Obj -> {"BLACK", "PURPLE"}]
      /\ roots \cup buffered \cup batch \cup pend \cup cwork \cup bwork \cup fwork = {}
  BY <1>1, HeapToStore
<1>3. Held' = Held /\ DropCells' = DropCells /\ Owned' = Owned /\ Target' = Target
      /\ Held \subseteq Obj
  BY <1>1, CellSets DEF Held, DropCells, Owned, Target, IInv
<1>4. \A o : In(o) \in Nat
  <2> TAKE o
  <2>1. ref[v] \in Obj
    BY DEF IInv, TypeOK, Cell
  <2>2. {c \in DOMAIN ws : ws[c] = o} \subseteq Cell
    BY <2>1 DEF Fields, Cell
  <2> QED BY <2>2, CellFinite, FS_Subset, FS_CardinalityType
<1>5. \A o : Holding(o)' = Refs(o) /\ Cardinality(Coming(o)') = In(o)
  BY <1>1, <1>2, <1>3 DEF Holding, Coming, Stale, Refs
<1> HIDE DEF In
<1>6. StoreTypes'
  <2>1. rc' \in [Obj -> Nat] /\ color' \in [Obj -> {"BLACK", "PURPLE"}]
    BY <1>1, <1>2, <1>4 DEF IInv, TypeOK
  <2> QED BY <1>1, <1>2, <2>1 DEF IInv, TypeOK, StoreTypes
<1>7. CallStack'
  BY <1>1, <1>2 DEF IInv, CallStack
<1>8. Places'
  <2>1. \A o \in Obj : rc[o] \in Nat /\ (rc'[o] = 0 => rc[o] = 0)
    BY <1>1, <1>4 DEF IInv, TypeOK
  <2>2. Purple' \subseteq Purple
    BY <1>1 DEF Purple
  <2> QED BY <1>1, <1>2, <1>3, <2>1, <2>2 DEF Places
<1>9. Operation'
  BY <1>1, <1>3 DEF Operation, BeginWrites, Fields
<1>10. RcExactWithArrays'
  <2>1. Counted' = Owned'
    BY <1>6 DEF StoreTypes, Counted, Held
  <2>2. \A o \in Held' : rc'[o] = Cardinality(Holding(o)') + Cardinality(Coming(o)')
                                + (IF rel' = o THEN 1 ELSE 0)
    <3> SUFFICES ASSUME NEW o \in Held
                 PROVE  rc'[o] = Cardinality(Holding(o)') + Cardinality(Coming(o)')
                               + (IF rel' = o THEN 1 ELSE 0)
      BY <1>3
    <3>1. rc[o] = Cardinality(Refs(o)) + (IF rel = o THEN 1 ELSE 0)
      BY DEF IInv, RcExact
    <3> QED BY <1>1, <1>3, <1>4, <1>5, <3>1, RefsFinite DEF IInv
  <2> QED BY <2>1, <2>2 DEF RcExactWithArrays, Holding, Coming, Stale
<1>11. (\A c \in Owned \ Stale : ref[c] \in Target)' /\ rel' \in Target'
  BY <1>1, <1>2, <1>3 DEF IInv, Ownership
<1>12. Typed'
  BY <1>1, <1>3, TypedSame
<1> QED BY <1>6, <1>7, <1>8, <1>9, <1>10, <1>11, <1>12 DEF StoreInv

\* The old element of a slot: the reference it counted for is owed now.
LEMMA ReleaseElementStep ==
  ASSUME StoreInv, NEW c \in owed, ReleaseElement(c)
  PROVE  StoreInv'
<1> USE DEF traversal, header, cascade, dropqueue
<1>1. /\ rel = NULL /\ drop = NULL /\ ~draining /\ gc = "off"
      /\ owed' = owed \ {c} /\ rel' = ref[c]
      /\ UNCHANGED <<alloc, ref, rc, color, draining, left, drop, todo, dropped, dropbuf,
                     dropcap, roots, buffered, gc, batch, pend, cwork, bwork, fwork, gbuf,
                     writes>>
  BY DEF ReleaseElement, Idle, StoreInv, CallStack
<1>2. Held' = Held /\ DropCells' = DropCells /\ Owned' = Owned /\ Target' = Target
      /\ Purple' = Purple
  BY <1>1 DEF Held, DropCells, Owned, Target, Purple
<1>3. c \in Owned \ Stale /\ c \in Cell /\ ref[c] \in Target
  BY StoreFacts DEF StoreInv, Operation, Stale
<1>4. Stale' = Stale \cup {c}
  BY <1>1, <1>3 DEF Stale, StoreInv, Operation
<1>5. StoreTypes' /\ CallStack' /\ Places'
  BY <1>1, <1>2, <1>3 DEF StoreInv, StoreTypes, CallStack, Places
<1>6. Operation'
  BY <1>1, <1>2 DEF StoreInv, Operation
<1>7. RcExactWithArrays'
  <2>1. Counted' = Owned'
    BY <1>5 DEF StoreTypes, Counted, Held
  <2>2. \A o \in Held' : rc'[o] = Cardinality(Holding(o)') + Cardinality(Coming(o)')
                                + (IF rel' = o THEN 1 ELSE 0)
    <3> SUFFICES ASSUME NEW o \in Held
                 PROVE  rc'[o] = Cardinality(Holding(o)') + Cardinality(Coming(o)')
                               + (IF rel' = o THEN 1 ELSE 0)
      BY <1>2
    <3>1. Coming(o)' = Coming(o) /\ Holding(o)' = Holding(o) \ {c}
      BY <1>1, <1>2, <1>4 DEF Coming, Holding
    <3>2. CASE ref[c] = o
      <4>1. c \in Holding(o)
        BY <1>3, <3>2 DEF Holding
      <4>2. Cardinality(Holding(o)') = Cardinality(Holding(o)) - 1
        BY <3>1, <4>1, StoreCount, FS_RemoveElement
      <4> QED BY <1>1, <3>1, <3>2, <4>2, StoreCount, StoreFacts
    <3>3. CASE ref[c] # o
      <4>1. Holding(o)' = Holding(o)
        BY <3>1, <3>3 DEF Holding
      <4> QED BY <1>1, <3>1, <3>3, <4>1, StoreCount, StoreFacts
    <3> QED BY <3>2, <3>3
  <2> QED BY <2>1, <2>2 DEF RcExactWithArrays, Holding, Coming, Stale
<1>8. (\A d \in Owned \ Stale : ref[d] \in Target)' /\ rel' \in Target'
  BY <1>1, <1>2, <1>3, <1>4 DEF StoreInv
<1>9. Typed'
  BY <1>1, <1>2, TypedSame DEF StoreInv
<1> QED BY <1>5, <1>6, <1>7, <1>8, <1>9 DEF StoreInv

\* A release during the operation.  What counts towards o loses a cell, or the reference
\* that was owed.
LEMMA StoreReleaseStep ==
  ASSUME ~Collector, StoreInv, NEW o \in Held \ dropbuf, rc[o] >= 1,
         ReleaseLast(o) \/ ReleaseShared(o),
         UNCHANGED <<alloc, ref, drop, dropped, gbuf, writes, owed, traversal>>,
         rel' \in {rel, NULL}, draining' \in BOOLEAN, left' \in Int, todo' \in SUBSET todo,
         CallStack', NEW X, Owned' = Owned \ X, DropCells' \subseteq DropCells,
         \A p \in Held : Cardinality(Holding(p) \ X) + (IF rel' = p THEN 1 ELSE 0)
                       = Cardinality(Holding(p)) + (IF rel = p THEN 1 ELSE 0)
                       - (IF p = o THEN 1 ELSE 0)
  PROVE  StoreInv'
<1> USE DEF traversal
<1>1. /\ rc' = [rc EXCEPT ![o] = rc[o] - 1] /\ UNCHANGED <<color, buffered, roots, gc>>
      /\ dropbuf' = IF rc[o] = 1 THEN dropbuf \cup {o} ELSE dropbuf
      /\ dropcap' \in Nat
  BY ConstantsAssumption
     DEF ReleaseLast, ReleaseShared, DropEnq, dropqueue, StoreInv, StoreTypes
<1>2. Held' = Held /\ Stale' = Stale /\ Purple' = Purple /\ o \in Obj /\ o \notin dropped
  BY <1>1, StoreFacts DEF Held, Stale, Purple
<1>3. StoreTypes'
  <2>1. rc[o] \in Nat /\ rc' \in [Obj -> Nat]
    BY <1>1, <1>2 DEF StoreInv, StoreTypes
  <2> QED BY <1>1, <1>2, <2>1 DEF StoreInv, StoreTypes
<1>4. \A p \in Held : Holding(p)' = Holding(p) \ X /\ Coming(p)' = Coming(p)
  BY <1>2 DEF Holding, Coming
<1>5. \A p \in Held : rc'[p] = Cardinality(Holding(p)') + Cardinality(Coming(p)')
                             + (IF rel' = p THEN 1 ELSE 0)
  <2> TAKE p \in Held
  <2>1. rc'[p] = rc[p] - (IF p = o THEN 1 ELSE 0)
    BY <1>1, <1>2, StoreFacts DEF StoreInv, StoreTypes
  <2>2. Cardinality(Holding(p) \ X) \in Nat
    BY StoreCount, FS_Subset, FS_CardinalityType
  <2>3. /\ rc[p] = Cardinality(Holding(p)) + Cardinality(Coming(p)) + (IF rel = p THEN 1 ELSE 0)
        /\ Cardinality(Holding(p)) \in Nat /\ Cardinality(Coming(p)) \in Nat
    BY StoreCount
  <2>4. Cardinality(Holding(p)') = Cardinality(Holding(p) \ X)
        /\ Cardinality(Coming(p)') = Cardinality(Coming(p))
    BY <1>4
  <2> QED BY <2>1, <2>2, <2>3, <2>4
<1>6. RcExactWithArrays'
  <2>1. Counted' = Owned'
    BY <1>3 DEF StoreTypes, Counted, Held
  <2> QED BY <1>2, <1>5, <2>1 DEF RcExactWithArrays, Holding, Coming, Stale
<1>7. o \in dropbuf' => Holding(o)' = {} /\ Coming(o)' = {} /\ rel' # o
  <2> SUFFICES ASSUME o \in dropbuf' PROVE Holding(o)' = {} /\ Coming(o)' = {} /\ rel' # o
    OBVIOUS
  <2>1. rc'[o] = 0
    BY <1>1, <1>2 DEF StoreInv, StoreTypes
  <2>2. IsFiniteSet(Holding(o)') /\ IsFiniteSet(Coming(o)')
    BY <1>4, StoreCount, FS_Subset
  <2>3. Cardinality(Holding(o)') = 0 /\ Cardinality(Coming(o)') = 0 /\ rel' # o
    BY <1>5, <2>1, <2>2, FS_CardinalityType
  <2> QED BY <2>2, <2>3, FS_EmptySet
<1>8. Target' = IF o \in dropbuf' THEN Target \ {o} ELSE Target
  BY <1>1, <1>2, StoreFacts DEF Target
<1>9. Operation'
  <2>1. \A c \in DOMAIN writes : writes[c] \in Target'
    BY <1>7, <1>8 DEF StoreInv, Operation, Coming
  <2> QED BY <2>1 DEF StoreInv, Operation
<1>10. (\A c \in Owned \ Stale : ref[c] \in Target)' /\ rel' \in Target'
  <2>1. \A c \in Owned' \ Stale' : ref[c] \in Target /\ (o \in dropbuf' => ref[c] # o)
    BY <1>2, <1>7 DEF StoreInv, Holding
  <2>2. rel' \in Target /\ (o \in dropbuf' => rel' # o)
    BY <1>7 DEF StoreInv, Target
  <2> QED BY <1>8, <2>1, <2>2
<1>11. Places'
  <2>1. \A p \in Held : rc'[p] = 0 => p \in dropbuf'
    <3> SUFFICES ASSUME NEW p \in Held, rc'[p] = 0 PROVE p \in dropbuf'
      OBVIOUS
    <3>1. CASE p = o
      BY <1>1, <1>2, <3>1 DEF StoreInv, StoreTypes
    <3>2. CASE p # o
      BY <1>1, <1>2, <3>2, StoreFacts DEF StoreInv, StoreTypes, Places
    <3> QED BY <3>1, <3>2
  <2>2. drop # NULL => rc'[drop] = 0
    BY <1>1, <1>2 DEF StoreInv, StoreTypes, Places, CallStack
  <2> QED BY <1>1, <1>2, <2>1, <2>2 DEF StoreInv, Places
<1>12. Typed'
  BY <1>2, TypedSame DEF StoreInv
<1> QED BY <1>3, <1>6, <1>9, <1>10, <1>11, <1>12 DEF StoreInv

\* The release that follows ReleaseElement.
LEMMA StoreReleaseOldStep ==
  ASSUME ~Collector, StoreInv, ReleaseOld, UNCHANGED <<writes, owed>>
  PROVE  StoreInv'
<1> USE DEF traversal
<1>1. PICK o : o = rel
  OBVIOUS
<1>2. /\ o # NULL /\ ~draining /\ gc = "off" /\ rel' = NULL /\ drop = NULL
      /\ ReleaseLast(o) \/ ReleaseShared(o)
      /\ UNCHANGED <<alloc, ref, drop, todo, dropped, traversal, gbuf>>
      /\ draining' \in BOOLEAN /\ left' \in Int
  <2>1. draining' \in BOOLEAN /\ left' \in Int
    <3>1. (draining' = TRUE /\ left' = FREE_BUDGET) \/ (draining' = draining /\ left' = left)
      BY DEF ReleaseOld, StartDrain
    <3>2. draining \in BOOLEAN /\ left \in Int /\ FREE_BUDGET \in Int
      BY ConstantsAssumption DEF StoreInv, StoreTypes
    <3> QED BY <3>1, <3>2
  <2> QED BY <1>1, <2>1 DEF ReleaseOld, StoreInv, CallStack
<1>3. o \in Held \ dropbuf
  BY <1>1, <1>2 DEF StoreInv, Target
<1>4. rc[o] >= 1
  BY <1>1, <1>3, StoreCount
<1>5. Owned' = Owned \ {} /\ DropCells' = DropCells
  BY <1>2 DEF Owned, Held, DropCells
<1>6. CallStack'
  <2>1. gc' = "off" /\ roots' = roots
    BY <1>2 DEF ReleaseLast, ReleaseShared
  <2> QED BY <1>2, <2>1 DEF StoreInv, StoreTypes, CallStack
<1>7. \A p \in Held : Cardinality(Holding(p) \ {}) + (IF rel' = p THEN 1 ELSE 0)
                    = Cardinality(Holding(p)) + (IF rel = p THEN 1 ELSE 0)
                    - (IF p = o THEN 1 ELSE 0)
  <2> TAKE p \in Held
  <2>1. Holding(p) \ {} = Holding(p) /\ Cardinality(Holding(p)) \in Nat /\ rel' # p
    BY <1>2, StoreFacts, StoreCount
  <2> QED BY <1>1, <2>1
<1> QED BY <1>2, <1>3, <1>4, <1>5, <1>6, <1>7, StoreReleaseStep

\* A drop function of a cascade that an element's release has started.
LEMMA StoreDropFieldStep ==
  ASSUME ~Collector, StoreInv, NEW s \in todo, DropField(s), UNCHANGED <<writes, owed>>
  PROVE  StoreInv'
<1> USE DEF traversal, program
<1>1. PICK c, k : c = <<drop, s>> /\ k = ref[c]
  OBVIOUS
<1>2. /\ drop # NULL /\ gc = "off" /\ todo' = todo \ {s} /\ drop \in Obj /\ s \in Slot
      /\ \/ k = NULL /\ UNCHANGED <<header, roots, gc, dropqueue>>
         \/ k # NULL /\ (ReleaseLast(k) \/ ReleaseShared(k))
      /\ rel = NULL /\ draining
      /\ UNCHANGED <<alloc, ref, pc, rel, draining, left, drop, dropped, traversal, gbuf,
                     writes, owed>>
  BY <1>1 DEF DropField, StoreInv, StoreTypes, CallStack
<1>3. drop \notin Held /\ c \in DropCells /\ DropCells' = DropCells \ {c}
      /\ c \notin Local /\ c \notin Held \X Slot
  <2>1. drop \notin Held
    BY <1>2, StoreFacts DEF StoreInv, CallStack
  <2> QED BY <1>1, <1>2, <2>1, ConstantsAssumption DEF DropCells
<1>4. Held' = Held /\ Owned' = Owned \ {c} /\ c \in Owned \ Stale /\ c \in Cell
  BY <1>2, <1>3, StoreFacts DEF Held, Owned
<1>5. k \in Target /\ CallStack'
  <2>1. gc' = "off" /\ roots' = roots
    BY <1>2 DEF ReleaseLast, ReleaseShared
  <2>2. CallStack'
    BY <1>2, <2>1 DEF StoreInv, StoreTypes, CallStack
  <2> QED BY <1>1, <1>4, <2>2 DEF StoreInv
<1>6. CASE k = NULL
  <2>1. UNCHANGED <<rc, color, buffered, roots, gc, dropbuf, dropcap>>
    BY <1>2, <1>6 DEF header, dropqueue
  <2>2. StoreTypes' /\ Target' = Target /\ Purple' = Purple /\ Stale' = Stale
    BY <1>2, <1>4, <2>1 DEF StoreInv, StoreTypes, Target, Purple, Stale
  <2>3. Counted' = Owned'
    BY <2>2 DEF StoreTypes, Counted, Held
  <2>4. RcExactWithArrays'
    <3>1. \A p \in Held : Holding(p)' = Holding(p) /\ Coming(p)' = Coming(p)
      BY <1>1, <1>2, <1>4, <1>6, <2>2, StoreFacts DEF Holding, Coming
    <3>2. \A p \in Held : rc'[p] = Cardinality(Holding(p)') + Cardinality(Coming(p)')
                                 + (IF rel' = p THEN 1 ELSE 0)
      BY <1>2, <2>1, <3>1, StoreCount
    <3> QED BY <1>4, <2>3, <3>2 DEF RcExactWithArrays, Holding, Coming, Stale
  <2>5. Places' /\ Operation'
    BY <1>2, <1>4, <2>1, <2>2 DEF StoreInv, Places, Operation
  <2>6. (\A d \in Owned \ Stale : ref[d] \in Target)' /\ rel' \in Target'
    BY <1>2, <1>4, <2>2 DEF StoreInv
  <2>7. Typed'
    BY <1>2, <1>4, TypedSame DEF StoreInv
  <2> QED BY <1>5, <2>2, <2>4, <2>5, <2>6, <2>7 DEF StoreInv
<1>7. CASE k # NULL
  <2>1. k \in Held \ dropbuf /\ c \in Holding(k)
    BY <1>1, <1>4, <1>5, <1>7 DEF Target, Holding
  <2>2. rc[k] >= 1
    <3>1. Cardinality(Holding(k)) # 0
      BY <2>1, StoreCount, FS_EmptySet
    <3> QED BY <2>1, <3>1, StoreCount
  <2>3. \A p \in Held : Cardinality(Holding(p) \ {c}) + (IF rel' = p THEN 1 ELSE 0)
                      = Cardinality(Holding(p)) + (IF rel = p THEN 1 ELSE 0)
                      - (IF p = k THEN 1 ELSE 0)
    <3> TAKE p \in Held
    <3>1. CASE p = k
      <4>1. Cardinality(Holding(p) \ {c}) = Cardinality(Holding(p)) - 1
        BY <2>1, <3>1, StoreCount, FS_RemoveElement
      <4> QED BY <1>2, <3>1, <4>1, StoreCount
    <3>2. CASE p # k
      <4>1. Holding(p) \ {c} = Holding(p)
        BY <1>1, <3>2 DEF Holding
      <4>2. Cardinality(Holding(p) \ {c}) = Cardinality(Holding(p))
            /\ Cardinality(Holding(p)) \in Nat
        BY <4>1, StoreCount
      <4> QED BY <1>2, <3>2, <4>2
    <3> QED BY <3>1, <3>2
  <2>4. draining' \in BOOLEAN /\ left' \in Int
    BY <1>2 DEF StoreInv, StoreTypes
  <2>5. rel' \in {rel, NULL} /\ todo' \in SUBSET todo /\ DropCells' \subseteq DropCells
    BY <1>2, <1>3
  <2> QED BY <1>2, <1>4, <1>5, <1>7, <2>1, <2>2, <2>3, <2>4, <2>5, StoreReleaseStep
<1> QED BY <1>6, <1>7

\* A queued drop begins: nothing that counts points to the object, so it is not the array.
LEMMA StoreDrainNextStep ==
  ASSUME StoreInv, NEW x \in dropbuf, DrainNext(x), UNCHANGED <<writes, owed>>
  PROVE  StoreInv'
<1> USE DEF traversal, header, program
<1>1. /\ draining /\ drop = NULL /\ gc = "off"
      /\ dropbuf' = dropbuf \ {x} /\ drop' = x /\ todo' = Slot /\ dropped' = dropped \cup {x}
      /\ left' = IF left > 0 THEN left - 1 ELSE left
      /\ UNCHANGED <<alloc, ref, rel, rc, color, buffered, draining, dropcap, roots, gc, batch,
                     pend, cwork, bwork, fwork, gbuf, writes, owed>>
  BY DEF DrainNext
<1>2. x \in Held /\ x \in Obj /\ x # NULL /\ x \in alloc /\ x \notin gbuf
  BY StoreFacts, ConstantsAssumption DEF StoreInv, Places
<1>3. Held' = Held \ {x} /\ Target' = Target /\ x \notin Target
  BY <1>1, <1>2 DEF Held, Target, StoreInv, StoreTypes
<1>4. rc[x] = 0
  <2>1. Holding(x) = {} /\ Coming(x) = {} /\ rel # x
    BY <1>3 DEF StoreInv, Operation, Holding, Coming
  <2> QED BY <1>2, <2>1, StoreCount, FS_EmptySet
<1>5. DropCells = {} /\ DropCells' = Fields(x) /\ Owned' = Owned
  <2>1. DropCells = {} /\ DropCells' = Fields(x)
    BY <1>1, <1>2 DEF DropCells, Fields
  <2>2. Held \X Slot = ((Held \ {x}) \X Slot) \cup Fields(x)
    BY <1>2 DEF Fields
  <2> QED BY <1>3, <2>1, <2>2 DEF Owned
<1>6. StoreTypes'
  BY <1>1, <1>2 DEF StoreInv, StoreTypes
<1>7. CallStack'
  BY <1>1, <1>2 DEF StoreInv, StoreTypes, CallStack
<1>8. Places'
  <2>1. alloc \cap dropped' = {x}
    BY <1>1, <1>2, ConstantsAssumption DEF StoreInv, StoreTypes, Places
  <2> QED BY <1>1, <1>2, <1>3, <1>4, <2>1 DEF StoreInv, Places, Purple
<1>9. Operation' /\ Typed'
  BY <1>1, <1>3, TypedSame DEF StoreInv, Operation
<1>10. RcExactWithArrays'
  <2>1. Counted' = Owned'
    BY <1>6 DEF StoreTypes, Counted, Held
  <2>2. \A p \in Held : Holding(p)' = Holding(p) /\ Coming(p)' = Coming(p)
    BY <1>1, <1>5 DEF Holding, Coming, Stale
  <2>3. \A p \in Held : rc'[p] = Cardinality(Holding(p)') + Cardinality(Coming(p)')
                               + (IF rel' = p THEN 1 ELSE 0)
    BY <1>1, <2>2, StoreCount
  <2> QED BY <1>3, <2>1, <2>3 DEF RcExactWithArrays, Holding, Coming, Stale
<1>11. (\A c \in Owned \ Stale : ref[c] \in Target)' /\ rel' \in Target'
  BY <1>1, <1>3, <1>5 DEF StoreInv, Stale
<1> QED BY <1>6, <1>7, <1>8, <1>9, <1>10, <1>11 DEF StoreInv

\* A drop ends, or the cascade does.
LEMMA StoreDrainEndStep ==
  ASSUME StoreInv, DropEnd \/ DrainDone, UNCHANGED <<writes, owed>>
  PROVE  StoreInv'
<1> USE DEF traversal, header, program, dropqueue
<1>1. /\ gc = "off" /\ drop' = NULL /\ todo' = {} /\ DropCells = {}
      /\ draining' \in BOOLEAN /\ left' \in Int /\ rel = NULL
      /\ color' \in [Obj -> {"BLACK", "PURPLE"}]
      /\ \A o \in Held : color'[o] = color[o]
      /\ alloc' = alloc \ {drop}
      /\ UNCHANGED <<ref, rel, rc, buffered, dropped, dropbuf, dropcap, roots, gc, batch, pend,
                     cwork, bwork, fwork, gbuf, writes, owed>>
  <2>1. CASE DropEnd
    <3>1. drop \notin Held /\ drop \in Obj
      BY <2>1, StoreFacts DEF DropEnd, StoreInv, CallStack, StoreTypes
    <3>2. rel = NULL /\ DropCells = {}
      BY <2>1 DEF DropEnd, StoreInv, CallStack, DropCells
    <3> QED BY <2>1, <3>1, <3>2, StoreFacts DEF DropEnd, StoreInv, StoreTypes
  <2>2. CASE DrainDone
    <3>1. NULL \notin alloc /\ todo = {} /\ rel = NULL /\ drop = NULL
      BY <2>2, ConstantsAssumption DEF DrainDone, StoreInv, StoreTypes, CallStack
    <3>2. alloc' = alloc \ {drop} /\ DropCells = {}
      BY <2>2, <3>1 DEF DrainDone, DropCells
    <3>3. draining' \in BOOLEAN /\ left' \in Int
      <4>1. draining' = FALSE /\ left' = 0
        BY <2>2 DEF DrainDone
      <4>2. draining' \in BOOLEAN
        BY <4>1, Zenon
      <4>3. left' \in Int
        BY <4>1
      <4> QED BY <4>2, <4>3
    <3> QED BY <2>2, <3>1, <3>2, <3>3 DEF DrainDone, StoreInv, StoreTypes
  <2> QED BY <2>1, <2>2
<1>2. drop \notin Held /\ alloc \cap dropped \subseteq {drop}
  BY StoreFacts DEF StoreInv, CallStack, Places
<1>3. Held' = Held /\ Target' = Target /\ Stale' = Stale /\ Held \cap Purple' = Held \cap Purple
  <2>1. Held' = Held
    BY <1>1, <1>2 DEF Held
  <2> QED BY <1>1, <2>1, StoreFacts DEF Target, Stale, Purple
<1>4. Owned' = Owned
  <2>1. DropCells' = {}
    BY <1>1 DEF DropCells
  <2> QED BY <1>1, <1>3, <2>1 DEF Owned
<1>5. StoreTypes' /\ CallStack'
  BY <1>1, StoreFacts DEF StoreInv, StoreTypes, CallStack
<1>6. Places' /\ Operation' /\ Typed'
  <2>1. Places'
    <3>1. alloc' \cap dropped' = {} /\ drop' = NULL
      BY <1>1, <1>2
    <3>2. drop \notin gbuf
      BY ConstantsAssumption DEF StoreInv, StoreTypes, Places, CallStack
    <3>3. gbuf' \subseteq alloc' /\ dropped' \cap gbuf' = {}
      BY <1>1, <3>2 DEF StoreInv, Places
    <3> QED BY <1>1, <1>3, <3>1, <3>3 DEF StoreInv, Places
  <2> QED BY <1>1, <1>3, <2>1, TypedSame DEF StoreInv, Operation
<1>7. RcExactWithArrays'
  <2>1. Counted' = Owned'
    BY <1>5 DEF StoreTypes, Counted, Held
  <2>2. \A p \in Held : Holding(p)' = Holding(p) /\ Coming(p)' = Coming(p)
    BY <1>1, <1>3, <1>4 DEF Holding, Coming
  <2>3. \A p \in Held : rc'[p] = Cardinality(Holding(p)') + Cardinality(Coming(p)')
                               + (IF rel' = p THEN 1 ELSE 0)
    BY <1>1, <2>2, StoreCount
  <2> QED BY <1>3, <2>1, <2>3 DEF RcExactWithArrays, Holding, Coming, Stale
<1>8. (\A c \in Owned \ Stale : ref[c] \in Target)' /\ rel' \in Target'
  BY <1>1, <1>3, <1>4 DEF StoreInv
<1> QED BY <1>5, <1>6, <1>7, <1>8 DEF StoreInv

\* The new elements take the places of the old ones: what was on its way is in its slot.
LEMMA WriteStep ==
  ASSUME StoreInv, WriteElements
  PROVE  IInv' /\ Whereabouts' /\ Typed' /\ Ending'
<1> USE DEF traversal, header, program, cascade, dropqueue
<1>1. /\ owed = {} /\ rel = NULL /\ drop = NULL /\ ~draining /\ pc' = "run"
      /\ ref' = [c \in Cell |-> IF c \in DOMAIN writes THEN writes[c] ELSE ref[c]]
      /\ UNCHANGED <<alloc, rel, rc, color, buffered, draining, left, drop, todo, dropped,
                     dropbuf, dropcap, roots, gc, batch, pend, cwork, bwork, fwork, gbuf>>
  BY DEF WriteElements, Idle, StoreInv, CallStack
<1>2. Held' = Held /\ DropCells' = DropCells /\ Owned' = Owned /\ Target' = Target
      /\ Stale = DOMAIN writes
  BY <1>1 DEF Held, DropCells, Owned, Target, Stale
<1>3. StoreTypes' /\ CallStack' /\ Places'
  <2>1. \A c \in DOMAIN writes : writes[c] \in Obj \cup {NULL}
    BY StoreFacts DEF StoreInv, Operation, Target
  <2>2. ref' \in [Cell -> Obj \cup {NULL}]
    BY <1>1, <2>1 DEF StoreInv, StoreTypes
  <2>3. Purple' = Purple
    BY <1>1 DEF Purple
  <2> QED BY <1>1, <1>2, <2>2, <2>3 DEF StoreInv, StoreTypes, CallStack, Places
<1>4. Placement' /\ Whereabouts' /\ MarkPhase' /\ ScanPhase' /\ CollectPhase'
  BY <1>3, StoreToHeap, PTL
<1>5. TypeOK'
  BY <1>1, <1>3, StoreFacts DEF StoreTypes, TypeOK
<1>6. Counted' = Owned' /\ Counted' \subseteq Cell
  BY <1>2, <1>3, StoreFacts DEF StoreTypes, Counted, Held
<1>7. Ownership'
  <2>1. \A c \in Owned : ref'[c] \in Target
    BY <1>1, <1>2, StoreFacts DEF StoreInv, Operation
  <2> QED BY <1>1, <1>2, <1>6, <2>1 DEF StoreInv, Ownership
<1>8. RcExact'
  <2> SUFFICES ASSUME NEW o \in Held
               PROVE  rc'[o] = Cardinality(Refs(o)') + (IF rel' = o THEN 1 ELSE 0)
    BY <1>2 DEF RcExact
  <2>1. Refs(o)' = Holding(o) \cup Coming(o)
    BY <1>1, <1>2, <1>6, StoreFacts DEF Refs, Holding, Coming
  <2>2. Holding(o) \cap Coming(o) = {}
    BY <1>2 DEF Holding, Coming
  <2>3. Cardinality(Refs(o)') = Cardinality(Holding(o)) + Cardinality(Coming(o))
    BY <2>1, <2>2, StoreCount, CardPlus
  <2> QED BY <1>1, <2>3, StoreCount
<1>9. Typed'
  BY <1>1, <1>2, StoreFacts DEF StoreInv, Operation, Typed, Cell
<1>10. Ending'
  BY <1>1 DEF Ending
<1> QED BY <1>3, <1>4, <1>5, <1>7, <1>8, <1>9, <1>10 DEF IInv

-----------------------------------------------------------------------------
(* Every step                                                               *)

\* The operations that touch no array element are those of RcHeap.
LEMMA HeapStep ==
  ASSUME ~Collector, pc # "store", IInvArrays,
         MutateArrays \/ Runtime \/ UNCHANGED vars, UNCHANGED <<writes, owed>>
  PROVE  IInvArrays'
<1>1. IInv /\ Bookkeeping /\ QueueKept /\ writes' = NoWrites /\ owed' = {}
  BY DEF IInvArrays, Bookkeeping, QueueKept
<1>2. [Next]_vars
  BY DEF MutateArrays, Mutate, Next
<1>3. IInv' /\ Bookkeeping'
  BY <1>1, <1>2, NextIInv, NextBookkeeping
<1>4. pc' # "store"
  BY <1>3 DEF IInv, TypeOK
<1> QED BY <1>1, <1>3, <1>4 DEF IInvArrays, Bookkeeping

\* During an array operation the runtime releases and drops, and does nothing else.
LEMMA StoreStepRuntime ==
  ASSUME ~Collector, pc = "store", StoreInv,
         MutateArrays \/ Runtime \/ UNCHANGED vars, UNCHANGED <<writes, owed>>
  PROVE  StoreInv' /\ pc' = "store"
<1> USE DEF program, cascade, dropqueue, traversal, header
<1>0. gc = "off"
  BY DEF StoreInv, StoreTypes
<1>1. ~MutateArrays
  BY DEF MutateArrays, CopyLocal, GetField, PutField, PutNull, Release, Store, BeginNew, Exit,
     Running
<1>2. ~CollectStep
  <2>1. pend = {} /\ cwork = {} /\ bwork = {}
    BY DEF StoreInv, StoreTypes
  <2> QED BY <1>0, <2>1 DEF CollectStep, Pass1, NextPass, Compact
<1>3. ~PumpGbuf /\ ~CollectCycles /\ ~Flush /\ ~Done /\ ~(\E v \in Local, o \in Obj : Make(v, o))
  BY DEF PumpGbuf, CollectCycles, Flush, Done, Make
<1>4. ASSUME ReleaseOld PROVE StoreInv' /\ pc' = "store"
  BY <1>4, StoreReleaseOldStep DEF ReleaseOld
<1>5. ASSUME NEW x \in dropbuf, DrainNext(x) PROVE StoreInv' /\ pc' = "store"
  BY <1>5, StoreDrainNextStep DEF DrainNext
<1>6. ASSUME NEW s \in todo, DropField(s) PROVE StoreInv' /\ pc' = "store"
  BY <1>6, StoreDropFieldStep DEF DropField
<1>7. ASSUME DropEnd \/ DrainDone PROVE StoreInv' /\ pc' = "store"
  BY <1>7, StoreDrainEndStep DEF DropEnd, DrainDone
<1>8. CASE UNCHANGED vars
  BY <1>8 DEF vars, StoreInv, StoreTypes, CallStack, Places, Operation, Typed, RcExactWithArrays,
     Owned, Stale, Target, Held, DropCells, Purple, Counted
<1> QED BY <1>1, <1>2, <1>3, <1>4, <1>5, <1>6, <1>7, <1>8 DEF Runtime

\* What aastore and arraycopy are about to write is live.
LEMMA BeginArrayStep ==
  ASSUME ~Collector, IInvArrays, NEW w \in Local, NEW v \in Local,
         \/ \E s \in Slot : AAStore(w, s, v)
         \/ \E i, j \in Slot, len \in 1 .. Cardinality(Slot) : ArrayCopy(w, v, i, j, len)
  PROVE  IInvArrays'
<1>1. /\ IInv /\ Whereabouts /\ Typed /\ Running /\ pc = "run"
      /\ \A u \in Local, s \in Slot : ref[u] # NULL => ref[<<ref[u], s>>] \in Target
      /\ \A u \in Local : ref[u] \in Target
  <2>1. Running /\ pc = "run"
    <3>1. \A ws : BeginWrites(ws) => Running
      BY DEF BeginWrites
    <3>2. Running
      BY <3>1, Zenon DEF AAStore, ArrayCopy
    <3> QED BY <3>2 DEF Running
  <2> QED BY <2>1, Readable DEF IInvArrays
<1>2. Arrays \subseteq Obj /\ NULL \notin Arrays /\ Slot \subseteq Nat
  BY ArraysAssumption, ConstantsAssumption
<1>3. ASSUME NEW s \in Slot, AAStore(w, s, v) PROVE IInvArrays'
  <2>1. PICK ws : ws = [c \in {<<ref[w], s>>} |-> ref[v]]
    OBVIOUS
  <2>2. BeginWrites(ws) /\ ref[w] \in Arrays
    BY <1>3, <2>1 DEF AAStore
  <2>3. DOMAIN ws \subseteq Fields(ref[w]) /\ \A c \in DOMAIN ws : ws[c] \in Target
    BY <1>1, <2>1 DEF Fields
  <2>4. pc' = "store"
    BY <2>2 DEF BeginWrites
  <2> QED BY <1>1, <1>2, <2>2, <2>3, <2>4, BeginStep DEF IInvArrays
<1>4. ASSUME NEW i \in Slot, NEW j \in Slot, NEW len \in 1 .. Cardinality(Slot),
             ArrayCopy(w, v, i, j, len)
      PROVE  IInvArrays'
  <2>1. PICK ws :
          ws = [c \in {ref[v]} \X (j .. j + len - 1) |-> ref[<<ref[w], c[2] - j + i>>]]
    OBVIOUS
  <2>2. /\ BeginWrites(ws) /\ ref[w] \in Arrays /\ ref[v] \in Arrays
        /\ i .. i + len - 1 \subseteq Slot /\ j .. j + len - 1 \subseteq Slot
    BY <1>4, <2>1 DEF ArrayCopy
  <2>3. DOMAIN ws \subseteq Fields(ref[v])
    BY <2>1, <2>2 DEF Fields
  <2>4. \A c \in DOMAIN ws : ws[c] \in Target
    <3> SUFFICES ASSUME NEW c \in DOMAIN ws PROVE ws[c] \in Target
      OBVIOUS
    <3>1. c[2] \in j .. j + len - 1 /\ ws[c] = ref[<<ref[w], c[2] - j + i>>]
      BY <2>1
    <3>2. len \in Int /\ i \in Int /\ j \in Int
      BY <1>2, ConstantsAssumption, FS_CardinalityType
    <3>3. PICK k : k = c[2] - j + i
      OBVIOUS
    <3>4. k \in i .. i + len - 1
      BY <3>1, <3>2, <3>3
    <3> QED BY <1>1, <1>2, <2>2, <3>1, <3>3, <3>4
  <2>5. pc' = "store"
    BY <2>2 DEF BeginWrites
  <2> QED BY <1>1, <1>2, <2>2, <2>3, <2>4, <2>5, BeginStep DEF IInvArrays
<1> QED BY <1>3, <1>4

\* The invariant is inductive.
LEMMA NextIInvArrays ==
  ASSUME ~Collector, IInvArrays, [NextArrays]_arrayvars
  PROVE  IInvArrays'
<1>1. CASE (MutateArrays \/ Runtime \/ UNCHANGED vars) /\ UNCHANGED <<writes, owed>>
  <2>1. CASE pc = "store"
    <3>1. StoreInv' /\ pc' = "store"
      BY <1>1, <2>1, StoreStepRuntime DEF IInvArrays
    <3> QED BY <3>1 DEF IInvArrays
  <2>2. CASE pc # "store"
    BY <1>1, <2>2, HeapStep
  <2> QED BY <2>1, <2>2
<1>2. ASSUME NEW w \in Local, NEW v \in Local,
             \/ \E s \in Slot : AAStore(w, s, v)
             \/ \E i, j \in Slot, len \in 1 .. Cardinality(Slot) : ArrayCopy(w, v, i, j, len)
      PROVE  IInvArrays'
  BY <1>2, BeginArrayStep
<1>3. ASSUME NEW c \in owed, ReleaseElement(c) PROVE IInvArrays'
  <2>1. pc = "store" /\ pc' = "store"
    BY <1>3 DEF ReleaseElement
  <2> QED BY <1>3, <2>1, ReleaseElementStep DEF IInvArrays
<1>4. ASSUME WriteElements PROVE IInvArrays'
  <2>1. pc = "store" /\ pc' = "run" /\ writes' = NoWrites /\ owed' = {}
    BY <1>4 DEF WriteElements
  <2>2. IInv' /\ Whereabouts' /\ Typed' /\ Ending'
    BY <1>4, <2>1, WriteStep DEF IInvArrays
  <2> QED BY <2>1, <2>2 DEF IInvArrays
<1> QED BY <1>1, <1>2, <1>3, <1>4 DEF NextArrays, arrayvars

-----------------------------------------------------------------------------
(* The theorems                                                             *)

\* The inductive invariant holds in every state of a program without the collector.
THEOREM ArraysInvariance == ASSUME ~Collector PROVE SpecArrays => []IInvArrays
<1>1. InitArrays => IInvArrays
  <2> SUFFICES ASSUME InitArrays PROVE IInvArrays
    OBVIOUS
  <2>1. IInv /\ Bookkeeping /\ pc = "run" /\ writes = NoWrites /\ owed = {}
    BY InitIInv, InitBookkeeping DEF InitArrays, Init
  <2> QED BY <2>1 DEF IInvArrays, Bookkeeping
<1>2. IInvArrays /\ [NextArrays]_arrayvars => IInvArrays'
  BY NextIInvArrays
<1> QED BY <1>1, <1>2, PTL DEF SpecArrays

\* jrt_aastore and jrt_arraycopy keep every counter exact, in the middle of the operation
\* and of the cascades its releases start.
THEOREM ExactCountersOfArrays == ASSUME ~Collector PROVE SpecArrays => []RcExactWithArrays
<1>1. IInvArrays => RcExactWithArrays
  <2> SUFFICES ASSUME IInvArrays, pc # "store" PROVE RcExactWithArrays
    BY DEF IInvArrays, StoreInv
  <2>1. IInv /\ DOMAIN writes = {}
    BY DEF IInvArrays, NoWrites
  <2>2. \A o : {c \in DOMAIN writes : writes[c] = o} = {}
               /\ {c \in Counted \ (DOMAIN writes \ owed) : ref[c] = o} = Refs(o)
    BY <2>1 DEF Refs
  <2>3. \A o \in Held : rc[o] = Cardinality(Refs(o)) + Cardinality({})
                              + (IF rel = o THEN 1 ELSE 0)
    BY <2>1, RefsFinite, FS_EmptySet DEF IInv, RcExact
  <2> QED BY <2>2, <2>3 DEF RcExactWithArrays
<1> QED BY <1>1, ArraysInvariance, PTL

\* No local refers to an object that has been freed: the releases of an array operation
\* only ever kill what nobody holds.
THEOREM ArraysKeepLocalsAlive == ASSUME ~Collector PROVE SpecArrays => []CollectedIsUnreachable
<1>1. IInvArrays => CollectedIsUnreachable
  <2> SUFFICES ASSUME IInvArrays, NEW v \in Local
               PROVE  ref[v] \in (alloc \ (fwork \cup gbuf)) \cup {NULL}
    BY DEF CollectedIsUnreachable
  <2>1. ref[v] \in Target \cup fwork
    <3>1. CASE pc = "store"
      <4>1. v \in Owned \ Stale
        BY <3>1, StoreFacts DEF IInvArrays, Owned
      <4> QED BY <3>1, <4>1 DEF IInvArrays, StoreInv
    <3>2. CASE pc # "store"
      BY <3>2 DEF IInvArrays, IInv, Ownership, Owned
    <3> QED BY <3>1, <3>2
  <2>2. fwork = {}
    <3>1. CASE pc = "store"
      BY <3>1 DEF IInvArrays, StoreInv, StoreTypes
    <3>2. CASE pc # "store"
      BY <3>2 DEF IInvArrays, IInv, Placement, CallStack
    <3> QED BY <3>1, <3>2
  <2> QED BY <2>1, <2>2 DEF Target, Held
<1> QED BY <1>1, ArraysInvariance, PTL

\* The heap of a program with arrays is empty at exit, if its types admit no cycle.
THEOREM ArraysLeaveNothing ==
  ASSUME ~Collector, Acyclic PROVE SpecArrays => []ZeroLiveAtExit
<1>1. IInvArrays => ZeroLiveAtExit
  <2> SUFFICES ASSUME IInvArrays, pc = "done" PROVE ZeroLiveAtExit
    BY DEF ZeroLiveAtExit
  <2>1. IInv /\ Bookkeeping
    BY DEF IInvArrays, Bookkeeping
  <2> QED BY <2>1, AcyclicEntered, NothingLeft DEF LeakInv, Bookkeeping
<1> QED BY <1>1, ArraysInvariance, PTL

-----------------------------------------------------------------------------
(* Refinement: array operations take effect at once                         *)

\* Outside of an array operation the program sees the cells as they are.
LEMMA SeenOutside ==
  ASSUME writes = NoWrites, ref \in [Cell -> Obj \cup {NULL}]
  PROVE  Seen = ref
BY DEF Seen, NoWrites

\* A step that keeps the operation and the cells is invisible.
LEMMA SeenSame ==
  ASSUME UNCHANGED <<ref, writes>>
  PROVE  Seen' = Seen
BY DEF Seen

\* Where the program sees what there is, a step of the abstract heap is one for arrays.
LEMMA SameHeap ==
  ASSUME Seen = ref, Seen' = ref', Heap!Next
  PROVE  ArrayHeap!Next
<1>1. /\ Heap!Nameable = ArrayHeap!Nameable /\ Heap!Readable = ArrayHeap!Readable
      /\ Heap!Cell = ArrayHeap!Cell /\ \A o : Heap!Fields(o) = ArrayHeap!Fields(o)
  BY DEF Heap!Nameable, ArrayHeap!Nameable, Heap!Readable, ArrayHeap!Readable,
     Heap!Cell, ArrayHeap!Cell, Heap!Fields, ArrayHeap!Fields
<1>2. ASSUME NEW v \in Local, NEW o \in Obj, Heap!Allocate(v, o) PROVE ArrayHeap!Next
  BY <1>1, <1>2 DEF Heap!Allocate, ArrayHeap!Allocate, ArrayHeap!Next
<1>3. ASSUME NEW c \in Heap!Nameable, NEW x \in Heap!Readable, Heap!Assign(c, x)
      PROVE  ArrayHeap!Next
  BY <1>1, <1>3 DEF Heap!Assign, ArrayHeap!Assign, ArrayHeap!Next
<1>4. ASSUME NEW F \in SUBSET alloc, Heap!Reclaim(F) PROVE ArrayHeap!Next
  BY <1>4 DEF Heap!Reclaim, ArrayHeap!Reclaim, Heap!Unreachable, ArrayHeap!Unreachable,
     Heap!ClosedUnderReach, ArrayHeap!ClosedUnderReach, ArrayHeap!Next
<1>5. ASSUME NEW v \in Local, NEW cs \in SUBSET Heap!Fields(ref[v]), ref[v] # NULL,
             NEW xs \in [cs -> Heap!Readable], Heap!Copy(xs)
      PROVE  ArrayHeap!Next
  <2>1. ArrayHeap!Copy(xs) /\ cs \in SUBSET ArrayHeap!Fields(Seen[v]) /\ Seen[v] # NULL
        /\ xs \in [cs -> ArrayHeap!Readable]
    BY <1>1, <1>5 DEF Heap!Copy, ArrayHeap!Copy
  <2> QED BY <2>1 DEF ArrayHeap!Next
<1> QED BY <1>2, <1>3, <1>4, <1>5 DEF Heap!Next

\* An object freed in the middle of an array operation is unreachable once the operation
\* has returned: what the program will see is closed under reach without it.
LEMMA StoreReclaim ==
  ASSUME StoreInv, NEW F \in SUBSET alloc, F \cap Held = {},
         alloc' = alloc \ F, UNCHANGED <<ref, writes>>
  PROVE  ArrayHeap!Next
<1>1. \A c \in Local \cup (Held \X Slot) : c \in Cell /\ Seen[c] \in Held \cup {NULL}
  <2> SUFFICES ASSUME NEW c \in Local \cup (Held \X Slot)
               PROVE  c \in Cell /\ Seen[c] \in Held \cup {NULL}
    OBVIOUS
  <2>1. c \in Owned /\ c \in Cell
    BY StoreFacts DEF Owned
  <2>2. CASE c \in DOMAIN writes
    BY <2>1, <2>2 DEF Seen, StoreInv, Operation, Target
  <2>3. CASE c \notin DOMAIN writes
    BY <2>1, <2>3, StoreFacts DEF Seen, StoreInv, Target
  <2> QED BY <2>1, <2>2, <2>3
<1>2. ArrayHeap!ClosedUnderReach(Held)
  BY <1>1 DEF ArrayHeap!ClosedUnderReach
<1>3. ArrayHeap!Reclaim(F)
  BY <1>2, SeenSame DEF ArrayHeap!Reclaim, ArrayHeap!Unreachable, Held
<1> QED BY <1>3 DEF ArrayHeap!Next

\* The steps of the runtime during an array operation, seen from the abstract heap.
LEMMA StoreStepRefines ==
  ASSUME pc = "store", StoreInv, MutateArrays \/ Runtime, UNCHANGED <<writes, owed>>
  PROVE  ArrayHeap!Next \/ UNCHANGED <<alloc, Seen>>
<1> USE DEF program
<1>0. gc = "off"
  BY DEF StoreInv, StoreTypes
<1>1. ~MutateArrays
  BY DEF MutateArrays, CopyLocal, GetField, PutField, PutNull, Release, Store, BeginNew, Exit,
     Running
<1>2. ~CollectStep
  <2>1. pend = {} /\ cwork = {} /\ bwork = {}
    BY DEF StoreInv, StoreTypes
  <2> QED BY <1>0, <2>1 DEF CollectStep, Pass1, NextPass, Compact
<1>3. ~PumpGbuf /\ ~CollectCycles /\ ~Flush /\ ~Done /\ ~(\E v \in Local, o \in Obj : Make(v, o))
  BY DEF PumpGbuf, CollectCycles, Flush, Done, Make
<1>4. ASSUME \/ ReleaseOld \/ DrainDone
             \/ \E x \in dropbuf : DrainNext(x)
             \/ \E s \in todo : DropField(s)
      PROVE  UNCHANGED <<alloc, Seen>>
  <2>1. UNCHANGED <<alloc, ref>>
    BY <1>4 DEF ReleaseOld, DrainDone, DrainNext, DropField
  <2> QED BY <2>1, SeenSame
<1>5. ASSUME DropEnd PROVE ArrayHeap!Next \/ UNCHANGED <<alloc, Seen>>
  <2>1. ref' = ref /\ (alloc' = alloc \/ alloc' = alloc \ {drop})
    BY <1>5 DEF DropEnd
  <2>2. {drop} \in SUBSET alloc /\ {drop} \cap Held = {}
    BY <1>5 DEF DropEnd, StoreInv, CallStack, Held
  <2> QED BY <2>1, <2>2, StoreReclaim, SeenSame
<1> QED BY <1>1, <1>2, <1>3, <1>4, <1>5 DEF Runtime

\* Outside of array operations RcArrays takes the steps of RcHeap.
LEMMA HeapStepRefines ==
  ASSUME IInvArrays, pc # "store", MutateArrays \/ Runtime, UNCHANGED <<writes, owed>>,
         ref' \in [Cell -> Obj \cup {NULL}]
  PROVE  ArrayHeap!Next \/ UNCHANGED <<alloc, Seen>>
<1>1. IInv /\ writes = NoWrites /\ writes' = NoWrites /\ ref \in [Cell -> Obj \cup {NULL}]
  BY DEF IInvArrays, IInv, TypeOK
<1>2. Seen = ref /\ Seen' = ref'
  BY <1>1, SeenOutside DEF Seen, NoWrites
<1>3. MutateArrays => Mutate
  BY DEF MutateArrays, Mutate
<1>4. Heap!Next \/ UNCHANGED <<alloc, ref>>
  BY <1>1, <1>3, MutateRefines, RuntimeRefines
<1> QED BY <1>2, <1>4, SameHeap

\* aastore and arraycopy assign all their elements when they begin.
LEMMA BeginRefines ==
  ASSUME IInvArrays, NEW ws, BeginWrites(ws), NEW v \in Local, ref[v] # NULL,
         DOMAIN ws \subseteq Fields(ref[v]), ws = [c \in DOMAIN ws |-> ws[c]],
         \A c \in DOMAIN ws :
           \/ ws[c] = NULL
           \/ \E w \in Local : ws[c] = ref[w]
           \/ \E w \in Local, s \in Slot : ref[w] # NULL /\ ws[c] = ref[<<ref[w], s>>]
  PROVE  ArrayHeap!Next
<1>1. pc # "store"
  BY DEF BeginWrites, Running
<1>2. IInv /\ writes = NoWrites /\ Seen = ref
  BY <1>1, SeenOutside DEF IInvArrays, IInv, TypeOK
<1>3. writes' = ws /\ UNCHANGED <<alloc, ref>>
  BY DEF BeginWrites
<1>4. /\ Local \subseteq ArrayHeap!Nameable
      /\ \A w \in Local, s \in Slot : ref[w] # NULL => <<ref[w], s>> \in ArrayHeap!Nameable
  BY <1>2 DEF ArrayHeap!Nameable, ArrayHeap!Fields
<1>5. \A c \in DOMAIN ws : ws[c] \in ArrayHeap!Readable
  BY <1>2, <1>4 DEF ArrayHeap!Readable
<1>6. ArrayHeap!Copy(ws)
  BY <1>2, <1>3 DEF ArrayHeap!Copy, ArrayHeap!Cell, Cell, Seen
<1>7. DOMAIN ws \in SUBSET ArrayHeap!Fields(Seen[v]) /\ Seen[v] # NULL
      /\ ws \in [DOMAIN ws -> ArrayHeap!Readable]
  BY <1>2, <1>5 DEF Fields, ArrayHeap!Fields
<1> QED BY <1>6, <1>7 DEF ArrayHeap!Next

\* Every array operation takes effect at once, as the program sees it, and the objects its
\* releases and their cascades free are unreachable from then on: without the collector,
\* jrt_aastore and jrt_arraycopy may release an element before they overwrite it.
THEOREM ArraysRefine == ASSUME ~Collector PROVE SpecArrays => ImplementsHeapWithArrays
<1>1. InitArrays => ArrayHeap!Init
  BY DEF InitArrays, Init, ArrayHeap!Init, Seen, NoWrites, Cell, ArrayHeap!Cell
<1>2. IInvArrays /\ IInvArrays' /\ [NextArrays]_arrayvars => [ArrayHeap!Next]_<<alloc, Seen>>
  <2> SUFFICES ASSUME IInvArrays, IInvArrays', [NextArrays]_arrayvars
               PROVE  ArrayHeap!Next \/ UNCHANGED <<alloc, Seen>>
    OBVIOUS
  <2>0. ref' \in [Cell -> Obj \cup {NULL}]
    BY DEF IInvArrays, StoreInv, StoreTypes, IInv, TypeOK
  <2>1. CASE (MutateArrays \/ Runtime) /\ UNCHANGED <<writes, owed>>
    <3>1. CASE pc = "store"
      BY <2>1, <3>1, StoreStepRefines DEF IInvArrays
    <3>2. CASE pc # "store"
      BY <2>0, <2>1, <3>2, HeapStepRefines
    <3> QED BY <3>1, <3>2
  <2>2. ASSUME NEW w \in Local, NEW v \in Local, NEW s \in Slot, AAStore(w, s, v)
        PROVE  ArrayHeap!Next
    <3>1. PICK ws : ws = [c \in {<<ref[w], s>>} |-> ref[v]]
      OBVIOUS
    <3>2. BeginWrites(ws) /\ ref[w] # NULL
      BY <2>2, <3>1, ArraysAssumption, ConstantsAssumption DEF AAStore
    <3>3. DOMAIN ws \subseteq Fields(ref[w])
      BY <3>1 DEF Fields
    <3> QED BY <3>1, <3>2, <3>3, BeginRefines
  <2>3. ASSUME NEW w \in Local, NEW v \in Local, NEW i \in Slot, NEW j \in Slot,
               NEW len \in 1 .. Cardinality(Slot), ArrayCopy(w, v, i, j, len)
        PROVE  ArrayHeap!Next
    <3>1. PICK ws :
            ws = [c \in {ref[v]} \X (j .. j + len - 1) |-> ref[<<ref[w], c[2] - j + i>>]]
      OBVIOUS
    <3>2. /\ BeginWrites(ws) /\ ref[v] # NULL /\ ref[w] # NULL
          /\ i .. i + len - 1 \subseteq Slot /\ j .. j + len - 1 \subseteq Slot
      BY <2>3, <3>1, ArraysAssumption, ConstantsAssumption DEF ArrayCopy
    <3>3. DOMAIN ws \subseteq Fields(ref[v])
      BY <3>1, <3>2 DEF Fields
    <3>4. \A c \in DOMAIN ws : \E s \in Slot : ws[c] = ref[<<ref[w], s>>]
      <4> SUFFICES ASSUME NEW c \in DOMAIN ws PROVE \E s \in Slot : ws[c] = ref[<<ref[w], s>>]
        OBVIOUS
      <4>1. c[2] \in j .. j + len - 1 /\ ws[c] = ref[<<ref[w], c[2] - j + i>>]
        BY <3>1
      <4>2. len \in Int /\ i \in Int /\ j \in Int
        BY ArraysAssumption, ConstantsAssumption, FS_CardinalityType
      <4>3. c[2] - j + i \in i .. i + len - 1
        BY <4>1, <4>2
      <4> QED BY <3>2, <4>1, <4>3
    <3>5. ws = [c \in DOMAIN ws |-> ws[c]]
      BY <3>1
    <3> QED BY <3>2, <3>3, <3>4, <3>5, BeginRefines
  <2>4. ASSUME NEW c \in owed, ReleaseElement(c) PROVE UNCHANGED <<alloc, Seen>>
    BY <2>4, SeenSame DEF ReleaseElement
  <2>5. ASSUME WriteElements PROVE UNCHANGED <<alloc, Seen>>
    BY <2>5 DEF WriteElements, Seen, NoWrites
  <2>6. CASE UNCHANGED arrayvars
    BY <2>6, SeenSame DEF arrayvars, vars, program
  <2> QED BY <2>1, <2>2, <2>3, <2>4, <2>5, <2>6 DEF NextArrays
<1> QED
  BY <1>1, <1>2, ArraysInvariance, PTL DEF SpecArrays, ImplementsHeapWithArrays, ArrayHeap!Spec
=============================================================================
