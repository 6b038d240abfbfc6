---------------------------- MODULE ThreadsProofs ----------------------------
(***************************************************************************)
(* The properties of Threads for any number of threads, objects and cells, *)
(* for programs that access shared cells in synchronized blocks: IInv is   *)
(* inductive, and the properties follow from it.                           *)
(***************************************************************************)
EXTENDS ThreadsInv, FiniteSetTheorems, SequenceTheorems, TLAPS

-----------------------------------------------------------------------------
(* Stacks of drop functions                                                 *)

\* A frame is an object and the fields that are left.
LEMMA FrameType ==
  ASSUME NEW g \in Stacks, NEW t \in Thread, NEW i \in DOMAIN g[t]
  PROVE  g[t][i][1] \in Obj /\ g[t][i][2] \subseteq Slot /\ g[t][i] \in Frame
<1>1. g[t] \in Seq(Frame)
  BY DEF Stacks
<1>2. g[t][i] \in Frame
  BY <1>1, ElementOfSeq, LenProperties
<1> QED BY <1>2 DEF Frame

\* No stack is deeper than there are objects.
LEMMA StackDepth ==
  ASSUME NEW g \in Stacks, DroppedOnce(g), NEW t \in Thread
  PROVE  DOMAIN g[t] \subseteq 1 .. Cardinality(Obj)
<1> DEFINE n == Len(g[t])  h == [i \in 1 .. n |-> g[t][i][1]]
<1>1. g[t] \in Seq(Frame) /\ n \in Nat /\ DOMAIN g[t] = 1 .. n
  BY LenProperties DEF Stacks
<1>2. h \in Injection(1 .. n, Obj)
  <2>1. h \in [1 .. n -> Obj]
    BY <1>1, FrameType
  <2>2. \A i, j \in 1 .. n : h[i] = h[j] => i = j
    BY <1>1 DEF DroppedOnce
  <2> QED BY <2>1, <2>2 DEF Injection, IsInjective
<1> HIDE DEF h, n
<1>3. Cardinality(1 .. n) <= Cardinality(Obj)
  BY <1>2, ThreadsAssumption, FS_Injection
<1>4. Cardinality(1 .. n) = n
  BY <1>1, FS_Interval
<1>5. Cardinality(Obj) \in Nat
  BY ThreadsAssumption, FS_CardinalityType
<1> QED BY <1>1, <1>3, <1>4, <1>5

\* A drop function is called: a frame for x with all its fields.
LEMMA PushFrame ==
  ASSUME NEW g \in Stacks, DroppedOnce(g), NEW t \in Thread, NEW x \in Obj,
         x \notin FrameObjs(g), NEW e \in Stacks, NEW k,
         DOMAIN e[t] = DOMAIN g[t] \cup {k}, k \notin DOMAIN g[t], e[t][k] = <<x, Slot>>,
         \A i \in DOMAIN g[t] : e[t][i] = g[t][i], \A u \in Thread : u # t => e[u] = g[u]
  PROVE  /\ DroppedOnce(e)
         /\ FrameObjs(e) = FrameObjs(g) \cup {x}
         /\ FrameCells(e) = FrameCells(g) \cup ({x} \X Slot)
<1>1. \A u \in Thread : \A i \in DOMAIN e[u] :
        \/ u = t /\ i = k /\ e[u][i][1] = x /\ e[u][i][2] = Slot
        \/ i \in DOMAIN g[u] /\ e[u][i] = g[u][i] /\ g[u][i][1] \in FrameObjs(g)
  BY FrameType DEF FrameObjs
<1>2. /\ t \in Thread /\ k \in DOMAIN e[t] /\ e[t][k][1] = x /\ e[t][k][2] = Slot
      /\ \A u \in Thread : \A i \in DOMAIN g[u] : i \in DOMAIN e[u] /\ e[u][i] = g[u][i]
  OBVIOUS
<1>3. DroppedOnce(e)
  <2> SUFFICES ASSUME NEW u \in Thread, NEW v \in Thread, NEW i \in DOMAIN e[u], NEW j \in DOMAIN e[v],
                      e[u][i][1] = e[v][j][1]
               PROVE  u = v /\ i = j
    BY DEF DroppedOnce
  <2>1. CASE u = t /\ i = k /\ e[u][i][1] = x
    BY <2>1, <1>1
  <2>2. CASE v = t /\ j = k /\ e[v][j][1] = x
    BY <2>2, <1>1
  <2>3. CASE i \in DOMAIN g[u] /\ j \in DOMAIN g[v] /\ e[u][i] = g[u][i] /\ e[v][j] = g[v][j]
    BY <2>3 DEF DroppedOnce
  <2> QED BY <2>1, <2>2, <2>3, <1>1
<1>4. FrameObjs(e) = FrameObjs(g) \cup {x}
  <2>1. FrameObjs(g) \cup {x} \subseteq FrameObjs(e)
    BY <1>2 DEF FrameObjs
  <2>2. FrameObjs(e) \subseteq FrameObjs(g) \cup {x}
    BY <1>1 DEF FrameObjs
  <2> QED BY <2>1, <2>2
<1>5. FrameCells(e) = FrameCells(g) \cup ({x} \X Slot)
  <2>1. FrameCells(g) \subseteq FrameCells(e)
    BY <1>2 DEF FrameCells
  <2>2. {x} \X Slot \subseteq FrameCells(e)
    BY <1>2 DEF FrameCells
  <2>3. FrameCells(e) \subseteq FrameCells(g) \cup ({x} \X Slot)
    BY <1>1 DEF FrameCells
  <2> QED BY <2>1, <2>2, <2>3
<1> QED BY <1>3, <1>4, <1>5

\* The drop function of d releases a field.
LEMMA ShrinkFrame ==
  ASSUME NEW g \in Stacks, DroppedOnce(g), NEW t \in Thread, NEW k \in DOMAIN g[t],
         NEW s \in Slot, NEW d, d = g[t][k][1], NEW e \in Stacks,
         DOMAIN e[t] = DOMAIN g[t], e[t][k][1] = d, e[t][k][2] = g[t][k][2] \ {s},
         \A i \in DOMAIN g[t] : i # k => e[t][i] = g[t][i], \A u \in Thread : u # t => e[u] = g[u]
  PROVE  /\ DroppedOnce(e) /\ d \in FrameObjs(g)
         /\ FrameObjs(e) = FrameObjs(g)
         /\ FrameCells(e) = FrameCells(g) \ {<<d, s>>}
<1>1. \A u \in Thread :
        /\ DOMAIN e[u] = DOMAIN g[u]
        /\ \A i \in DOMAIN g[u] :
             /\ e[u][i][1] = g[u][i][1]
             /\ e[u][i][2] = IF u = t /\ i = k THEN g[u][i][2] \ {s} ELSE g[u][i][2]
  OBVIOUS
<1>2. DroppedOnce(e)
  BY <1>1 DEF DroppedOnce
<1>3. FrameObjs(e) = FrameObjs(g)
  BY <1>1 DEF FrameObjs
<1>4. d \in FrameObjs(g)
  BY FrameType DEF FrameObjs
<1>5. \A u \in Thread : \A i \in DOMAIN g[u] : g[u][i][1] = d => u = t /\ i = k
  BY DEF DroppedOnce
<1>6. FrameCells(e) \subseteq FrameCells(g) \ {<<d, s>>}
  <2> SUFFICES ASSUME NEW c \in FrameCells(e) PROVE c \in FrameCells(g) /\ c # <<d, s>>
    OBVIOUS
  <2>0. c \in Obj \X Slot
        /\ \E u \in Thread : \E i \in DOMAIN e[u] : e[u][i][1] = c[1] /\ c[2] \in e[u][i][2]
    BY DEF FrameCells
  <2>1. PICK u \in Thread : \E i \in DOMAIN e[u] : e[u][i][1] = c[1] /\ c[2] \in e[u][i][2]
    BY <2>0
  <2>2. PICK i \in DOMAIN g[u] : e[u][i][1] = c[1] /\ c[2] \in e[u][i][2]
    BY <2>1, <1>1
  <2>3. g[u][i][1] = c[1] /\ c[2] \in g[u][i][2] /\ ~(u = t /\ i = k /\ c[2] = s)
    BY ONLY <2>2, <1>1
  <2>4. c # <<d, s>>
    BY <2>3, <1>5
  <2> QED BY <2>0, <2>3, <2>4 DEF FrameCells
<1>7. FrameCells(g) \ {<<d, s>>} \subseteq FrameCells(e)
  <2> SUFFICES ASSUME NEW c \in FrameCells(g), c # <<d, s>> PROVE c \in FrameCells(e)
    OBVIOUS
  <2>0. PICK u \in Thread : \E i \in DOMAIN g[u] : g[u][i][1] = c[1] /\ c[2] \in g[u][i][2]
    BY DEF FrameCells
  <2>1. PICK i \in DOMAIN g[u] : g[u][i][1] = c[1] /\ c[2] \in g[u][i][2]
    BY <2>0
  <2>2. c \in Obj \X Slot /\ ~(u = t /\ i = k /\ c[2] = s)
    BY <2>1 DEF FrameCells
  <2>3. i \in DOMAIN e[u] /\ e[u][i][1] = c[1] /\ c[2] \in e[u][i][2]
    BY <1>1, <2>1, <2>2
  <2> QED BY <2>2, <2>3 DEF FrameCells
<1> QED BY <1>2, <1>3, <1>4, <1>6, <1>7

\* The drop function of d has released all fields and returns.
LEMMA PopFrame ==
  ASSUME NEW g \in Stacks, DroppedOnce(g), NEW t \in Thread, NEW k \in DOMAIN g[t],
         g[t][k][2] = {}, NEW d, d = g[t][k][1], NEW e \in Stacks,
         DOMAIN e[t] = DOMAIN g[t] \ {k},
         \A i \in DOMAIN e[t] : e[t][i] = g[t][i], \A u \in Thread : u # t => e[u] = g[u]
  PROVE  /\ DroppedOnce(e) /\ d \in FrameObjs(g)
         /\ FrameObjs(e) = FrameObjs(g) \ {d}
         /\ FrameCells(e) = FrameCells(g)
<1>1. \A u \in Thread : \A i \in DOMAIN e[u] :
        i \in DOMAIN g[u] /\ e[u][i] = g[u][i] /\ ~(u = t /\ i = k)
  OBVIOUS
<1>2. \A u \in Thread : \A i \in DOMAIN g[u] :
        (u = t /\ i = k) \/ (i \in DOMAIN e[u] /\ e[u][i] = g[u][i])
  OBVIOUS
<1>3. DroppedOnce(e)
  BY <1>1 DEF DroppedOnce
<1>4. \A u \in Thread : \A i \in DOMAIN g[u] : g[u][i][1] = d => u = t /\ i = k
  BY DEF DroppedOnce
<1>5. d \in FrameObjs(g)
  BY FrameType DEF FrameObjs
<1>6. FrameObjs(e) = FrameObjs(g) \ {d}
  <2>1. FrameObjs(e) \subseteq FrameObjs(g) \ {d}
    BY <1>1, <1>4 DEF FrameObjs
  <2>2. FrameObjs(g) \ {d} \subseteq FrameObjs(e)
    BY <1>2 DEF FrameObjs
  <2> QED BY <2>1, <2>2
<1>7. FrameCells(e) = FrameCells(g)
  <2>1. FrameCells(e) \subseteq FrameCells(g)
    BY <1>1 DEF FrameCells
  <2>2. FrameCells(g) \subseteq FrameCells(e)
    BY <1>2 DEF FrameCells
  <2> QED BY <2>1, <2>2
<1> QED BY <1>3, <1>5, <1>6, <1>7

-----------------------------------------------------------------------------
(* Cells, references and counts                                             *)

\* Threads, statics and fields are different cells.
LEMMA Sorts ==
  /\ NULL \notin Obj /\ NULL \notin Thread /\ Main \in Thread
  /\ Worker = Thread \ {Main} /\ Worker \subseteq Thread
  /\ Static \subseteq Shared /\ Obj \X Slot \subseteq Shared /\ Shared \subseteq Cell
  /\ Thread \subseteq Cell /\ Thread \cap Shared = {} /\ Static \cap (Obj \X Slot) = {}
  /\ \A o : Fields(o) = {o} \X Slot
BY ThreadsAssumption DEF Thread, Shared, Cell, Fields

\* What counts is finite.
LEMMA CellsFinite == IsFiniteSet(Thread) /\ IsFiniteSet(Cell)
<1>1. IsFiniteSet(Thread)
  BY ThreadsAssumption, FS_Singleton, FS_Union DEF Thread
<1>2. IsFiniteSet(Obj \X Slot)
  BY ThreadsAssumption, FS_Product
<1>3. IsFiniteSet(Shared)
  BY <1>2, ThreadsAssumption, FS_Union DEF Shared
<1> QED BY <1>1, <1>3, FS_Union DEF Cell

LEMMA OwnedAreCells == ASSUME TypeOK PROVE OwnedCells \subseteq Cell /\ Live \subseteq Obj
BY DEF TypeOK, OwnedCells, Live, Cell, Shared, FrameCells

LEMMA RefsFinite ==
  ASSUME TypeOK, NEW o
  PROVE  IsFiniteSet(Refs(o)) /\ Cardinality(Refs(o)) \in Nat
<1>1. Refs(o) \subseteq Cell
  BY OwnedAreCells DEF Refs
<1> QED BY <1>1, CellsFinite, FS_Subset, FS_CardinalityType

LEMMA TokensFinite ==
  ASSUME NEW o
  PROVE  IsFiniteSet(Tokens(o)) /\ Cardinality(Tokens(o)) \in Nat
<1>1. IsFiniteSet(Kind)
  <2>1. IsFiniteSet({"val"}) /\ IsFiniteSet({"old"}) /\ IsFiniteSet({"run"})
    BY FS_Singleton
  <2>2. IsFiniteSet({"val"} \cup {"old"} \cup {"run"})
    BY <2>1, FS_Union
  <2>3. Kind = {"val"} \cup {"old"} \cup {"run"}
    BY DEF Kind
  <2> QED BY <2>2, <2>3
<1>2. IsFiniteSet(Thread \X Kind)
  BY <1>1, CellsFinite, FS_Product
<1>3. Tokens(o) \subseteq Thread \X Kind
  BY DEF Tokens
<1> QED BY <1>2, <1>3, FS_Subset, FS_CardinalityType

\* An object that somebody refers to has a positive count, and one without claims is not
\* referred to.
LEMMA ClaimsLemma ==
  ASSUME TypeOK, NEW o \in Obj
  PROVE  /\ Claims(o) \in Nat
         /\ (Claims(o) = 0) <=> Refs(o) = {} /\ Tokens(o) = {}
<1>1. Cardinality(Refs(o)) = 0 <=> Refs(o) = {}
  BY RefsFinite, FS_EmptySet
<1>2. Cardinality(Tokens(o)) = 0 <=> Tokens(o) = {}
  BY TokensFinite, FS_EmptySet
<1> QED BY <1>1, <1>2, RefsFinite, TokensFinite DEF Claims

\* The cells a store in progress reads and writes are counted cells of live objects.
LEMMA ReachOwned ==
  ASSUME IInv, NEW t \in Thread, NEW c, Reach(t, c)
  PROVE  /\ c \in OwnedCells /\ c \in Cell /\ c \in {t} \cup Shared
         /\ c \in Obj \X Slot => c[1] \in Live
<1> USE Sorts DEF IInv, TypeOK
<1>1. CASE c = t
  BY <1>1 DEF OwnedCells
<1>2. CASE c \in Static
  BY <1>2 DEF OwnedCells
<1>3. ASSUME NEW o \in Live, c \in Fields(o)
      PROVE  c \in OwnedCells /\ c \in Shared /\ c[1] \in Live
  BY <1>3, OwnedAreCells DEF OwnedCells, Fields
<1>4. ref[t] \in Live \cup {NULL}
  BY DEF Ownership, OwnedCells
<1>5. ASSUME t \in Worker, run[t] # NULL PROVE run[t] \in Live
  BY <1>5 DEF Ownership, Holds, Kind
<1>6. ASSUME NEW o \in {ref[t]} \cap Obj, c \in Fields(o) PROVE o \in Live
  BY <1>4, <1>6
<1>7. CASE c \in UNION {Fields(o) : o \in {ref[t]} \cap Obj}
  BY <1>3, <1>6, <1>7
<1>8. CASE t \in Worker /\ run[t] # NULL /\ c \in Fields(run[t])
  BY <1>3, <1>5, <1>8
<1>9. c = t \/ c \in Nameable(t)
  BY DEF Reach
<1>10. \/ c = t \/ c \in Static \/ c \in UNION {Fields(o) : o \in {ref[t]} \cap Obj}
       \/ t \in Worker /\ run[t] # NULL /\ c \in Fields(run[t])
  BY <1>9 DEF Nameable
<1> QED BY <1>1, <1>2, <1>7, <1>8, <1>10

\* No two threads reach the same cell at once.
LEMMA ReachExclusive ==
  ASSUME IInv, NEW t \in Thread, NEW u \in Thread, t # u, NEW c, Reach(t, c), NEW d, Reach(u, d)
  PROVE  c # d
BY ReachOwned, Sorts DEF Reach

-----------------------------------------------------------------------------
(* One more claim, one less, the same claims                                *)

\* What a thread holds is a token.
LEMMA TokenHeld ==
  ASSUME NEW o \in Obj, NEW t \in Thread, NEW k \in Kind
  PROVE  <<t, k>> \in Tokens(o) <=> Holds(t, k, o)
BY DEF Tokens

LEMMA SameTokens ==
  ASSUME NEW o \in Obj, \A u \in Thread : \A j \in Kind : Holds(u, j, o)' <=> Holds(u, j, o)
  PROVE  Tokens(o)' = Tokens(o)
<1>1. \A h \in Thread \X Kind : Holds(h[1], h[2], o)' <=> Holds(h[1], h[2], o)
  OBVIOUS
<1>2. Tokens(o)' = {h \in Thread \X Kind : Holds(h[1], h[2], o)'}
  BY DEF Tokens, Thread, Kind
<1> QED BY <1>1, <1>2 DEF Tokens

LEMMA GainToken ==
  ASSUME NEW o \in Obj, NEW t \in Thread, NEW k \in Kind, ~ Holds(t, k, o),
         \A u \in Thread : \A j \in Kind : Holds(u, j, o)' <=> Holds(u, j, o) \/ (u = t /\ j = k)
  PROVE  /\ Tokens(o)' = Tokens(o) \cup {<<t, k>>}
         /\ Cardinality(Tokens(o)') = Cardinality(Tokens(o)) + 1
<1>1. \A h \in Thread \X Kind : Holds(h[1], h[2], o)' <=> Holds(h[1], h[2], o) \/ h = <<t, k>>
  OBVIOUS
<1>2. Tokens(o)' = {h \in Thread \X Kind : Holds(h[1], h[2], o)'}
  BY DEF Tokens, Thread, Kind
<1>3. Tokens(o)' = Tokens(o) \cup {<<t, k>>} /\ <<t, k>> \notin Tokens(o)
  BY <1>1, <1>2 DEF Tokens
<1> QED BY <1>3, TokensFinite, FS_AddElement

LEMMA LoseToken ==
  ASSUME NEW o \in Obj, NEW t \in Thread, NEW k \in Kind, Holds(t, k, o),
         \A u \in Thread : \A j \in Kind : Holds(u, j, o)' <=> Holds(u, j, o) /\ ~ (u = t /\ j = k)
  PROVE  /\ Tokens(o)' = Tokens(o) \ {<<t, k>>}
         /\ Cardinality(Tokens(o)') = Cardinality(Tokens(o)) - 1
<1>1. \A h \in Thread \X Kind : Holds(h[1], h[2], o)' <=> Holds(h[1], h[2], o) /\ h # <<t, k>>
  OBVIOUS
<1>2. Tokens(o)' = {h \in Thread \X Kind : Holds(h[1], h[2], o)'}
  BY DEF Tokens, Thread, Kind
<1>3. Tokens(o)' = Tokens(o) \ {<<t, k>>} /\ <<t, k>> \in Tokens(o)
  BY <1>1, <1>2 DEF Tokens
<1> QED BY <1>3, TokensFinite, FS_RemoveElement

\* A thread holds the reference as another one.
LEMMA SwapToken ==
  ASSUME NEW o \in Obj, NEW t \in Thread, NEW k \in Kind, NEW l \in Kind,
         Holds(t, k, o), ~ Holds(t, l, o),
         \A u \in Thread : \A j \in Kind :
           Holds(u, j, o)' <=> (Holds(u, j, o) /\ ~ (u = t /\ j = k)) \/ (u = t /\ j = l)
  PROVE  Cardinality(Tokens(o)') = Cardinality(Tokens(o))
<1>1. \A h \in Thread \X Kind :
        Holds(h[1], h[2], o)' <=> (Holds(h[1], h[2], o) /\ h # <<t, k>>) \/ h = <<t, l>>
  OBVIOUS
<1>2. Tokens(o)' = {h \in Thread \X Kind : Holds(h[1], h[2], o)'}
  BY DEF Tokens, Thread, Kind
<1> DEFINE rest == Tokens(o) \ {<<t, k>>}
<1>3. Tokens(o)' = rest \cup {<<t, l>>} /\ <<t, k>> \in Tokens(o) /\ <<t, l>> \notin rest
  BY <1>1, <1>2 DEF Tokens
<1>4. IsFiniteSet(rest) /\ Cardinality(rest) = Cardinality(Tokens(o)) - 1
  BY <1>3, TokensFinite, FS_RemoveElement
<1>5. Cardinality(Tokens(o)') = Cardinality(rest) + 1
  BY <1>3, <1>4, FS_AddElement
<1> QED BY <1>4, <1>5, TokensFinite

\* A step that leaves the live objects, the counted cells, their contents, the counters and
\* what the threads hold alone.
LEMMA Quiet ==
  ASSUME IInv, Live' = Live, OwnedCells' = OwnedCells, ref' = ref, rc' = rc,
         \A o \in Obj : \A u \in Thread : \A j \in Kind : Holds(u, j, o)' <=> Holds(u, j, o)
  PROVE  Ownership' /\ Counts' /\ Typed'
<1> USE DEF IInv
<1>1. \A o \in Obj : Tokens(o)' = Tokens(o)
  BY SameTokens
<1>2. \A o \in Obj : Refs(o)' = Refs(o)
  BY DEF Refs
<1>3. Live \subseteq Obj
  BY OwnedAreCells
<1>4. Ownership'
  BY DEF Ownership
<1>5. Counts'
  BY <1>1, <1>2, <1>3 DEF Counts, Claims
<1>6. Typed'
  BY DEF Typed
<1> QED BY <1>4, <1>5, <1>6

\* A thread takes a reference to a live object and counts it.
LEMMA GainClaim ==
  ASSUME IInv, Live' = Live, OwnedCells' = OwnedCells, ref' = ref,
         NEW x \in Live, rc'[x] = rc[x] + 1, \A o \in Obj \ {x} : rc'[o] = rc[o],
         NEW t \in Thread, NEW k \in Kind, ~ Holds(t, k, x),
         \A u \in Thread : \A j \in Kind : Holds(u, j, x)' <=> Holds(u, j, x) \/ (u = t /\ j = k),
         \A o \in Obj \ {x} : \A u \in Thread : \A j \in Kind : Holds(u, j, o)' <=> Holds(u, j, o)
  PROVE  Ownership' /\ Counts' /\ Typed'
<1> USE DEF IInv
<1>1. Live \subseteq Obj /\ x \in Obj /\ rc \in [Obj -> Nat]
  BY OwnedAreCells DEF TypeOK
<1>2. \A o \in Obj \ {x} : Tokens(o)' = Tokens(o)
  BY SameTokens
<1>3. Cardinality(Tokens(x)') = Cardinality(Tokens(x)) + 1
  BY <1>1, GainToken
<1>4. \A o \in Obj : Refs(o)' = Refs(o)
  BY DEF Refs
<1>5. Claims(x)' = Claims(x) + 1
  BY <1>1, <1>3, <1>4, RefsFinite, TokensFinite DEF Claims
<1>6. \A o \in Obj \ {x} : Claims(o)' = Claims(o)
  BY <1>2, <1>4 DEF Claims
<1>7. Ownership'
  BY <1>1 DEF Ownership
<1>8. Counts'
  BY <1>1, <1>5, <1>6, ClaimsLemma DEF Counts
<1>9. Typed'
  BY DEF Typed
<1> QED BY <1>7, <1>8, <1>9

\* A claim is given up and the counter decremented; the object dies if it was the last.
LEMMA LoseClaim ==
  ASSUME IInv, NEW x \in Live, rc'[x] = rc[x] - 1, \A o \in Obj \ {x} : rc'[o] = rc[o], ref' = ref,
         Live' = (IF rc[x] = 1 THEN Live \ {x} ELSE Live), OwnedCells' \subseteq OwnedCells,
         \A o \in Obj : Tokens(o)' \subseteq Tokens(o),
         \A o \in Obj : Claims(o)' = Claims(o) - IF o = x THEN 1 ELSE 0
  PROVE  Ownership' /\ Counts' /\ Typed'
<1> USE DEF IInv
<1>1. Live \subseteq Obj /\ x \in Obj /\ rc \in [Obj -> Nat] /\ rc[x] = Claims(x) /\ rc[x] > 0
  BY OwnedAreCells DEF TypeOK, Counts
<1>2. \A o \in Obj : Refs(o)' \subseteq Refs(o)
  BY DEF Refs
<1>3. ASSUME rc[x] = 1 PROVE Refs(x)' = {} /\ Tokens(x)' = {}
  <2>1. Claims(x)' = 0
    <3>1. Claims(x)' = Claims(x) - 1
      BY <1>1
    <3>2. Claims(x) = 1
      BY <1>1, <1>3
    <3> QED BY <3>1, <3>2
  <2>2. IsFiniteSet(Refs(x)') /\ IsFiniteSet(Tokens(x)')
    BY <1>1, <1>2, RefsFinite, TokensFinite, FS_Subset
  <2>3. Claims(x)' = Cardinality(Refs(x)') + Cardinality(Tokens(x)')
    BY DEF Claims
  <2> QED BY <2>1, <2>2, <2>3, FS_CardinalityType, FS_EmptySet
<1>4. ASSUME NEW c \in OwnedCells' PROVE ref[c] \in Live' \cup {NULL}
  <2>1. ref[c] \in Live \cup {NULL}
    BY DEF Ownership
  <2>2. ref[c] = x => rc[x] # 1
    BY <1>3 DEF Refs
  <2> QED BY <2>1, <2>2
<1>5. ASSUME NEW o \in Obj, NEW u \in Thread, NEW j \in Kind, Holds(u, j, o)' PROVE o \in Live'
  <2>1. <<u, j>> \in Tokens(o)'
    BY <1>5 DEF Tokens
  <2>2. Holds(u, j, o)
    BY <2>1, TokenHeld
  <2>3. o \in Live
    BY <2>2 DEF Ownership
  <2> QED BY <2>1, <2>3, <1>3
<1>6. Ownership'
  BY <1>4, <1>5 DEF Ownership
<1>7. Counts'
  <2> SUFFICES ASSUME NEW o \in Live' PROVE rc'[o] = Claims(o)' /\ rc'[o] > 0
    BY DEF Counts
  <2>1. o \in Live /\ o \in Obj /\ rc[o] = Claims(o) /\ rc[o] > 0 /\ rc[o] \in Nat
    BY <1>1 DEF Counts
  <2>2. o = x => rc[x] # 1
    BY <1>1
  <2> QED BY <1>1, <2>1, <2>2
<1>8. Typed'
  BY DEF Typed
<1> QED BY <1>6, <1>7, <1>8

\* A store of one thread does not disturb the stores of the others.
LEMMA OtherOperation ==
  ASSUME IInv, NEW u \in Thread,
         pc'[u] = pc[u] /\ val'[u] = val[u] /\ dst'[u] = dst[u] /\ old'[u] = old[u],
         ref'[u] = ref[u], u \in Worker => run'[u] = run[u], owner = u => owner' = u,
         \A c \in OwnedCells : Reach(u, c) => ref'[c] = ref[c]
  PROVE  Operation(u)'
<1>1. Nameable(u)' = Nameable(u)
  BY DEF Nameable, Fields
<1>2. \A c : Reach(u, c) => Reach(u, c)'
  BY <1>1 DEF Reach
<1>3. \A c : Reach(u, c) => ref'[c] = ref[c]
  BY ReachOwned
<1>4. Storing(u)' <=> Storing(u)
  BY DEF Storing
<1>5. Operation(u)
  BY DEF IInv
<1>6. ASSUME Storing(u)' PROVE Reach(u, dst[u])' /\ Reach(u, dst[u])
  BY <1>2, <1>4, <1>5, <1>6 DEF Operation
<1>7. ASSUME pc'[u] = "retain", val'[u] # NULL PROVE \E c \in Cell : Reach(u, c)' /\ ref'[c] = val'[u]
  <2>1. PICK c \in Cell : Reach(u, c) /\ ref[c] = val[u]
    BY <1>5, <1>7 DEF Operation
  <2> QED BY <2>1, <1>2, <1>3
<1>8. ASSUME pc'[u] = "write" PROVE old'[u] = ref'[dst'[u]]
  <2>1. Reach(u, dst[u])
    BY <1>6, <1>8 DEF Storing
  <2> QED BY <2>1, <1>3, <1>5, <1>8 DEF Operation
<1>9. Storing(u)' => Reach(u, dst[u])'
  BY <1>6
<1>10. Storing(u)' /\ dst'[u] \in Obj \X Slot /\ val'[u] # NULL => <<dst'[u][1], val'[u]>> \in Shape
  BY <1>4, <1>5 DEF Operation
<1>11. Storing(u)' /\ dst'[u] # u => val'[u] \in {NULL, ref'[u]}
  BY <1>4, <1>5 DEF Operation
<1> QED BY <1>7, <1>8, <1>9, <1>10, <1>11 DEF Operation

-----------------------------------------------------------------------------
(* What the steps do to the references and the counters                     *)

LEMMA FramesTyped == ASSUME TypeOK PROVE frames \in Stacks
BY DEF TypeOK, Stacks, Frame

\* The steps that only read, or move between states in which a thread holds nothing.
LEMMA QuietSteps ==
  ASSUME IInv, NEW t \in Thread,
         \/ EnterBlock(t) \/ CallSyncMethod(t) \/ Leave(t) \/ LoadOld(t)
         \/ \E c \in Shared : Load(t, c) \/ Store(t, c)
         \/ \E c \in Cell : StoreNull(t, c)
         \/ t \in Worker /\ (Finish(t) \/ Join(t))
         \/ UNCHANGED vars
  PROVE  Ownership' /\ Counts' /\ Typed'
<1>1. alloc' = alloc /\ ref' = ref /\ rc' = rc /\ frames' = frames /\ run' = run
  BY DEF EnterBlock, CallSyncMethod, Leave, LoadOld, Load, Store, StoreNull, Finish, Join, Begin,
         vars, memory, operation, pthreads
<1>2. Live' = Live /\ OwnedCells' = OwnedCells
  BY <1>1 DEF Live, OwnedCells, FrameObjs, FrameCells
<1>3. ASSUME NEW u \in Thread
      PROVE  \/ pc'[u] = pc[u] /\ val'[u] = val[u] /\ old'[u] = old[u]
             \/ pc[u] = "load" /\ pc'[u] = "write" /\ val'[u] = val[u]
             \/ pc[u] \in {"idle", "finish"} /\ pc'[u] \in {"idle", "retain", "none"}
  <2> USE DEF IInv, TypeOK, Goto
  <2>1. CASE EnterBlock(t) \/ CallSyncMethod(t) \/ Leave(t) \/ UNCHANGED vars \/ Join(t)
    BY <2>1 DEF EnterBlock, CallSyncMethod, Leave, Join, vars, operation
  <2>2. CASE LoadOld(t)
    BY <2>2 DEF LoadOld
  <2>3. CASE Finish(t)
    BY <2>3 DEF Finish
  <2>4. ASSUME NEW c, NEW x, Begin(t, c, x, "retain")
        PROVE  \/ pc'[u] = pc[u] /\ val'[u] = val[u] /\ old'[u] = old[u]
               \/ pc[u] \in {"idle", "finish"} /\ pc'[u] \in {"idle", "retain", "none"}
    BY <2>4 DEF Begin
  <2>5. CASE \E c \in Shared : Load(t, c) \/ Store(t, c)
    BY <2>4, <2>5 DEF Load, Store
  <2>6. CASE \E c \in Cell : StoreNull(t, c)
    BY <2>4, <2>6 DEF StoreNull
  <2> QED BY <2>1, <2>2, <2>3, <2>5, <2>6
<1>4. \A o \in Obj : \A u \in Thread : \A j \in Kind : Holds(u, j, o)' <=> Holds(u, j, o)
  <2> SUFFICES ASSUME NEW o \in Obj, NEW u \in Thread, NEW j \in Kind
               PROVE  Holds(u, j, o)' <=> Holds(u, j, o)
    OBVIOUS
  <2> QED BY <1>1, <1>3 DEF Holds, Kind
<1> QED BY <1>1, <1>2, <1>4, Quiet

\* The value a thread is about to retain is the value of a cell only it can overwrite.
LEMMA RetainClaims ==
  ASSUME IInv, NEW t \in Thread, Retain(t)
  PROVE  Ownership' /\ Counts' /\ Typed'
<1>1. /\ pc[t] = "retain" /\ pc' = [pc EXCEPT ![t] = "load"]
      /\ alloc' = alloc /\ ref' = ref /\ frames' = frames /\ run' = run /\ val' = val /\ old' = old
  BY DEF Retain, Goto, pthreads
<1>2. Live' = Live /\ OwnedCells' = OwnedCells
  BY <1>1 DEF Live, OwnedCells, FrameObjs, FrameCells
<1>3. pc'[t] = "load" /\ \A u \in Thread : u # t => pc'[u] = pc[u]
  BY <1>1 DEF IInv, TypeOK
<1>4. \A o \in Obj : \A u \in Thread : \A j \in Kind :
        Holds(u, j, o)' <=> Holds(u, j, o) \/ (u = t /\ j = "val" /\ val[t] = o)
  <2> SUFFICES ASSUME NEW o \in Obj, NEW u \in Thread, NEW j \in Kind
               PROVE  Holds(u, j, o)' <=> Holds(u, j, o) \/ (u = t /\ j = "val" /\ val[t] = o)
    OBVIOUS
  <2> QED BY <1>1, <1>3 DEF Holds, Kind
<1>5. CASE val[t] = NULL
  <2>1. rc' = rc
    BY <1>5 DEF Retain
  <2>2. \A o \in Obj : val[t] # o
    BY <1>5, Sorts
  <2> QED BY <1>1, <1>2, <1>4, <2>1, <2>2, Quiet
<1>6. CASE val[t] # NULL
  <2>1. PICK c \in Cell : Reach(t, c) /\ ref[c] = val[t]
    BY <1>1, <1>6 DEF IInv, Operation
  <2>2. val[t] \in Live
    BY <2>1, <1>6, ReachOwned DEF IInv, Ownership
  <2>3. rc' = [rc EXCEPT ![val[t]] = @ + 1]
    BY <1>6 DEF Retain
  <2>4. ~ Holds(t, "val", val[t])
    BY <1>1 DEF Holds
  <2>5. val[t] \in Obj /\ "val" \in Kind
    BY <2>2, OwnedAreCells DEF IInv, Kind
  <2>. PICK x \in Live : x = val[t]
    BY <2>2
  <2>6. /\ \A u \in Thread : \A j \in Kind : Holds(u, j, x)' <=> Holds(u, j, x) \/ (u = t /\ j = "val")
        /\ \A o \in Obj \ {x} : \A u \in Thread : \A j \in Kind : Holds(u, j, o)' <=> Holds(u, j, o)
    BY <1>4, <2>5
  <2>7. rc'[x] = rc[x] + 1 /\ \A o \in Obj \ {x} : rc'[o] = rc[o]
    BY <2>3, <2>5 DEF IInv, TypeOK
  <2>8. ~ Holds(t, "val", x)
    BY <2>4
  <2> QED BY <1>1, <1>2, <2>5, <2>6, <2>7, <2>8, GainClaim
<1> QED BY <1>5, <1>6

\* The thread is given its own reference to the Runnable.
LEMMA StartClaims ==
  ASSUME IInv, NEW w \in Worker, Start(w)
  PROVE  Ownership' /\ Counts' /\ Typed'
<1>0. ref[Main] \in Live /\ Live \subseteq Obj
  BY Sorts, OwnedAreCells DEF IInv, Ownership, OwnedCells, Start
<1>. PICK x \in Live : x = ref[Main]
  BY <1>0
<1>1. /\ status[w] = "new" /\ x # NULL /\ pc' = [pc EXCEPT ![w] = "idle"]
      /\ alloc' = alloc /\ ref' = ref /\ frames' = frames /\ val' = val /\ old' = old
      /\ run' = [run EXCEPT ![w] = x] /\ rc' = [rc EXCEPT ![x] = @ + 1]
  BY DEF Start, Goto
<1>2. Live' = Live /\ OwnedCells' = OwnedCells
  BY <1>1 DEF Live, OwnedCells, FrameObjs, FrameCells
<1>3. x \in Obj
  BY <1>0
<1>4. pc[w] = "none" /\ run[w] = NULL /\ w \in Thread
  BY <1>1, Sorts DEF IInv, Lifecycle
<1>5. /\ pc'[w] = "idle" /\ run'[w] = x
      /\ \A u \in Thread : u # w => pc'[u] = pc[u]
      /\ \A u \in Worker : u # w => run'[u] = run[u]
  BY <1>1, <1>4 DEF IInv, TypeOK
<1>6. \A o \in Obj : \A u \in Thread : \A j \in Kind :
        Holds(u, j, o)' <=> Holds(u, j, o) \/ (u = w /\ j = "run" /\ x = o)
  <2> SUFFICES ASSUME NEW o \in Obj, NEW u \in Thread, NEW j \in Kind
               PROVE  Holds(u, j, o)' <=> Holds(u, j, o) \/ (u = w /\ j = "run" /\ x = o)
    OBVIOUS
  <2>1. NULL # o
    BY Sorts
  <2>2. CASE u = w
    BY <2>1, <2>2, <1>1, <1>4, <1>5 DEF Holds, Kind
  <2>3. CASE u # w
    BY <2>3, <1>1, <1>5 DEF Holds, Kind
  <2> QED BY <2>2, <2>3
<1>7. ~ Holds(w, "run", x) /\ "run" \in Kind
  BY <1>1, <1>4 DEF Holds, Kind
<1>8. /\ \A u \in Thread : \A j \in Kind : Holds(u, j, x)' <=> Holds(u, j, x) \/ (u = w /\ j = "run")
      /\ \A o \in Obj \ {x} : \A u \in Thread : \A j \in Kind : Holds(u, j, o)' <=> Holds(u, j, o)
  BY <1>3, <1>6
<1>9. rc'[x] = rc[x] + 1 /\ \A o \in Obj \ {x} : rc'[o] = rc[o]
  BY <1>1, <1>3 DEF IInv, TypeOK
<1> QED BY <1>1, <1>2, <1>4, <1>7, <1>8, <1>9, GainClaim

\* A step that moves claims from one holder to another.
LEMMA SameClaims ==
  ASSUME IInv, Live' = Live, rc' = rc,
         \A c \in OwnedCells' : ref'[c] \in Live \cup {NULL},
         \A o \in Obj : \A u \in Thread : \A j \in Kind : Holds(u, j, o)' => o \in Live,
         \A o \in Live : Claims(o)' = Claims(o),
         \A c \in Live \X Slot : ref'[c] # NULL => <<c[1], ref'[c]>> \in Shape
  PROVE  Ownership' /\ Counts' /\ Typed'
<1>1. Ownership'
  BY DEF Ownership
<1>2. Counts'
  BY DEF Counts, IInv
<1>3. Typed'
  BY DEF Typed
<1> QED BY <1>1, <1>2, <1>3

\* The thread's reference to its Runnable is the one it is going to release.
LEMMA EndRunClaims ==
  ASSUME IInv, NEW w \in Worker, EndRun(w)
  PROVE  Ownership' /\ Counts' /\ Typed'
<1>1. /\ pc[w] = "idle" /\ status[w] = "running"
      /\ alloc' = alloc /\ ref' = ref /\ rc' = rc /\ frames' = frames /\ val' = val
      /\ pc' = [pc EXCEPT ![w] = "release"] /\ old' = [old EXCEPT ![w] = run[w]]
      /\ run' = [run EXCEPT ![w] = NULL]
  BY DEF EndRun, Goto, memory
<1>2. Live' = Live /\ OwnedCells' = OwnedCells
  BY <1>1 DEF Live, OwnedCells, FrameObjs, FrameCells
<1>3. run[w] # NULL /\ w \in Thread
  BY <1>1, Sorts DEF IInv, Lifecycle
<1>4. PICK x \in Live : x = run[w]
  BY <1>3 DEF IInv, Ownership, Holds, Kind, TypeOK
<1>5. /\ pc'[w] = "release" /\ old'[w] = x /\ run'[w] = NULL
      /\ \A u \in Thread : u # w => pc'[u] = pc[u] /\ old'[u] = old[u]
      /\ \A u \in Worker : u # w => run'[u] = run[u]
  BY <1>1, <1>3, <1>4 DEF IInv, TypeOK
<1>6. x \in Obj /\ Live \subseteq Obj /\ "run" \in Kind /\ "old" \in Kind
  BY <1>4, OwnedAreCells DEF IInv, Kind
<1>7. \A o \in Obj : \A u \in Thread : \A j \in Kind :
        Holds(u, j, o)' <=> \/ Holds(u, j, o) /\ ~ (u = w /\ j = "run")
                            \/ u = w /\ j = "old" /\ o = x
  <2> SUFFICES ASSUME NEW o \in Obj, NEW u \in Thread, NEW j \in Kind
               PROVE  Holds(u, j, o)' <=> \/ Holds(u, j, o) /\ ~ (u = w /\ j = "run")
                                          \/ u = w /\ j = "old" /\ o = x
    OBVIOUS
  <2>1. NULL # o
    BY Sorts
  <2>2. CASE u = w
    BY <2>1, <2>2, <1>1, <1>3, <1>5 DEF Holds, Kind
  <2>3. CASE u # w
    BY <2>3, <1>1, <1>5 DEF Holds, Kind
  <2> QED BY <2>2, <2>3
<1>8. Holds(w, "run", x) /\ ~ Holds(w, "old", x) /\ \A o \in Obj \ {x} : ~ Holds(w, "run", o)
  BY <1>1, <1>3, <1>4 DEF Holds
<1>9. \A o \in Obj : Refs(o)' = Refs(o)
  BY <1>1, <1>2 DEF Refs
<1>10. Cardinality(Tokens(x)') = Cardinality(Tokens(x))
  BY <1>3, <1>6, <1>7, <1>8, SwapToken
<1>11. \A o \in Obj \ {x} : Tokens(o)' = Tokens(o)
  BY <1>3, <1>7, <1>8, SameTokens
<1>12. \A o \in Live : Claims(o)' = Claims(o)
  BY <1>6, <1>9, <1>10, <1>11 DEF Claims
<1>13. \A o \in Obj : \A u \in Thread : \A j \in Kind : Holds(u, j, o)' => o \in Live
  BY <1>4, <1>7 DEF IInv, Ownership
<1> QED BY <1>1, <1>2, <1>12, <1>13, SameClaims DEF IInv, Ownership, Typed

\* The cell takes the thread's reference and the thread the cell's.
LEMMA WriteClaims ==
  ASSUME IInv, NEW t \in Thread, Write(t)
  PROVE  Ownership' /\ Counts' /\ Typed'
<1>1. /\ pc[t] = "write" /\ pc' = [pc EXCEPT ![t] = "release"]
      /\ ref' = [ref EXCEPT ![dst[t]] = val[t]] /\ val' = [val EXCEPT ![t] = NULL]
      /\ alloc' = alloc /\ rc' = rc /\ frames' = frames /\ old' = old /\ run' = run
  BY DEF Write, Goto, pthreads
<1>2. Live' = Live /\ OwnedCells' = OwnedCells
  BY <1>1 DEF Live, OwnedCells, FrameObjs, FrameCells
<1>3. Operation(t) /\ Storing(t) /\ OwnedCells \subseteq Cell /\ Live \subseteq Obj
  BY <1>1, OwnedAreCells DEF IInv, Storing
<1>4. PICK d \in OwnedCells : d = dst[t]
  BY <1>3, ReachOwned DEF Operation
<1>5. PICK x : x = val[t]
  OBVIOUS
<1>6. PICK y : y = old[t]
  OBVIOUS
<1>7. ref[d] = y /\ y \in Live \cup {NULL}
  BY <1>1, <1>3, <1>4, <1>6 DEF Operation, IInv, Ownership
<1>8. x \in Live \cup {NULL}
  <2>1. x \in Obj => Holds(t, "val", x)
    BY <1>1, <1>5 DEF Holds
  <2>2. x \in Obj \cup {NULL}
    BY <1>5 DEF IInv, TypeOK
  <2> QED BY <2>1, <2>2 DEF IInv, Ownership, Kind
<1>9. ref'[d] = x /\ \A c \in OwnedCells : c # d => ref'[c] = ref[c]
  BY <1>1, <1>3, <1>4, <1>5 DEF IInv, TypeOK
<1>10. /\ pc'[t] = "release" /\ val'[t] = NULL
       /\ \A u \in Thread : u # t => pc'[u] = pc[u] /\ val'[u] = val[u]
  BY <1>1 DEF IInv, TypeOK
<1>11. \A o \in Obj : \A u \in Thread : \A j \in Kind :
         Holds(u, j, o)' <=> \/ Holds(u, j, o) /\ ~ (u = t /\ j = "val")
                             \/ u = t /\ j = "old" /\ o = y
  <2> SUFFICES ASSUME NEW o \in Obj, NEW u \in Thread, NEW j \in Kind
               PROVE  Holds(u, j, o)' <=> \/ Holds(u, j, o) /\ ~ (u = t /\ j = "val")
                                          \/ u = t /\ j = "old" /\ o = y
    OBVIOUS
  <2>1. CASE u = t
    BY <2>1, <1>1, <1>6, <1>10 DEF Holds, Kind
  <2>2. CASE u # t
    BY <2>2, <1>1, <1>10 DEF Holds, Kind
  <2> QED BY <2>1, <2>2
<1>12. "val" \in Kind /\ "old" \in Kind
       /\ \A o \in Obj : (Holds(t, "val", o) <=> o = x) /\ ~ Holds(t, "old", o)
  BY <1>1, <1>5 DEF Holds, Kind
<1>13. ASSUME NEW o \in Live PROVE Claims(o)' = Claims(o)
  <2>0. o \in Obj /\ NULL \notin Obj
    BY <1>3, Sorts
  <2>1. Refs(o)' = {c \in OwnedCells : ref'[c] = o}
    BY <1>2 DEF Refs
  <2>2. d \in Refs(o) <=> o = y
    BY <1>7 DEF Refs
  <2>3. CASE o = x /\ o = y
    <3>1. Refs(o)' = Refs(o)
      BY <2>1, <2>3, <1>7, <1>9 DEF Refs
    <3>2. Cardinality(Tokens(o)') = Cardinality(Tokens(o))
      BY <2>0, <2>3, <1>11, <1>12, SwapToken
    <3> QED BY <3>1, <3>2 DEF Claims
  <2>4. CASE o = x /\ o # y
    <3>1. Refs(o)' = Refs(o) \cup {d} /\ d \notin Refs(o)
      BY <2>1, <2>2, <2>4, <1>9 DEF Refs
    <3>2. Cardinality(Refs(o)') = Cardinality(Refs(o)) + 1
      BY <3>1, RefsFinite, FS_AddElement DEF IInv
    <3>3. Cardinality(Tokens(o)') = Cardinality(Tokens(o)) - 1
      BY <2>0, <2>4, <1>11, <1>12, LoseToken
    <3> QED BY <3>2, <3>3, RefsFinite, TokensFinite DEF Claims, IInv
  <2>5. CASE o # x /\ o = y
    <3>1. Refs(o)' = Refs(o) \ {d} /\ d \in Refs(o)
      BY <2>1, <2>2, <2>5, <1>9 DEF Refs
    <3>2. Cardinality(Refs(o)') = Cardinality(Refs(o)) - 1
      BY <3>1, RefsFinite, FS_RemoveElement DEF IInv
    <3>3. Cardinality(Tokens(o)') = Cardinality(Tokens(o)) + 1
      BY <2>0, <2>5, <1>11, <1>12, GainToken
    <3> QED BY <3>2, <3>3, RefsFinite, TokensFinite DEF Claims, IInv
  <2>6. CASE o # x /\ o # y
    <3>1. Refs(o)' = Refs(o)
      BY <2>1, <2>2, <2>6, <1>9 DEF Refs
    <3>2. Tokens(o)' = Tokens(o)
      BY <2>0, <2>6, <1>11, <1>12, SameTokens
    <3> QED BY <3>1, <3>2 DEF Claims
  <2> QED BY <2>3, <2>4, <2>5, <2>6
<1>14. \A c \in OwnedCells' : ref'[c] \in Live \cup {NULL}
  BY <1>2, <1>8, <1>9 DEF IInv, Ownership
<1>15. \A o \in Obj : \A u \in Thread : \A j \in Kind : Holds(u, j, o)' => o \in Live
  BY <1>7, <1>11, Sorts DEF IInv, Ownership
<1>16. ASSUME NEW c \in Live \X Slot, ref'[c] # NULL PROVE <<c[1], ref'[c]>> \in Shape
  <2>1. c \in OwnedCells /\ c \in Obj \X Slot
    BY <1>3 DEF OwnedCells
  <2>2. CASE c = d
    BY <2>1, <2>2, <1>3, <1>4, <1>5, <1>9, <1>16 DEF Operation
  <2>3. CASE c # d
    BY <2>1, <2>3, <1>9, <1>16 DEF IInv, Typed
  <2> QED BY <2>2, <2>3
<1> QED BY <1>1, <1>2, <1>13, <1>14, <1>15, <1>16, SameClaims

\* A new object: its fields count and are empty, its one claim is the creating thread's.
LEMMA NewClaims ==
  ASSUME IInv, NEW t \in Thread, NEW o \in Obj, New(t, o)
  PROVE  Ownership' /\ Counts' /\ Typed'
<1>1. /\ o \notin alloc /\ pc[t] = "idle" /\ pc' = [pc EXCEPT ![t] = "load"]
      /\ val' = [val EXCEPT ![t] = o] /\ alloc' = alloc \cup {o} /\ rc' = [rc EXCEPT ![o] = 1]
      /\ ref' = [c \in Cell |-> IF c \in Fields(o) THEN NULL ELSE ref[c]]
      /\ frames' = frames /\ old' = old /\ run' = run
  BY DEF New, Begin, pthreads
<1>2. o \notin FrameObjs(frames) /\ o \notin Live /\ Live \subseteq Obj /\ OwnedCells \subseteq Cell
  BY <1>1, OwnedAreCells DEF IInv, CallStacks, Live
<1>3. Live' = Live \cup {o}
  BY <1>1, <1>2 DEF Live, FrameObjs
<1>4. OwnedCells' = OwnedCells \cup Fields(o)
  <2>1. FrameCells(frames)' = FrameCells(frames)
    BY <1>1 DEF FrameCells
  <2> QED BY <1>3, <2>1 DEF OwnedCells, Fields
<1>5. Fields(o) \cap OwnedCells = {} /\ Fields(o) \subseteq Cell
  <2>1. Fields(o) \cap FrameCells(frames) = {}
    BY <1>2 DEF FrameCells, FrameObjs, Fields
  <2> QED BY <1>2, <2>1, Sorts DEF OwnedCells
<1>6. /\ \A c \in Fields(o) : ref'[c] = NULL
      /\ \A c \in OwnedCells : ref'[c] = ref[c]
  BY <1>1, <1>2, <1>5
<1>7. /\ pc'[t] = "load" /\ val'[t] = o
      /\ \A u \in Thread : u # t => pc'[u] = pc[u] /\ val'[u] = val[u]
      /\ rc'[o] = 1 /\ \A p \in Obj \ {o} : rc'[p] = rc[p]
  BY <1>1 DEF IInv, TypeOK
<1>8. \A p \in Obj : \A u \in Thread : \A j \in Kind :
        Holds(u, j, p)' <=> Holds(u, j, p) \/ (u = t /\ j = "val" /\ p = o)
  <2> SUFFICES ASSUME NEW p \in Obj, NEW u \in Thread, NEW j \in Kind
               PROVE  Holds(u, j, p)' <=> Holds(u, j, p) \/ (u = t /\ j = "val" /\ p = o)
    OBVIOUS
  <2>1. CASE u = t
    BY <2>1, <1>1, <1>7 DEF Holds, Kind
  <2>2. CASE u # t
    BY <2>2, <1>1, <1>7 DEF Holds, Kind
  <2> QED BY <2>1, <2>2
<1>9. \A p \in Obj : Refs(p)' = Refs(p)
  <2> SUFFICES ASSUME NEW p \in Obj PROVE Refs(p)' = Refs(p)
    OBVIOUS
  <2>1. Refs(p)' = {c \in OwnedCells' : ref'[c] = p}
    BY DEF Refs
  <2>2. p # NULL
    BY Sorts
  <2> QED BY <1>4, <1>6, <2>1, <2>2 DEF Refs
<1>10. Refs(o) = {} /\ Tokens(o) = {}
  BY <1>2, Sorts DEF IInv, Ownership, Refs, Tokens
<1>11. Cardinality(Tokens(o)') = Cardinality(Tokens(o)) + 1
  <2>1. "val" \in Kind /\ ~ Holds(t, "val", o)
    BY <1>1 DEF Holds, Kind
  <2> QED BY <1>8, <2>1, GainToken
<1>12. Claims(o)' = 1
  BY <1>9, <1>10, <1>11, FS_EmptySet DEF Claims
<1>13. \A p \in Obj \ {o} : Claims(p)' = Claims(p)
  <2>1. \A p \in Obj \ {o} : Tokens(p)' = Tokens(p)
    BY <1>8, SameTokens
  <2> QED BY <1>9, <2>1 DEF Claims
<1>14. Ownership'
  BY <1>3, <1>4, <1>6, <1>8 DEF IInv, Ownership
<1>15. Counts'
  BY <1>2, <1>3, <1>7, <1>12, <1>13 DEF IInv, Counts
<1>16. Typed'
  BY <1>2, <1>3, <1>4, <1>6 DEF IInv, Typed, Fields, OwnedCells
<1> QED BY <1>14, <1>15, <1>16

\* jrt_release calls the drop function of x on top of the stacks g.
LEMMA CallDrop ==
  ASSUME NEW g \in Stacks, NEW t \in Thread, NEW x \in Obj, DroppedOnce(g), x \notin FrameObjs(g),
         NEW e \in [Thread -> Seq(Frame)], e[t] = Append(g[t], <<x, Slot>>),
         \A u \in Thread : u # t => e[u] = g[u]
  PROVE  /\ DroppedOnce(e)
         /\ FrameObjs(e) = FrameObjs(g) \cup {x}
         /\ FrameCells(e) = FrameCells(g) \cup ({x} \X Slot)
<1>1. g[t] \in Seq(Frame) /\ <<x, Slot>> \in Frame /\ e \in Stacks
  BY DEF Stacks, Frame
<1>2. PICK n \in Nat : n = Len(g[t])
  BY <1>1, LenProperties
<1>3. /\ DOMAIN g[t] = 1 .. n /\ DOMAIN e[t] = 1 .. n + 1 /\ e[t][n + 1] = <<x, Slot>>
      /\ \A i \in 1 .. n : e[t][i] = g[t][i]
  BY <1>1, <1>2, AppendProperties, LenProperties
<1>4. PICK k : k = n + 1
  OBVIOUS
<1>5. /\ DOMAIN e[t] = DOMAIN g[t] \cup {k} /\ k \notin DOMAIN g[t] /\ e[t][k] = <<x, Slot>>
      /\ \A i \in DOMAIN g[t] : e[t][i] = g[t][i]
  BY <1>3, <1>4
<1>6. \A u \in Thread : u # t => e[u] = g[u]
  OBVIOUS
<1> QED BY ONLY <1>1, <1>5, <1>6, PushFrame, g \in Stacks, t \in Thread, x \in Obj,
                DroppedOnce(g), x \notin FrameObjs(g)

LEMMA ReleaseStack ==
  ASSUME frames \in Stacks, NEW t \in Thread, NEW x \in Obj \cup {NULL}, NEW g \in Stacks,
         \A u \in Thread : u # t => g[u] = frames[u],
         DroppedOnce(g), x \notin FrameObjs(g), ReleaseAtomic(t, x, g[t])
  PROVE  /\ frames' \in Stacks /\ DroppedOnce(frames')
         /\ \A u \in Thread : u # t => frames'[u] = frames[u]
         /\ x # NULL /\ rc[x] = 1 =>
              /\ FrameObjs(frames') = FrameObjs(g) \cup {x}
              /\ FrameCells(frames') = FrameCells(g) \cup ({x} \X Slot)
              /\ frames'[t] = Append(g[t], <<x, Slot>>)
         /\ ~ (x # NULL /\ rc[x] = 1) => frames' = g
<1>1. CASE x # NULL /\ rc[x] = 1
  <2>1. x \in Obj /\ frames' = [frames EXCEPT ![t] = Append(g[t], <<x, Slot>>)]
    BY <1>1 DEF ReleaseAtomic
  <2>2. Append(g[t], <<x, Slot>>) \in Seq(Frame)
    <3>1. g[t] \in Seq(Frame) /\ <<x, Slot>> \in Frame
      BY <2>1 DEF Stacks, Frame
    <3> QED BY <3>1, AppendProperties
  <2>3. PICK e \in Stacks : e = frames'
    BY <2>1, <2>2 DEF Stacks
  <2>4. /\ e[t] = Append(g[t], <<x, Slot>>) /\ e \in [Thread -> Seq(Frame)]
        /\ \A u \in Thread : u # t => e[u] = g[u] /\ e[u] = frames[u]
    BY <2>1, <2>3 DEF Stacks
  <2>5. /\ DroppedOnce(e)
        /\ FrameObjs(e) = FrameObjs(g) \cup {x}
        /\ FrameCells(e) = FrameCells(g) \cup ({x} \X Slot)
    <3>1. x \in Obj
      BY <2>1
    <3> QED BY ONLY <3>1, <2>4, CallDrop, g \in Stacks, t \in Thread, DroppedOnce(g),
                    x \notin FrameObjs(g)
  <2> QED BY <1>1, <2>3, <2>4, <2>5
<1>2. CASE ~ (x # NULL /\ rc[x] = 1)
  <2>1. frames' = [frames EXCEPT ![t] = g[t]]
    BY <1>2 DEF ReleaseAtomic
  <2>2. frames' = g
    BY <2>1 DEF Stacks
  <2> QED BY <1>2, <2>2
<1> QED BY <1>1, <1>2

\* The stack of a thread that is in a drop function.
LEMMA TopFrame ==
  ASSUME frames \in Stacks, NEW t \in Thread, frames[t] # <<>>
  PROVE  /\ Len(frames[t]) \in DOMAIN frames[t] /\ Len(frames[t]) \in Nat
         /\ DOMAIN frames[t] = 1 .. Len(frames[t])
         /\ Top(t)[1] \in Obj /\ Top(t)[2] \subseteq Slot
         /\ Below(t) \in Seq(Frame) /\ Len(Below(t)) = Len(frames[t]) - 1
         /\ \A i \in 1 .. Len(frames[t]) - 1 : Below(t)[i] = frames[t][i]
<1>1. frames[t] \in Seq(Frame) /\ Len(frames[t]) \in Nat /\ Len(frames[t]) > 0
      /\ DOMAIN frames[t] = 1 .. Len(frames[t])
  BY LenProperties, EmptySeq DEF Stacks
<1>2. Top(t)[1] \in Obj /\ Top(t)[2] \subseteq Slot
  BY <1>1, FrameType DEF Top
<1>3. /\ Below(t) \in Seq(Frame) /\ Len(Below(t)) = Len(frames[t]) - 1
      /\ \A i \in 1 .. Len(frames[t]) - 1 : Below(t)[i] = frames[t][i]
  BY <1>1, ElementOfSeq, SubSeqProperties DEF Below
<1> QED BY <1>1, <1>2, <1>3

LEMMA ShrinkStack ==
  ASSUME frames \in Stacks, DroppedOnce(frames), NEW t \in Thread, frames[t] # <<>>,
         NEW s \in Slot, NEW d \in Obj, d = Top(t)[1]
  PROVE  \E g \in Stacks :
           /\ g = [frames EXCEPT ![t] = Append(Below(t), <<d, Top(t)[2] \ {s}>>)]
           /\ DroppedOnce(g) /\ d \in FrameObjs(frames) /\ FrameObjs(g) = FrameObjs(frames)
           /\ FrameCells(g) = FrameCells(frames) \ {<<d, s>>}
<1> DEFINE new == <<d, Top(t)[2] \ {s}>>
<1>1. PICK n \in DOMAIN frames[t] : n = Len(frames[t])
  BY TopFrame
<1>2. PICK h \in Stacks : h = frames
  OBVIOUS
<1>3. /\ n \in Nat /\ DOMAIN h[t] = 1 .. n /\ d = h[t][n][1] /\ Top(t)[2] = h[t][n][2]
      /\ Below(t) \in Seq(Frame) /\ Len(Below(t)) = n - 1
      /\ \A i \in 1 .. n - 1 : Below(t)[i] = h[t][i]
  BY <1>1, <1>2, TopFrame DEF Top
<1>4. new \in Frame /\ new[1] = d /\ new[2] = h[t][n][2] \ {s}
  BY <1>3, TopFrame DEF Frame
<1> HIDE DEF new
<1>5. /\ Append(Below(t), new) \in Seq(Frame) /\ Len(Append(Below(t), new)) = n
      /\ Append(Below(t), new)[n] = new
      /\ \A i \in 1 .. n - 1 : Append(Below(t), new)[i] = h[t][i]
  BY <1>3, <1>4, AppendProperties
<1>6. PICK g \in Stacks : g = [frames EXCEPT ![t] = Append(Below(t), new)]
  BY <1>5 DEF Stacks
<1>7. g[t] = Append(Below(t), new) /\ \A u \in Thread : u # t => g[u] = h[u]
  BY <1>2, <1>6 DEF Stacks
<1>8. /\ DOMAIN g[t] = DOMAIN h[t] /\ g[t][n][1] = d /\ g[t][n][2] = h[t][n][2] \ {s}
      /\ \A i \in DOMAIN h[t] : i # n => g[t][i] = h[t][i]
  BY <1>1, <1>3, <1>4, <1>5, <1>7, LenProperties
<1>9. DroppedOnce(h) /\ n \in DOMAIN h[t]
  BY <1>1, <1>2
<1>10. /\ DroppedOnce(g) /\ d \in FrameObjs(h) /\ FrameObjs(g) = FrameObjs(h)
       /\ FrameCells(g) = FrameCells(h) \ {<<d, s>>}
  <2>1. d = h[t][n][1]
    BY <1>3
  <2> QED BY ONLY <2>1, <1>7, <1>8, <1>9, ShrinkFrame, s \in Slot, t \in Thread, g \in Stacks, h \in Stacks
<1>11. g = [frames EXCEPT ![t] = Append(Below(t), <<d, Top(t)[2] \ {s}>>)]
  BY <1>6 DEF new
<1> QED BY <1>2, <1>10, <1>11

LEMMA PopStack ==
  ASSUME frames \in Stacks, DroppedOnce(frames), NEW t \in Thread, frames[t] # <<>>,
         Top(t)[2] = {}, NEW d \in Obj, d = Top(t)[1]
  PROVE  \E g \in Stacks :
           /\ g = [frames EXCEPT ![t] = Below(t)]
           /\ DroppedOnce(g) /\ d \in FrameObjs(frames) /\ FrameObjs(g) = FrameObjs(frames) \ {d}
           /\ FrameCells(g) = FrameCells(frames)
<1>1. PICK n \in DOMAIN frames[t] : n = Len(frames[t])
  BY TopFrame
<1>2. PICK h \in Stacks : h = frames
  OBVIOUS
<1>3. /\ n \in Nat /\ DOMAIN h[t] = 1 .. n /\ d = h[t][n][1] /\ h[t][n][2] = {}
      /\ Below(t) \in Seq(Frame) /\ Len(Below(t)) = n - 1
      /\ \A i \in 1 .. n - 1 : Below(t)[i] = h[t][i]
  BY <1>1, <1>2, TopFrame DEF Top
<1>4. PICK g \in Stacks : g = [frames EXCEPT ![t] = Below(t)]
  BY <1>3 DEF Stacks
<1>5. g[t] = Below(t) /\ \A u \in Thread : u # t => g[u] = h[u]
  BY <1>2, <1>4 DEF Stacks
<1>6. DOMAIN g[t] = DOMAIN h[t] \ {n} /\ \A i \in DOMAIN g[t] : g[t][i] = h[t][i]
  BY <1>3, <1>5, LenProperties
<1>7. DroppedOnce(h) /\ n \in DOMAIN h[t]
  BY <1>1, <1>2
<1>8. /\ DroppedOnce(g) /\ d \in FrameObjs(h) /\ FrameObjs(g) = FrameObjs(h) \ {d}
      /\ FrameCells(g) = FrameCells(h)
  <2>1. d = h[t][n][1] /\ h[t][n][2] = {}
    BY <1>3
  <2> QED BY ONLY <2>1, <1>5, <1>6, <1>7, PopFrame, t \in Thread, g \in Stacks, h \in Stacks
<1> QED BY <1>2, <1>4, <1>8

\* The release of the overwritten value.
LEMMA ReleaseOldClaims ==
  ASSUME IInv, NEW t \in Thread, ReleaseOld(t)
  PROVE  frames' \in Stacks /\ CallStacks' /\ Ownership' /\ Counts' /\ Typed'
<1>1. /\ pc[t] = "release" /\ ReleaseAtomic(t, old[t], <<>>) /\ old' = [old EXCEPT ![t] = NULL]
      /\ pc' = [pc EXCEPT ![t] = IF frames'[t] = <<>> THEN Resume(t) ELSE "drop"]
      /\ alloc' = alloc /\ ref' = ref /\ val' = val /\ run' = run
  BY DEF ReleaseOld, Goto, pthreads
<1>2. frames \in Stacks /\ DroppedOnce(frames) /\ frames[t] = <<>> /\ FrameObjs(frames) \subseteq alloc
  BY <1>1, FramesTyped DEF IInv, CallStacks
<1>3. PICK g \in Stacks : g = frames
  BY <1>2
<1>4. g[t] = <<>> /\ \A u \in Thread : u # t => g[u] = frames[u]
  BY <1>2, <1>3
<1>5. PICK x : x = old[t]
  OBVIOUS
<1>6. x \in Live \cup {NULL} /\ (x # NULL => Holds(t, "old", x))
  <2>1. x \in Obj => Holds(t, "old", x)
    BY <1>1, <1>5 DEF Holds
  <2>2. x \in Obj \cup {NULL}
    BY <1>5 DEF IInv, TypeOK
  <2> QED BY <2>1, <2>2 DEF IInv, Ownership, Kind
<1>7. Live \subseteq Obj /\ Live \cap FrameObjs(frames) = {} /\ NULL \notin Obj
  BY OwnedAreCells, Sorts DEF IInv, Live
<1>8. x \in Obj \cup {NULL} /\ x \notin FrameObjs(g)
  BY <1>3, <1>6, <1>7 DEF FrameObjs
<1>9. ReleaseAtomic(t, x, g[t]) /\ DroppedOnce(g)
  BY <1>1, <1>2, <1>3, <1>4, <1>5
<1>10. /\ frames' \in Stacks /\ DroppedOnce(frames')
       /\ x # NULL /\ rc[x] = 1 =>
            /\ FrameObjs(frames') = FrameObjs(g) \cup {x}
            /\ FrameCells(frames') = FrameCells(g) \cup ({x} \X Slot)
            /\ frames'[t] = Append(g[t], <<x, Slot>>)
       /\ ~ (x # NULL /\ rc[x] = 1) => frames' = g
  <2>1. frames \in Stacks /\ \A u \in Thread : u # t => g[u] = frames[u]
    BY <1>2, <1>4
  <2> QED BY ONLY <2>1, <1>8, <1>9, ReleaseStack, t \in Thread, g \in Stacks
<1>11. /\ pc'[t] = (IF frames'[t] = <<>> THEN Resume(t) ELSE "drop")
       /\ Resume(t) \in {"finish", "idle"} /\ old'[t] = NULL
       /\ \A u \in Thread : u # t => pc'[u] = pc[u] /\ old'[u] = old[u]
  BY <1>1 DEF IInv, TypeOK, Resume
<1>12. \A u \in Thread : u # t => frames'[u] = frames[u]
  BY <1>9, <1>2 DEF ReleaseAtomic, Stacks
<1>13. CallStacks'
  <2>1. DroppedOnce(frames)'
    BY <1>10 DEF DroppedOnce
  <2>2. FrameObjs(frames)' \subseteq alloc'
    <3>1. x # NULL => x \in alloc
      BY <1>6 DEF Live
    <3>2. CASE x # NULL /\ rc[x] = 1
      BY <3>1, <3>2, <1>1, <1>2, <1>3, <1>10
    <3>3. CASE ~ (x # NULL /\ rc[x] = 1)
      BY <3>3, <1>1, <1>2, <1>3, <1>10 DEF FrameObjs
    <3> QED BY <3>2, <3>3
  <2>3. \A u \in Thread : pc'[u] = "drop" <=> frames'[u] # <<>>
    BY <1>11, <1>12 DEF IInv, CallStacks
  <2> QED BY <2>1, <2>2, <2>3 DEF CallStacks
<1>14. \A o \in Obj : \A u \in Thread : \A j \in Kind :
         Holds(u, j, o)' <=> Holds(u, j, o) /\ ~ (u = t /\ j = "old" /\ o = x)
  <2> SUFFICES ASSUME NEW o \in Obj, NEW u \in Thread, NEW j \in Kind
               PROVE  Holds(u, j, o)' <=> Holds(u, j, o) /\ ~ (u = t /\ j = "old" /\ o = x)
    OBVIOUS
  <2>1. CASE u = t
    BY <2>1, <1>1, <1>5, <1>11 DEF Holds, Kind
  <2>2. CASE u # t
    BY <2>2, <1>1, <1>11 DEF Holds, Kind
  <2> QED BY <2>1, <2>2
<1>15. CASE x = NULL
  <2>1. frames' = frames /\ rc' = rc
    BY <1>3, <1>9, <1>10, <1>15 DEF ReleaseAtomic
  <2>2. Live' = Live /\ OwnedCells' = OwnedCells
    BY <1>1, <2>1 DEF Live, OwnedCells, FrameObjs, FrameCells
  <2>3. \A o \in Obj : \A u \in Thread : \A j \in Kind : Holds(u, j, o)' <=> Holds(u, j, o)
    BY <1>7, <1>14, <1>15
  <2> QED BY <1>1, <1>10, <1>13, <2>1, <2>2, <2>3, Quiet
<1>16. CASE x # NULL
  <2>1. x \in Live /\ x \in Obj /\ "old" \in Kind /\ Holds(t, "old", x)
    BY <1>6, <1>7, <1>16 DEF Kind
  <2>2. rc'[x] = rc[x] - 1 /\ \A o \in Obj \ {x} : rc'[o] = rc[o]
    BY <1>9, <1>16, <2>1 DEF ReleaseAtomic, IInv, TypeOK
  <2>3. /\ Live' = IF rc[x] = 1 THEN Live \ {x} ELSE Live
        /\ OwnedCells' = OwnedCells
    <3>1. CASE rc[x] = 1
      <4>1. FrameObjs(frames)' = FrameObjs(frames) \cup {x}
        BY <1>3, <1>10, <1>16, <3>1
      <4>2. FrameCells(frames)' = FrameCells(frames) \cup ({x} \X Slot)
        BY <1>3, <1>10, <1>16, <3>1
      <4>3. Live' = Live \ {x}
        BY <4>1, <1>1 DEF Live
      <4>4. OwnedCells' = OwnedCells
        BY <4>2, <4>3, <2>1 DEF OwnedCells
      <4> QED BY <3>1, <4>3, <4>4
    <3>2. CASE rc[x] # 1
      <4>1. frames' = frames
        BY <1>3, <1>10, <3>2
      <4> QED BY <1>1, <3>2, <4>1 DEF Live, OwnedCells, FrameObjs, FrameCells
    <3> QED BY <3>1, <3>2
  <2>4. \A o \in Obj : Refs(o)' = Refs(o)
    BY <1>1, <2>3 DEF Refs
  <2>5. Tokens(x)' \subseteq Tokens(x) /\ Cardinality(Tokens(x)') = Cardinality(Tokens(x)) - 1
    <3>1. \A u \in Thread : \A j \in Kind :
            Holds(u, j, x)' <=> Holds(u, j, x) /\ ~ (u = t /\ j = "old")
      BY <1>14, <2>1
    <3> QED BY <2>1, <3>1, LoseToken
  <2>6. \A o \in Obj \ {x} : Tokens(o)' = Tokens(o)
    BY <1>14, SameTokens
  <2>7. \A o \in Obj : Claims(o)' = Claims(o) - IF o = x THEN 1 ELSE 0
    <3>1. Claims(x)' = Claims(x) - 1
      BY <2>1, <2>4, <2>5, RefsFinite, TokensFinite DEF Claims, IInv
    <3>2. \A o \in Obj \ {x} : Claims(o)' = Claims(o)
      BY <2>4, <2>6 DEF Claims
    <3> QED BY <3>1, <3>2, ClaimsLemma DEF IInv
  <2>8. \A o \in Obj : Tokens(o)' \subseteq Tokens(o)
    BY <2>5, <2>6
  <2>9. OwnedCells' \subseteq OwnedCells
    BY <2>3
  <2>10. Ownership' /\ Counts' /\ Typed'
    BY <1>1, <2>1, <2>2, <2>3, <2>7, <2>8, <2>9, LoseClaim
  <2> QED BY <1>10, <1>13, <2>10
<1> QED BY <1>15, <1>16

\* The release of a field by the drop function on top of the stack.
LEMMA DropFieldClaims ==
  ASSUME IInv, NEW t \in Thread, NEW s \in Slot, DropField(t, s)
  PROVE  frames' \in Stacks /\ CallStacks' /\ Ownership' /\ Counts' /\ Typed'
<1>1. /\ pc[t] = "drop" /\ s \in Top(t)[2]
      /\ alloc' = alloc /\ ref' = ref /\ val' = val /\ run' = run /\ old' = old /\ pc' = pc
      /\ ReleaseAtomic(t, ref[<<Top(t)[1], s>>], Append(Below(t), <<Top(t)[1], Top(t)[2] \ {s}>>))
  BY DEF DropField, pthreads
<1>2. frames \in Stacks /\ DroppedOnce(frames) /\ FrameObjs(frames) \subseteq alloc
  BY FramesTyped DEF IInv, CallStacks
<1>3. frames[t] # <<>>
  BY <1>1 DEF IInv, CallStacks
<1>4. PICK d \in Obj : d = Top(t)[1]
  BY <1>2, <1>3, TopFrame
<1>5. PICK c : c = <<d, s>>
  OBVIOUS
<1>6. PICK x : x = ref[c]
  OBVIOUS
<1>7. c \in FrameCells(frames)
  <2>1. /\ Len(frames[t]) \in DOMAIN frames[t] /\ frames[t][Len(frames[t])][1] = d
        /\ s \in frames[t][Len(frames[t])][2]
    BY <1>1, <1>2, <1>3, <1>4, TopFrame DEF Top
  <2>2. c \in Obj \X Slot /\ c[1] = d /\ c[2] = s
    BY <1>4, <1>5
  <2> QED BY <2>1, <2>2 DEF FrameCells
<1>8. PICK g \in Stacks :
        /\ g = [frames EXCEPT ![t] = Append(Below(t), <<d, Top(t)[2] \ {s}>>)]
        /\ DroppedOnce(g) /\ d \in FrameObjs(frames) /\ FrameObjs(g) = FrameObjs(frames)
        /\ FrameCells(g) = FrameCells(frames) \ {<<d, s>>}
  BY <1>2, <1>3, <1>4, ShrinkStack
<1>9. /\ FrameObjs(g) = FrameObjs(frames) /\ FrameCells(g) = FrameCells(frames) \ {c}
      /\ DroppedOnce(g)
  BY <1>5, <1>8
<1>10. \A u \in Thread : u # t => g[u] = frames[u]
  BY <1>8 DEF Stacks
<1>11. ReleaseAtomic(t, x, g[t])
  <2>1. g[t] = Append(Below(t), <<d, Top(t)[2] \ {s}>>)
    BY <1>2, <1>8 DEF Stacks
  <2> QED BY <2>1, <1>1, <1>4, <1>5, <1>6
<1>12. c \in OwnedCells /\ x \in Live \cup {NULL}
  BY <1>6, <1>7 DEF IInv, Ownership, OwnedCells
<1>13. Live \subseteq Obj /\ Live \cap FrameObjs(frames) = {} /\ NULL \notin Obj
  BY OwnedAreCells, Sorts DEF IInv, Live
<1>14. x \in Obj \cup {NULL} /\ x \notin FrameObjs(g)
  BY <1>9, <1>12, <1>13 DEF FrameObjs
<1>15. /\ frames' \in Stacks /\ DroppedOnce(frames')
       /\ \A u \in Thread : u # t => frames'[u] = frames[u]
       /\ x # NULL /\ rc[x] = 1 =>
            /\ FrameObjs(frames') = FrameObjs(g) \cup {x}
            /\ FrameCells(frames') = FrameCells(g) \cup ({x} \X Slot)
            /\ frames'[t] = Append(g[t], <<x, Slot>>)
       /\ ~ (x # NULL /\ rc[x] = 1) => frames' = g
  BY ONLY <1>2, <1>9, <1>10, <1>11, <1>14, ReleaseStack, t \in Thread, g \in Stacks
<1>16. /\ FrameObjs(frames') = IF x # NULL /\ rc[x] = 1 THEN FrameObjs(frames) \cup {x}
                                                         ELSE FrameObjs(frames)
       /\ FrameCells(frames') = IF x # NULL /\ rc[x] = 1
                                  THEN (FrameCells(frames) \ {c}) \cup ({x} \X Slot)
                                  ELSE FrameCells(frames) \ {c}
  <2>1. CASE x # NULL /\ rc[x] = 1
    BY <2>1, <1>9, <1>15
  <2>2. CASE ~ (x # NULL /\ rc[x] = 1)
    BY <2>2, <1>9, <1>15
  <2> QED BY <2>1, <2>2
<1>17. frames'[t] # <<>>
  <2>1. /\ Below(t) \in Seq(Frame) /\ <<d, Top(t)[2] \ {s}>> \in Frame
        /\ g[t] = Append(Below(t), <<d, Top(t)[2] \ {s}>>)
    BY <1>2, <1>3, <1>4, <1>8, TopFrame DEF Stacks, Frame
  <2>2. g[t] \in Seq(Frame) /\ Len(g[t]) > 0
    BY <2>1, AppendProperties, LenProperties
  <2>3. ASSUME x # NULL, rc[x] = 1 PROVE frames'[t] \in Seq(Frame) /\ Len(frames'[t]) > 0
    <3>1. <<x, Slot>> \in Frame /\ frames'[t] = Append(g[t], <<x, Slot>>)
      BY <1>14, <1>15, <2>3 DEF Frame
    <3> QED BY <2>2, <3>1, AppendProperties, LenProperties
  <2>4. frames'[t] \in Seq(Frame) /\ Len(frames'[t]) > 0
    BY <2>2, <2>3, <1>15
  <2> QED BY <2>4, EmptySeq
<1>18. CallStacks'
  <2>1. DroppedOnce(frames)'
    BY <1>15 DEF DroppedOnce
  <2>2. FrameObjs(frames)' \subseteq alloc'
    <3>1. x # NULL => x \in alloc
      BY <1>12 DEF Live
    <3>2. FrameObjs(frames') \subseteq alloc
      BY <3>1, <1>2, <1>16
    <3> QED BY <3>2, <1>1 DEF FrameObjs
  <2>3. \A u \in Thread : pc'[u] = "drop" <=> frames'[u] # <<>>
    BY <1>1, <1>15, <1>17 DEF IInv, CallStacks
  <2> QED BY <2>1, <2>2, <2>3 DEF CallStacks
<1>19. Live' = IF x # NULL /\ rc[x] = 1 THEN Live \ {x} ELSE Live
  <2>1. Live' = alloc \ FrameObjs(frames')
    BY <1>1 DEF Live, FrameObjs
  <2> QED BY <2>1, <1>16 DEF Live
<1>20. c \notin Thread \cup Static \cup (Live \X Slot)
  <2>1. c \in Obj \X Slot /\ c[1] \in FrameObjs(frames)
    BY <1>5, <1>8
  <2> QED BY <2>1, <1>13, Sorts, ThreadsAssumption
<1>21. OwnedCells' = OwnedCells \ {c}
  <2>1. OwnedCells' = Thread \cup Static \cup (Live' \X Slot) \cup FrameCells(frames')
    BY DEF OwnedCells, FrameCells
  <2>2. CASE x # NULL /\ rc[x] = 1
    <3>1. x \in Live /\ x # c[1]
      BY <2>2, <1>12, <1>5, <1>20
    <3>2. (Live \ {x}) \X Slot = (Live \X Slot) \ ({x} \X Slot) /\ {x} \X Slot \subseteq Live \X Slot
      BY <3>1
    <3>3. c \notin {x} \X Slot
      BY <3>1
    <3>4. /\ FrameCells(frames') = (FrameCells(frames) \ {c}) \cup ({x} \X Slot)
          /\ Live' = Live \ {x}
      BY <2>2, <1>16, <1>19
    <3> QED BY <2>1, <3>2, <3>3, <3>4, <1>20 DEF OwnedCells
  <2>3. CASE ~ (x # NULL /\ rc[x] = 1)
    <3>1. FrameCells(frames') = FrameCells(frames) \ {c} /\ Live' = Live
      BY <2>3, <1>16, <1>19
    <3> QED BY <2>1, <3>1, <1>20 DEF OwnedCells
  <2> QED BY <2>2, <2>3
<1>22. \A o \in Obj : \A u \in Thread : \A j \in Kind : Holds(u, j, o)' <=> Holds(u, j, o)
  BY <1>1 DEF Holds
<1>23. \A o \in Obj : Tokens(o)' = Tokens(o)
  BY <1>22, SameTokens
<1>24. \A o \in Obj : Refs(o)' = Refs(o) \ {c} /\ (c \in Refs(o) <=> o = x)
  BY <1>1, <1>6, <1>12, <1>21 DEF Refs
<1>25. ASSUME NEW o \in Obj PROVE Claims(o)' = Claims(o) - IF o = x THEN 1 ELSE 0
  <2>1. CASE o = x
    <3>1. Cardinality(Refs(o)') = Cardinality(Refs(o)) - 1
      BY <2>1, <1>24, RefsFinite, FS_RemoveElement DEF IInv
    <3> QED BY <2>1, <3>1, <1>23, RefsFinite, TokensFinite DEF Claims, IInv
  <2>2. CASE o # x
    <3>1. Refs(o)' = Refs(o)
      BY <2>2, <1>24
    <3>2. Claims(o)' = Claims(o)
      BY <3>1, <1>23 DEF Claims
    <3> QED BY <2>2, <3>2, ClaimsLemma DEF IInv
  <2> QED BY <2>1, <2>2
<1>26. CASE x = NULL
  <2>1. Live' = Live /\ rc' = rc
    BY <1>11, <1>19, <1>26 DEF ReleaseAtomic
  <2>2. \A o \in Live : Claims(o)' = Claims(o)
    BY <1>13, <1>25, <1>26, ClaimsLemma DEF IInv
  <2>3. \A k \in OwnedCells' : ref'[k] \in Live \cup {NULL}
    BY <1>1, <1>21 DEF IInv, Ownership
  <2>4. \A o \in Obj : \A u \in Thread : \A j \in Kind : Holds(u, j, o)' => o \in Live
    BY <1>22 DEF IInv, Ownership
  <2>5. \A k \in Live \X Slot : ref'[k] # NULL => <<k[1], ref'[k]>> \in Shape
    BY <1>1 DEF IInv, Typed
  <2>6. Ownership' /\ Counts' /\ Typed'
    BY <2>1, <2>2, <2>3, <2>4, <2>5, SameClaims
  <2> QED BY <1>15, <1>18, <2>6
<1>27. CASE x # NULL
  <2>1. x \in Live /\ x \in Obj
    BY <1>12, <1>13, <1>27
  <2>2. rc'[x] = rc[x] - 1 /\ \A o \in Obj \ {x} : rc'[o] = rc[o]
    BY <1>11, <1>27, <2>1 DEF ReleaseAtomic, IInv, TypeOK
  <2>3. Live' = IF rc[x] = 1 THEN Live \ {x} ELSE Live
    BY <1>19, <1>27
  <2>4. OwnedCells' \subseteq OwnedCells /\ \A o \in Obj : Tokens(o)' \subseteq Tokens(o)
    BY <1>21, <1>23
  <2>5. Ownership' /\ Counts' /\ Typed'
    BY <1>1, <1>25, <2>1, <2>2, <2>3, <2>4, LoseClaim
  <2> QED BY <1>15, <1>18, <2>5
<1> QED BY <1>26, <1>27

\* The drop function returns and the object is freed: nothing counted it any more.
LEMMA DropEndClaims ==
  ASSUME IInv, NEW t \in Thread, DropEnd(t)
  PROVE  frames' \in Stacks /\ CallStacks' /\ Ownership' /\ Counts' /\ Typed'
<1>1. /\ pc[t] = "drop" /\ Top(t)[2] = {} /\ alloc' = alloc \ {Top(t)[1]}
      /\ frames' = [frames EXCEPT ![t] = Below(t)]
      /\ pc' = [pc EXCEPT ![t] = IF Below(t) = <<>> THEN Resume(t) ELSE "drop"]
      /\ ref' = ref /\ rc' = rc /\ val' = val /\ run' = run /\ old' = old
  BY DEF DropEnd, Goto, pthreads
<1>2. frames \in Stacks /\ DroppedOnce(frames) /\ FrameObjs(frames) \subseteq alloc
  BY FramesTyped DEF IInv, CallStacks
<1>3. frames[t] # <<>>
  BY <1>1 DEF IInv, CallStacks
<1>4. PICK d \in Obj : d = Top(t)[1]
  BY <1>2, <1>3, TopFrame
<1>5. PICK g \in Stacks :
        /\ g = [frames EXCEPT ![t] = Below(t)]
        /\ DroppedOnce(g) /\ d \in FrameObjs(frames) /\ FrameObjs(g) = FrameObjs(frames) \ {d}
        /\ FrameCells(g) = FrameCells(frames)
  BY <1>1, <1>2, <1>3, <1>4, PopStack
<1>6. frames' = g
  BY <1>1, <1>5
<1>7. /\ frames'[t] = Below(t) /\ pc'[t] = (IF Below(t) = <<>> THEN Resume(t) ELSE "drop")
      /\ Resume(t) \in {"finish", "idle"}
      /\ \A u \in Thread : u # t => pc'[u] = pc[u] /\ frames'[u] = frames[u]
  BY <1>1, <1>2 DEF IInv, TypeOK, Resume, Stacks
<1>8. CallStacks'
  <2>1. DroppedOnce(frames)'
    BY <1>5, <1>6 DEF DroppedOnce
  <2>2. FrameObjs(frames)' \subseteq alloc'
    BY <1>1, <1>2, <1>4, <1>5, <1>6 DEF FrameObjs
  <2>3. \A u \in Thread : pc'[u] = "drop" <=> frames'[u] # <<>>
    BY <1>7 DEF IInv, CallStacks
  <2> QED BY <2>1, <2>2, <2>3 DEF CallStacks
<1>9. Live' = Live
  <2>1. Live' = (alloc \ {d}) \ FrameObjs(g)
    <3>1. alloc' = alloc \ {d}
      BY <1>1, <1>4
    <3>2. FrameObjs(frames)' = FrameObjs(g)
      BY <1>6 DEF FrameObjs
    <3> QED BY <3>1, <3>2 DEF Live
  <2> QED BY <2>1, <1>5 DEF Live
<1>10. OwnedCells' = OwnedCells
  <2>1. OwnedCells' = Thread \cup Static \cup (Live' \X Slot) \cup FrameCells(g)
    BY <1>6 DEF OwnedCells, FrameCells
  <2> QED BY <2>1, <1>5, <1>9 DEF OwnedCells
<1>11. \A o \in Obj : \A u \in Thread : \A j \in Kind : Holds(u, j, o)' <=> Holds(u, j, o)
  BY <1>1, <1>7 DEF Holds
<1> QED BY <1>1, <1>6, <1>8, <1>9, <1>10, <1>11, Quiet

\* The entry point releases a static: its reference becomes main's.
LEMMA ReturnClaims ==
  ASSUME IInv, Return
  PROVE  Ownership' /\ Counts' /\ Typed'
<1>1. /\ pc[Main] = "idle" /\ alloc' = alloc /\ rc' = rc /\ frames' = frames /\ val' = val
      /\ run' = run
  BY DEF Return, pthreads
<1>2. Live' = Live /\ OwnedCells' = OwnedCells
  BY <1>1 DEF Live, OwnedCells, FrameObjs, FrameCells
<1>3. CASE \A s \in Static : ref[s] = NULL
  <2>1. pc' = [pc EXCEPT ![Main] = "exit"] /\ ref' = ref /\ old' = old
    BY <1>3 DEF Return, Goto
  <2>2. pc'[Main] = "exit" /\ \A u \in Thread : u # Main => pc'[u] = pc[u]
    BY <2>1, Sorts DEF IInv, TypeOK
  <2>3. \A o \in Obj : \A u \in Thread : \A j \in Kind : Holds(u, j, o)' <=> Holds(u, j, o)
    BY <1>1, <2>1, <2>2 DEF Holds
  <2> QED BY <1>1, <1>2, <2>1, <2>3, Quiet
<1>4. CASE ~ \A s \in Static : ref[s] = NULL
  <2>1. PICK s \in Static :
          /\ ref[s] # NULL /\ pc' = [pc EXCEPT ![Main] = "release"]
          /\ old' = [old EXCEPT ![Main] = ref[s]] /\ ref' = [ref EXCEPT ![s] = NULL]
    BY <1>4 DEF Return, Goto
  <2>2. PICK x : x = ref[s]
    OBVIOUS
  <2>3. s \in OwnedCells /\ s \in Cell /\ s \notin Obj \X Slot /\ x \in Live /\ Live \subseteq Obj
    BY <2>1, <2>2, Sorts, OwnedAreCells DEF IInv, Ownership, OwnedCells
  <2>4. /\ pc'[Main] = "release" /\ old'[Main] = x
        /\ \A u \in Thread : u # Main => pc'[u] = pc[u] /\ old'[u] = old[u]
        /\ ref'[s] = NULL /\ \A c \in Cell : c # s => ref'[c] = ref[c]
    BY <2>1, <2>2, <2>3, Sorts DEF IInv, TypeOK
  <2>5. \A o \in Obj : \A u \in Thread : \A j \in Kind :
          Holds(u, j, o)' <=> Holds(u, j, o) \/ (u = Main /\ j = "old" /\ o = x)
    <3> SUFFICES ASSUME NEW o \in Obj, NEW u \in Thread, NEW j \in Kind
                 PROVE  Holds(u, j, o)' <=> Holds(u, j, o) \/ (u = Main /\ j = "old" /\ o = x)
      OBVIOUS
    <3>1. CASE u = Main
      BY <3>1, <1>1, <2>4 DEF Holds, Kind
    <3>2. CASE u # Main
      BY <3>2, <1>1, <2>4 DEF Holds, Kind
    <3> QED BY <3>1, <3>2
  <2>6. "old" \in Kind /\ \A o \in Obj : ~ Holds(Main, "old", o)
    BY <1>1 DEF Holds, Kind
  <2>7. ASSUME NEW o \in Obj PROVE Claims(o)' = Claims(o)
    <3>0. Refs(o)' = {c \in OwnedCells : ref'[c] = o} /\ NULL # o /\ OwnedCells \subseteq Cell
      BY <1>2, Sorts, OwnedAreCells DEF Refs, IInv
    <3>1. CASE o = x
      <4>1. Refs(o)' = Refs(o) \ {s} /\ s \in Refs(o)
        BY <3>0, <3>1, <2>2, <2>3, <2>4 DEF Refs
      <4>2. Cardinality(Refs(o)') = Cardinality(Refs(o)) - 1
        BY <4>1, RefsFinite, FS_RemoveElement DEF IInv
      <4>3. Main \in Thread /\ \A u \in Thread : \A j \in Kind :
              Holds(u, j, o)' <=> Holds(u, j, o) \/ (u = Main /\ j = "old")
        BY <2>5, <3>1, Sorts
      <4>4. Cardinality(Tokens(o)') = Cardinality(Tokens(o)) + 1
        BY <2>6, <4>3, GainToken
      <4> QED BY <4>2, <4>4, RefsFinite, TokensFinite DEF Claims, IInv
    <3>2. CASE o # x
      <4>1. Refs(o)' = Refs(o)
        BY <3>0, <3>2, <2>2, <2>4 DEF Refs
      <4>2. Tokens(o)' = Tokens(o)
        BY <2>5, <3>2, SameTokens
      <4> QED BY <4>1, <4>2 DEF Claims
    <3> QED BY <3>1, <3>2
  <2>8. \A c \in OwnedCells' : ref'[c] \in Live \cup {NULL}
    BY <1>2, <2>4, OwnedAreCells DEF IInv, Ownership
  <2>9. \A o \in Obj : \A u \in Thread : \A j \in Kind : Holds(u, j, o)' => o \in Live
    BY <2>3, <2>5 DEF IInv, Ownership
  <2>10. \A c \in Live \X Slot : ref'[c] # NULL => <<c[1], ref'[c]>> \in Shape
    <3>1. \A c \in Live \X Slot : c \in Cell /\ c # s
      BY <2>3, Sorts
    <3> QED BY <3>1, <2>4 DEF IInv, Typed
  <2>11. \A o \in Live : Claims(o)' = Claims(o)
    BY <2>3, <2>7
  <2> QED BY <1>1, <1>2, <2>8, <2>9, <2>10, <2>11, SameClaims
<1> QED BY <1>3, <1>4

-----------------------------------------------------------------------------
(* Types and life cycles                                                    *)

\* The regions that are left when a thread leaves the innermost one.
LEMMA OuterRegions ==
  ASSUME TypeOK, NEW t \in Thread, regions[t] # <<>>
  PROVE  LET n == Len(regions[t])  outer == SubSeq(regions[t], 1, n - 1)
         IN  /\ n \in Nat /\ n > 0 /\ DOMAIN regions[t] = 1 .. n /\ n \in DOMAIN regions[t]
             /\ outer \in Seq({"block", "method"}) /\ DOMAIN outer = 1 .. n - 1
             /\ \A i \in 1 .. n - 1 : outer[i] = regions[t][i]
<1> DEFINE n == Len(regions[t])  outer == SubSeq(regions[t], 1, n - 1)
<1>1. regions[t] \in Seq({"block", "method"})
  BY DEF TypeOK
<1>2. n \in Nat /\ n > 0 /\ DOMAIN regions[t] = 1 .. n
  BY <1>1, LenProperties, EmptySeq
<1>3. /\ outer \in Seq({"block", "method"}) /\ Len(outer) = n - 1
      /\ \A i \in 1 .. n - 1 : outer[i] = regions[t][i]
  BY <1>1, <1>2, ElementOfSeq, SubSeqProperties
<1>4. DOMAIN outer = 1 .. n - 1
  BY <1>3, LenProperties
<1> QED BY <1>2, <1>3, <1>4

\* No step leaves the types.
LEMMA TypeStep ==
  ASSUME IInv, [Next]_vars
  PROVE  TypeOK'
<1> USE DEF TypeOK, Goto, memory, operation, pthreads, monitor
<1>0. TypeOK /\ Main \in Thread /\ Worker \subseteq Thread /\ NULL \notin Obj
      /\ Thread \subseteq Cell /\ Shared \subseteq Cell
  BY Sorts DEF IInv
<1>1. ASSUME NEW g PROVE g \in Stacks <=> g \in [Thread -> Seq(Obj \X SUBSET Slot)]
  BY DEF Stacks, Frame
<1>2. ASSUME NEW t \in Thread, NEW c \in Cell, NEW x \in Obj \cup {NULL}, NEW first \in {"retain", "load"},
             Begin(t, c, x, first)
      PROVE  /\ pc' \in [Thread -> {"none", "idle", "retain", "load", "write", "release", "drop",
                                    "finish", "exit"}]
             /\ val' \in [Thread -> Obj \cup {NULL}] /\ old' \in [Thread -> Obj \cup {NULL}]
             /\ dst' \in [Thread -> Cell] /\ frames' \in [Thread -> Seq(Obj \X SUBSET Slot)]
             /\ UNCHANGED <<pthreads, monitor>>
  BY <1>0, <1>2 DEF Begin
<1>3. ASSUME NEW t \in Thread, EnterBlock(t) PROVE TypeOK'
  <2>1. Append(regions[t], "block") \in Seq({"block", "method"})
    <3>1. regions[t] \in Seq({"block", "method"}) /\ "block" \in {"block", "method"}
      BY <1>0
    <3> QED BY <3>1, AppendProperties
  <2>2. regions' \in [Thread -> Seq({"block", "method"})] /\ owner' \in Thread \cup {NULL} /\ depth' \in Nat
    BY <1>0, <1>3, <2>1 DEF EnterBlock
  <2> QED BY <1>0, <1>3, <2>2 DEF EnterBlock
<1>4. ASSUME NEW t \in Thread, CallSyncMethod(t) PROVE TypeOK'
  <2>1. Append(regions[t], "method") \in Seq({"block", "method"})
    <3>1. regions[t] \in Seq({"block", "method"}) /\ "method" \in {"block", "method"}
      BY <1>0
    <3> QED BY <3>1, AppendProperties
  <2>2. regions' \in [Thread -> Seq({"block", "method"})]
    BY <1>0, <1>4, <2>1 DEF CallSyncMethod
  <2> QED BY <1>0, <1>4, <2>2 DEF CallSyncMethod
<1>5. ASSUME NEW t \in Thread, Leave(t) PROVE TypeOK'
  <2>1. regions[t] \in Seq({"block", "method"}) /\ regions[t] # <<>>
    BY <1>0, <1>5 DEF Leave
  <2>2. SubSeq(regions[t], 1, Len(regions[t]) - 1) \in Seq({"block", "method"})
    BY <1>0, <2>1, OuterRegions
  <2>3. regions' \in [Thread -> Seq({"block", "method"})]
    BY <1>0, <1>5, <2>2 DEF Leave
  <2>4. depth' \in Nat /\ owner' \in Thread \cup {NULL}
    <3>1. CASE regions[t][Len(regions[t])] = "block"
      <4>1. Len(regions[t]) \in DOMAIN regions[t]
        BY <2>1, LenProperties, EmptySeq
      <4>2. owner = t /\ depth # 0
        BY <3>1, <4>1, <1>0, Sorts DEF IInv, Monitor, Blocks
      <4> QED BY <1>0, <1>5, <3>1, <4>2 DEF Leave
    <3>2. CASE regions[t][Len(regions[t])] # "block"
      BY <1>0, <1>5, <3>2 DEF Leave
    <3> QED BY <3>1, <3>2
  <2> QED BY <1>0, <1>5, <2>3, <2>4 DEF Leave
<1>6. ASSUME NEW t \in Thread, NEW c \in Shared, Load(t, c) \/ Store(t, c) PROVE TypeOK'
  <2>1. ref[c] \in Obj \cup {NULL} /\ ref[t] \in Obj \cup {NULL} /\ t \in Cell /\ c \in Cell
    BY <1>0
  <2>2. Begin(t, t, ref[c], "retain") \/ Begin(t, c, ref[t], "retain")
    BY <1>6 DEF Load, Store
  <2>3. UNCHANGED memory
    BY <1>6 DEF Load, Store
  <2> QED BY <1>0, <1>2, <2>1, <2>2, <2>3
<1>7. ASSUME NEW t \in Thread, NEW c \in Cell, StoreNull(t, c) PROVE TypeOK'
  BY <1>0, <1>2, <1>7 DEF StoreNull
<1>8. ASSUME NEW t \in Thread, NEW o \in Obj, New(t, o) PROVE TypeOK'
  <2>1. alloc' \subseteq Obj /\ ref' \in [Cell -> Obj \cup {NULL}] /\ rc' \in [Obj -> Nat]
    BY <1>0, <1>8 DEF New
  <2> QED BY <1>0, <1>2, <1>8, <2>1 DEF New
<1>9. ASSUME NEW t \in Thread, Retain(t) PROVE TypeOK'
  <2>1. rc' \in [Obj -> Nat]
    BY <1>0, <1>9 DEF Retain
  <2> QED BY <1>0, <1>9, <2>1 DEF Retain
<1>10. ASSUME NEW t \in Thread, LoadOld(t) PROVE TypeOK'
  BY <1>0, <1>10 DEF LoadOld
<1>11. ASSUME NEW t \in Thread, Write(t) PROVE TypeOK'
  BY <1>0, <1>11 DEF Write
<1>12. Resume(Main) \in {"finish", "idle"} /\ \A t \in Thread : Resume(t) \in {"finish", "idle"}
  BY DEF Resume
<1>13. ASSUME NEW t \in Thread, NEW x \in Obj \cup {NULL}, x # NULL => rc[x] > 0, NEW rest,
              ReleaseAtomic(t, x, rest)
       PROVE  rc' \in [Obj -> Nat]
  <2>1. CASE x = NULL
    BY <1>0, <1>13, <2>1 DEF ReleaseAtomic
  <2>2. CASE x # NULL
    <3>1. x \in Obj /\ rc[x] \in Nat /\ rc[x] > 0 /\ rc' = [rc EXCEPT ![x] = @ - 1]
      BY <1>0, <1>13, <2>2 DEF ReleaseAtomic
    <3> QED BY <1>0, <3>1
  <2> QED BY <2>1, <2>2
<1>14. ASSUME NEW t \in Thread, ReleaseOld(t) PROVE TypeOK'
  <2>1. frames' \in [Thread -> Seq(Obj \X SUBSET Slot)]
    BY <1>1, <1>14, ReleaseOldClaims
  <2>2. old[t] # NULL => rc[old[t]] > 0
    <3>1. old[t] # NULL => Holds(t, "old", old[t]) /\ old[t] \in Obj /\ "old" \in Kind
      BY <1>0, <1>14 DEF Holds, ReleaseOld, Kind
    <3>2. old[t] # NULL => old[t] \in Live
      BY <3>1 DEF IInv, Ownership
    <3> QED BY <3>2 DEF IInv, Counts
  <2>3. rc' \in [Obj -> Nat]
    BY <1>0, <1>13, <1>14, <2>2 DEF ReleaseOld
  <2> QED BY <1>0, <1>12, <1>14, <2>1, <2>3 DEF ReleaseOld
<1>15. ASSUME NEW t \in Thread, NEW s \in Slot, DropField(t, s) PROVE TypeOK'
  <2>1. frames' \in [Thread -> Seq(Obj \X SUBSET Slot)]
    BY <1>1, <1>15, DropFieldClaims
  <2> DEFINE x == ref[<<Top(t)[1], s>>]
  <2>2. x \in Live \cup {NULL}
    <3>1. frames \in Stacks /\ frames[t] # <<>>
      BY <1>15, FramesTyped DEF IInv, CallStacks, DropField
    <3>2. <<Top(t)[1], s>> \in FrameCells(frames)
      BY <1>15, <3>1, TopFrame DEF FrameCells, Top, DropField
    <3> QED BY <3>2 DEF IInv, Ownership, OwnedCells
  <2>3. rc' \in [Obj -> Nat]
    <3>1. x \in Obj \cup {NULL} /\ (x # NULL => rc[x] > 0)
      BY <2>2, OwnedAreCells DEF IInv, Counts
    <3> QED BY <1>0, <1>13, <1>15, <3>1 DEF DropField
  <2> QED BY <1>0, <1>15, <2>1, <2>3 DEF DropField
<1>16. ASSUME NEW t \in Thread, DropEnd(t) PROVE TypeOK'
  <2>1. frames' \in [Thread -> Seq(Obj \X SUBSET Slot)]
    BY <1>1, <1>16, DropEndClaims
  <2> QED BY <1>0, <1>12, <1>16, <2>1 DEF DropEnd
<1>17. ASSUME NEW w \in Worker, Start(w) PROVE TypeOK'
  <2>1. rc' \in [Obj -> Nat] /\ run' \in [Worker -> Obj \cup {NULL}]
    BY <1>0, <1>17 DEF Start
  <2> QED BY <1>0, <1>17, <2>1 DEF Start
<1>18. ASSUME NEW w \in Worker, EndRun(w) PROVE TypeOK'
  BY <1>0, <1>18 DEF EndRun
<1>19. ASSUME NEW w \in Worker, Finish(w) \/ Join(w) PROVE TypeOK'
  BY <1>0, <1>19 DEF Finish, Join
<1>20. CASE Return
  <2>1. pc' \in [Thread -> {"none", "idle", "retain", "load", "write", "release", "drop",
                            "finish", "exit"}]
        /\ old' \in [Thread -> Obj \cup {NULL}] /\ ref' \in [Cell -> Obj \cup {NULL}]
    <3>1. CASE \A s \in Static : ref[s] = NULL
      BY <1>0, <1>20, <3>1 DEF Return
    <3>2. CASE ~ \A s \in Static : ref[s] = NULL
      <4>1. PICK s \in Static :
              /\ pc' = [pc EXCEPT ![Main] = "release"]
              /\ old' = [old EXCEPT ![Main] = ref[s]] /\ ref' = [ref EXCEPT ![s] = NULL]
        BY <1>20, <3>2 DEF Return
      <4> QED BY <1>0, <4>1, Sorts
    <3> QED BY <3>1, <3>2
  <2> QED BY <1>0, <1>20, <2>1 DEF Return
<1>21. CASE UNCHANGED vars
  BY <1>0, <1>21 DEF vars
<1> QED BY <1>3, <1>4, <1>5, <1>6, <1>7, <1>8, <1>9, <1>10, <1>11, <1>14, <1>15, <1>16, <1>17,
           <1>18, <1>19, <1>20, <1>21 DEF Next, Program, Step

\* What a step of one thread leaves alone: the state of the other threads' operations, the
\* cells they reach, and the monitor if another thread owns it.
LEMMA OthersUndisturbed ==
  ASSUME IInv, NEW t \in Thread, Program(t) \/ Step(t), NEW u \in Thread, u # t
  PROVE  /\ pc'[u] = pc[u] /\ val'[u] = val[u] /\ dst'[u] = dst[u] /\ old'[u] = old[u]
         /\ ref'[u] = ref[u] /\ regions'[u] = regions[u] /\ (owner' = u <=> owner = u)
         /\ \A c \in OwnedCells : Reach(u, c) => ref'[c] = ref[c]
<1> USE DEF Goto, memory, operation, pthreads, monitor
<1>0. TypeOK /\ Thread \subseteq Cell /\ OwnedCells \subseteq Cell /\ u \in OwnedCells /\ u \in Cell
      /\ NULL \notin Thread
  BY Sorts, OwnedAreCells DEF IInv, OwnedCells
<1>1. CASE EnterBlock(t) \/ CallSyncMethod(t)
  BY <1>0, <1>1 DEF EnterBlock, CallSyncMethod, TypeOK
<1>2. CASE Leave(t)
  <2>1. CASE regions[t][Len(regions[t])] = "block"
    <3>1. Len(regions[t]) \in DOMAIN regions[t]
      BY <1>0, <1>2, OuterRegions DEF Leave
    <3>2. owner = t
      BY <2>1, <3>1 DEF IInv, Monitor, Blocks
    <3> QED BY <1>0, <1>2, <2>1, <3>2 DEF Leave, TypeOK
  <2>2. CASE regions[t][Len(regions[t])] # "block"
    BY <1>0, <1>2, <2>2 DEF Leave, TypeOK
  <2> QED BY <2>1, <2>2
<1>3. ASSUME NEW c, NEW x, NEW first, Begin(t, c, x, first)
      PROVE  /\ pc'[u] = pc[u] /\ val'[u] = val[u] /\ dst'[u] = dst[u] /\ old'[u] = old[u]
             /\ regions'[u] = regions[u] /\ owner' = owner
  BY <1>0, <1>3 DEF Begin, TypeOK
<1>4. CASE \E c \in Shared : Load(t, c) \/ Store(t, c)
  BY <1>3, <1>4 DEF Load, Store
<1>5. CASE \E c \in Cell : StoreNull(t, c)
  BY <1>3, <1>5 DEF StoreNull
<1>6. CASE \E o \in Obj : New(t, o)
  <2>1. PICK o \in Obj : New(t, o)
    BY <1>6
  <2>2. /\ o \notin alloc /\ Begin(t, t, o, "load")
        /\ ref' = [c \in Cell |-> IF c \in Fields(o) THEN NULL ELSE ref[c]]
    BY <2>1 DEF New
  <2>3. Fields(o) \cap OwnedCells = {}
    <3>1. o \notin FrameObjs(frames) /\ o \notin Live
      BY <2>2 DEF IInv, CallStacks, Live
    <3>2. Fields(o) \cap FrameCells(frames) = {}
      BY <3>1 DEF FrameCells, FrameObjs, Fields
    <3> QED BY <3>1, <3>2, Sorts DEF OwnedCells
  <2>4. \A c \in OwnedCells : ref'[c] = ref[c]
    BY <1>0, <2>2, <2>3
  <2> QED BY <1>0, <1>3, <2>2, <2>4
<1>7. CASE Retain(t) \/ LoadOld(t)
  BY <1>0, <1>7 DEF Retain, LoadOld, TypeOK
<1>8. CASE Write(t)
  <2>1. Reach(t, dst[t]) /\ dst[t] \in Cell
    BY <1>8 DEF Write, IInv, Operation, Storing, TypeOK
  <2>2. dst[t] # u
    BY <2>1, ReachOwned, Sorts
  <2>3. \A c : Reach(u, c) => c # dst[t]
    BY <2>1, ReachExclusive
  <2>4. \A c \in Cell : c # dst[t] => ref'[c] = ref[c]
    BY <1>0, <1>8, <2>1 DEF Write, TypeOK
  <2> QED BY <1>0, <1>8, <2>2, <2>3, <2>4 DEF Write, TypeOK
<1>9. CASE ReleaseOld(t) \/ DropEnd(t) \/ \E s \in Slot : DropField(t, s)
  BY <1>0, <1>9 DEF ReleaseOld, DropEnd, DropField, TypeOK
<1> QED BY <1>1, <1>2, <1>4, <1>5, <1>6, <1>7, <1>8, <1>9 DEF Program, Step

\* What it does to its own state.
LEMMA OwnState ==
  ASSUME IInv, NEW t \in Thread, Program(t) \/ Step(t)
  PROVE  /\ pc[t] \notin {"none", "exit", "finish"} /\ run' = run /\ status' = status
         /\ pc'[t] \notin {"none", "exit"}
         /\ pc'[t] = "finish" => t \in Worker /\ status[t] = "ending"
         /\ pc[t] \in {"release", "drop"} =>
              /\ pc'[t] \in {"release", "drop", Resume(t)}
              /\ ref' = ref /\ regions' = regions
<1> USE DEF Goto, memory, operation, pthreads, monitor
<1>0. TypeOK
  BY DEF IInv
<1>1. CASE EnterBlock(t) \/ CallSyncMethod(t) \/ Leave(t)
  BY <1>0, <1>1 DEF EnterBlock, CallSyncMethod, Leave, TypeOK
<1>2. ASSUME NEW c, NEW x, NEW first \in {"retain", "load"}, Begin(t, c, x, first)
      PROVE  pc[t] = "idle" /\ run' = run /\ status' = status /\ pc'[t] \in {"retain", "load"}
  BY <1>0, <1>2 DEF Begin, TypeOK
<1>3. CASE \E c \in Shared : Load(t, c) \/ Store(t, c)
  BY <1>2, <1>3 DEF Load, Store
<1>4. CASE \E c \in Cell : StoreNull(t, c)
  BY <1>2, <1>4 DEF StoreNull
<1>5. CASE \E o \in Obj : New(t, o)
  BY <1>2, <1>5 DEF New
<1>6. CASE Retain(t) \/ LoadOld(t) \/ Write(t)
  BY <1>0, <1>6 DEF Retain, LoadOld, Write, TypeOK
<1>7. Resume(t) \in {"finish", "idle"} /\ (Resume(t) = "finish" => t \in Worker /\ status[t] = "ending")
  BY DEF Resume
<1>8. CASE ReleaseOld(t) \/ DropEnd(t) \/ \E s \in Slot : DropField(t, s)
  BY <1>0, <1>7, <1>8 DEF ReleaseOld, DropEnd, DropField, TypeOK
<1> QED BY <1>1, <1>3, <1>4, <1>5, <1>6, <1>8 DEF Program, Step

LEMMA LifecycleStep ==
  ASSUME IInv, [Next]_vars
  PROVE  Lifecycle'
<1> USE DEF Goto, memory, operation, pthreads, monitor
<1>0. /\ TypeOK /\ Lifecycle /\ Main \in Thread /\ Worker \subseteq Thread /\ Main \notin Worker
      /\ NULL \notin Obj /\ Thread \cap Static = {} /\ Static \subseteq Cell /\ Thread \subseteq Cell
  BY Sorts, ThreadsAssumption DEF IInv
<1>1. ASSUME NEW t \in Thread, Program(t) \/ Step(t) PROVE Lifecycle'
  <2>1. /\ pc[t] \notin {"none", "exit", "finish"} /\ run' = run /\ status' = status
        /\ pc'[t] \notin {"none", "exit"}
        /\ pc'[t] = "finish" => t \in Worker /\ status[t] = "ending"
        /\ pc[t] \in {"release", "drop"} =>
             /\ pc'[t] \in {"release", "drop", Resume(t)}
             /\ ref' = ref /\ regions' = regions
    BY <1>1, OwnState
  <2>2. \A u \in Thread : u # t => pc'[u] = pc[u] /\ ref'[u] = ref[u] /\ regions'[u] = regions[u]
    BY <1>1, OthersUndisturbed
  <2>3. t \in Worker /\ status[t] = "ending" =>
          /\ pc'[t] \in {"release", "drop", "finish"}
          /\ ref'[t] = ref[t] /\ regions'[t] = regions[t]
    BY <1>0, <2>1 DEF Lifecycle, Resume
  <2>4. pc'[Main] \notin {"none", "finish", "exit"} \/ (t # Main /\ pc'[Main] = pc[Main])
    BY <1>0, <2>1, <2>2
  <2>5. pc'[Main] # "exit"
    <3>1. pc[Main] = "exit" => t = Main
      BY <1>0, <2>1 DEF Lifecycle, Thread
    <3> QED BY <2>1, <2>2, <2>4, <3>1
  <2>6. ASSUME NEW w \in Worker
        PROVE  /\ status'[w] \in {"new", "done", "joined"} <=> pc'[w] = "none"
               /\ status'[w] = "running" <=> run'[w] # NULL
               /\ status'[w] = "running" => pc'[w] # "finish"
               /\ status'[w] = "ending" => pc'[w] \in {"release", "drop", "finish"}
               /\ status'[w] # "running" => ref'[w] = NULL /\ regions'[w] = <<>>
               /\ pc'[w] # "exit"
    <3>1. CASE w = t
      <4>1. status[w] \in {"running", "ending"}
        BY <1>0, <2>1, <3>1 DEF Lifecycle, TypeOK
      <4> QED BY <1>0, <2>1, <2>3, <3>1, <4>1 DEF Lifecycle
    <3>2. CASE w # t
      BY <1>0, <2>1, <2>2, <3>2 DEF Lifecycle
    <3> QED BY <3>1, <3>2
  <2>7. pc'[Main] \notin {"none", "finish"}
    BY <1>0, <2>4 DEF Lifecycle
  <2> QED BY <2>5, <2>6, <2>7 DEF Lifecycle
<1>2. ASSUME NEW w \in Worker, Start(w) PROVE Lifecycle'
  <2>1. /\ pc'[w] = "idle" /\ status'[w] = "running" /\ run'[w] # NULL /\ ref' = ref /\ regions' = regions
        /\ \A u \in Thread : u # w => pc'[u] = pc[u]
        /\ \A u \in Worker : u # w => status'[u] = status[u] /\ run'[u] = run[u]
        /\ pc[Main] = "idle"
    BY <1>0, <1>2 DEF Start, TypeOK
  <2> QED BY <1>0, <2>1 DEF Lifecycle
<1>3. ASSUME NEW w \in Worker, EndRun(w) PROVE Lifecycle'
  <2>1. /\ pc'[w] = "release" /\ status'[w] = "ending" /\ run'[w] = NULL /\ ref' = ref
        /\ regions' = regions /\ ref[w] = NULL /\ regions[w] = <<>> /\ status[w] = "running"
        /\ \A u \in Thread : u # w => pc'[u] = pc[u]
        /\ \A u \in Worker : u # w => status'[u] = status[u] /\ run'[u] = run[u]
    BY <1>0, <1>3 DEF EndRun, TypeOK
  <2> QED BY <1>0, <2>1 DEF Lifecycle
<1>4. ASSUME NEW w \in Worker, Finish(w) PROVE Lifecycle'
  <2>1. /\ pc[w] = "finish" /\ pc'[w] = "none" /\ status'[w] = "done" /\ run' = run /\ ref' = ref
        /\ regions' = regions
        /\ \A u \in Thread : u # w => pc'[u] = pc[u]
        /\ \A u \in Worker : u # w => status'[u] = status[u]
    BY <1>0, <1>4 DEF Finish, TypeOK
  <2>2. status[w] = "ending"
    BY <1>0, <2>1 DEF Lifecycle, TypeOK
  <2> QED BY <1>0, <2>1, <2>2 DEF Lifecycle
<1>5. ASSUME NEW w \in Worker, Join(w) PROVE Lifecycle'
  <2>1. /\ pc[Main] = "idle" /\ status[w] = "done" /\ status'[w] = "joined" /\ pc' = pc /\ run' = run
        /\ ref' = ref /\ regions' = regions
        /\ \A u \in Worker : u # w => status'[u] = status[u]
    BY <1>0, <1>5 DEF Join, TypeOK
  <2> QED BY <1>0, <2>1 DEF Lifecycle
<1>6. CASE Return
  <2>1. /\ pc[Main] = "idle" /\ ref[Main] = NULL /\ \A w \in Worker : status[w] \in {"new", "joined"}
        /\ status' = status /\ run' = run /\ regions' = regions
    BY <1>6 DEF Return
  <2>2. CASE \A s \in Static : ref[s] = NULL
    <3>1. pc'[Main] = "exit" /\ ref' = ref /\ \A u \in Thread : u # Main => pc'[u] = pc[u]
      BY <1>0, <1>6, <2>2 DEF Return, TypeOK
    <3> QED BY <1>0, <2>1, <2>2, <3>1 DEF Lifecycle
  <2>3. CASE ~ \A s \in Static : ref[s] = NULL
    <3>1. PICK s \in Static : pc' = [pc EXCEPT ![Main] = "release"] /\ ref' = [ref EXCEPT ![s] = NULL]
      BY <1>6, <2>3 DEF Return
    <3>2. /\ pc'[Main] = "release" /\ \A u \in Thread : u # Main => pc'[u] = pc[u]
          /\ \A u \in Thread : ref'[u] = ref[u]
      BY <1>0, <3>1 DEF TypeOK
    <3> QED BY <1>0, <2>1, <3>2 DEF Lifecycle
  <2> QED BY <2>2, <2>3
<1>7. CASE UNCHANGED vars
  BY <1>0, <1>7 DEF vars, Lifecycle
<1> QED BY <1>1, <1>2, <1>3, <1>4, <1>5, <1>6, <1>7 DEF Next

\* The mutex stays with its owner until the last of its blocks is left.
LEMMA MonitorStep ==
  ASSUME IInv, [Next]_vars
  PROVE  Monitor'
<1> USE DEF monitor
<1>0. TypeOK /\ Monitor /\ NULL \notin Thread
  BY Sorts DEF IInv
<1>1. ASSUME NEW t \in Thread PROVE IsFiniteSet(Blocks(t)) /\ Cardinality(Blocks(t)) \in Nat
  <2>1. DOMAIN regions[t] = 1 .. Len(regions[t]) /\ Len(regions[t]) \in Nat
    BY <1>0, LenProperties DEF TypeOK
  <2>2. IsFiniteSet(1 .. Len(regions[t]))
    BY <2>1, FS_Interval
  <2> QED BY <2>1, <2>2, FS_Subset, FS_CardinalityType DEF Blocks
<1>2. ASSUME NEW t \in Thread, EnterBlock(t) PROVE Monitor'
  <2>1. /\ owner \in {NULL, t} /\ owner' = t /\ depth' = depth + 1
        /\ regions' = [regions EXCEPT ![t] = Append(@, "block")]
    BY <1>2 DEF EnterBlock
  <2>2. regions[t] \in Seq({"block", "method"}) /\ "block" \in {"block", "method"}
    BY <1>0 DEF TypeOK
  <2>3. PICK n \in Nat : n = Len(regions[t])
    BY <2>2, LenProperties
  <2>4. /\ DOMAIN regions[t] = 1 .. n /\ DOMAIN regions'[t] = 1 .. n + 1
        /\ regions'[t][n + 1] = "block" /\ \A i \in 1 .. n : regions'[t][i] = regions[t][i]
    <3>1. regions'[t] = Append(regions[t], "block")
      BY <1>0, <2>1 DEF TypeOK
    <3> QED BY <2>2, <2>3, <3>1, AppendProperties, LenProperties
  <2>5. Blocks(t)' = Blocks(t) \cup {n + 1} /\ n + 1 \notin Blocks(t)
    BY <2>4 DEF Blocks
  <2>6. Cardinality(Blocks(t)') = Cardinality(Blocks(t)) + 1
    BY <1>1, <2>5, FS_AddElement
  <2>7. \A u \in Thread : u # t => Blocks(u)' = Blocks(u) /\ Blocks(u) = {}
    BY <1>0, <2>1 DEF Blocks, Monitor, TypeOK
  <2>8. depth = Cardinality(Blocks(t))
    <3>1. CASE owner = NULL
      BY <1>0, <3>1, FS_EmptySet DEF Monitor
    <3>2. CASE owner = t
      BY <1>0, <3>2 DEF Monitor
    <3> QED BY <2>1, <3>1, <3>2
  <2>9. depth' = Cardinality(Blocks(t)') /\ depth' # 0
    BY <1>0, <2>1, <2>6, <2>8 DEF TypeOK
  <2>10. owner' # NULL => depth' = Cardinality(Blocks(owner))'
    BY <2>1, <2>9 DEF Blocks
  <2> QED BY <1>0, <2>1, <2>7, <2>9, <2>10 DEF Monitor
<1>3. ASSUME NEW t \in Thread, CallSyncMethod(t) PROVE Monitor'
  <2>1. /\ owner' = owner /\ depth' = depth
        /\ regions' = [regions EXCEPT ![t] = Append(@, "method")]
    BY <1>3 DEF CallSyncMethod
  <2>2. regions[t] \in Seq({"block", "method"}) /\ "method" \in {"block", "method"}
    BY <1>0 DEF TypeOK
  <2>3. PICK n \in Nat : n = Len(regions[t])
    BY <2>2, LenProperties
  <2>4. /\ DOMAIN regions[t] = 1 .. n /\ DOMAIN regions'[t] = 1 .. n + 1
        /\ regions'[t][n + 1] = "method" /\ \A i \in 1 .. n : regions'[t][i] = regions[t][i]
    <3>1. regions'[t] = Append(regions[t], "method")
      BY <1>0, <2>1 DEF TypeOK
    <3> QED BY <2>2, <2>3, <3>1, AppendProperties, LenProperties
  <2>5. Blocks(t)' = Blocks(t)
    BY <2>4 DEF Blocks
  <2>6. \A u \in Thread : Blocks(u)' = Blocks(u)
    BY <1>0, <2>1, <2>5 DEF Blocks, TypeOK
  <2> QED BY <1>0, <2>1, <2>6 DEF Monitor, TypeOK
<1>4. ASSUME NEW t \in Thread, Leave(t) PROVE Monitor'
  <2>1. /\ regions[t] # <<>>
        /\ regions' = [regions EXCEPT ![t] = SubSeq(@, 1, Len(@) - 1)]
    BY <1>4 DEF Leave
  <2>2. PICK n \in Nat : n = Len(regions[t]) /\ n > 0
    BY <1>0, <2>1, OuterRegions
  <2>3. /\ DOMAIN regions[t] = 1 .. n /\ DOMAIN regions'[t] = 1 .. n - 1
        /\ \A i \in 1 .. n - 1 : regions'[t][i] = regions[t][i]
    <3>1. regions'[t] = SubSeq(regions[t], 1, n - 1)
      BY <1>0, <2>1, <2>2 DEF TypeOK
    <3> QED BY <1>0, <2>1, <2>2, <3>1, OuterRegions
  <2>4. Blocks(t)' = Blocks(t) \ {n}
    BY <2>3 DEF Blocks
  <2>5. \A u \in Thread : u # t => Blocks(u)' = Blocks(u)
    BY <1>0, <2>1 DEF Blocks, TypeOK
  <2>6. CASE regions[t][n] = "block"
    <3>1. n \in Blocks(t)
      BY <2>2, <2>3, <2>6 DEF Blocks
    <3>2. owner = t /\ depth = Cardinality(Blocks(t))
      BY <1>0, <3>1 DEF Monitor
    <3>3. Cardinality(Blocks(t)') = depth - 1
      BY <1>1, <2>4, <3>1, <3>2, FS_RemoveElement
    <3>4. depth' = depth - 1 /\ owner' = IF depth = 1 THEN NULL ELSE t
      BY <1>4, <2>2, <2>6, <3>2 DEF Leave
    <3>5. depth = 1 => Blocks(t)' = {}
      <4>1. IsFiniteSet(Blocks(t)')
        BY <1>1, <2>4, FS_Subset
      <4> QED BY <3>3, <4>1, FS_EmptySet
    <3>6. \A u \in Thread : u # t => Blocks(u)' = {}
      BY <1>0, <2>5, <3>2 DEF Monitor
    <3>7. owner' = t => depth' = Cardinality(Blocks(owner))'
      BY <3>3, <3>4 DEF Blocks
    <3> QED BY <1>0, <3>2, <3>4, <3>5, <3>6, <3>7 DEF Monitor, TypeOK
  <2>7. CASE regions[t][n] # "block"
    <3>1. Blocks(t)' = Blocks(t)
      BY <2>4, <2>7 DEF Blocks
    <3>2. owner' = owner /\ depth' = depth
      BY <1>4, <2>2, <2>7 DEF Leave
    <3>3. \A u \in Thread : Blocks(u)' = Blocks(u)
      BY <2>5, <3>1
    <3> QED BY <1>0, <3>2, <3>3 DEF Monitor, TypeOK
  <2> QED BY <2>6, <2>7
<1>5. ASSUME UNCHANGED monitor PROVE Monitor'
  BY <1>0, <1>5 DEF Monitor, Blocks
<1>6. ASSUME NEW t \in Thread, Program(t) \/ Step(t) PROVE Monitor'
  <2>1. EnterBlock(t) \/ CallSyncMethod(t) \/ Leave(t) \/ UNCHANGED monitor
    BY <1>6 DEF Program, Step, Load, Store, StoreNull, New, Begin, Retain, LoadOld, Write,
                ReleaseOld, DropField, DropEnd
  <2> QED BY <1>2, <1>3, <1>4, <1>5, <2>1
<1>7. ASSUME NEW w \in Worker, Start(w) \/ EndRun(w) \/ Finish(w) \/ Join(w) PROVE Monitor'
  BY <1>5, <1>7 DEF Start, EndRun, Finish, Join
<1>8. ASSUME Return \/ UNCHANGED vars PROVE Monitor'
  BY <1>5, <1>8 DEF Return, vars
<1> QED BY <1>6, <1>7, <1>8 DEF Next

\* A store in progress keeps the cell and the value it started from.  The accesses to
\* shared cells are locked: this is the one place where that matters.
LEMMA OperationStep ==
  ASSUME Locked, IInv, [Next]_vars, NEW u \in Thread
  PROVE  Operation(u)'
<1> USE DEF Goto, memory, operation, pthreads, monitor
<1>0. TypeOK /\ Operation(u) /\ Thread \subseteq Cell /\ Worker \subseteq Thread /\ Main \in Thread
      /\ NULL \notin Obj /\ u \notin Obj \X Slot /\ Thread \cap Static = {}
  BY Sorts, ThreadsAssumption DEF IInv
<1>1. ASSUME NEW t \in Thread, Program(t) \/ Step(t), u # t PROVE Operation(u)'
  <2>1. run' = run
    BY <1>1, OwnState
  <2> QED BY <1>1, <2>1, OthersUndisturbed, OtherOperation
<1>2. ASSUME ~ Storing(u)' PROVE Operation(u)'
  BY <1>2 DEF Operation, Storing
<1>3. CASE EnterBlock(u) \/ CallSyncMethod(u) \/ Leave(u)
  BY <1>2, <1>3 DEF EnterBlock, CallSyncMethod, Leave, Storing
<1>4. ASSUME NEW c \in Cell, NEW x \in Obj \cup {NULL}, Begin(u, c, x, "retain"), UNCHANGED memory,
             Reach(u, c), c \in Obj \X Slot /\ x # NULL => <<c[1], x>> \in Shape,
             x # NULL => \E b \in Cell : Reach(u, b) /\ ref[b] = x,
             c # u => x \in {NULL, ref[u]}
      PROVE  Operation(u)'
  <2>1. pc'[u] = "retain" /\ dst'[u] = c /\ val'[u] = x /\ ref' = ref /\ run' = run /\ owner' = owner
    BY <1>0, <1>4 DEF Begin, TypeOK
  <2>2. \A b : Reach(u, b) => Reach(u, b)'
    BY <2>1 DEF Reach, Nameable, Fields
  <2>3. Reach(u, dst[u])'
    <3>1. Reach(u, c)'
      BY <1>4, <2>2
    <3> QED BY <2>1, <3>1 DEF Reach
  <2> QED BY <1>4, <2>1, <2>2, <2>3 DEF Operation, Storing
<1>5. ASSUME NEW c \in Shared, Load(u, c) PROVE Operation(u)'
  <2>1. Reach(u, c) /\ Reach(u, u) /\ c \in Cell
    BY <1>5, Sorts DEF Load, MayAccess, Reach
  <2>2. Begin(u, u, ref[c], "retain") /\ UNCHANGED memory /\ ref[c] \in Obj \cup {NULL}
    BY <1>0, <1>5, <2>1 DEF Load, TypeOK
  <2>3. PICK x \in Obj \cup {NULL} : x = ref[c]
    BY <2>2
  <2> QED BY <1>0, <1>4, <2>1, <2>2, <2>3
<1>6. ASSUME NEW c \in Shared, Store(u, c) PROVE Operation(u)'
  <2>1. Reach(u, c) /\ Reach(u, u) /\ c \in Cell
    BY <1>6, Sorts DEF Store, MayAccess, Reach
  <2>2. Begin(u, c, ref[u], "retain") /\ UNCHANGED memory /\ ref[u] \in Obj \cup {NULL}
    BY <1>0, <1>6, <2>1 DEF Store, TypeOK
  <2>3. c \in Obj \X Slot /\ ref[u] # NULL => <<c[1], ref[u]>> \in Shape
    BY <1>6 DEF Store
  <2>4. PICK x \in Obj \cup {NULL} : x = ref[u]
    BY <2>2
  <2> QED BY <1>0, <1>4, <2>1, <2>2, <2>3, <2>4
<1>7. ASSUME NEW c \in Cell, StoreNull(u, c) PROVE Operation(u)'
  <2>1. Reach(u, c)
    BY <1>7 DEF StoreNull, MayAccess, Reach
  <2>2. Begin(u, c, NULL, "retain") /\ UNCHANGED memory
    BY <1>7 DEF StoreNull
  <2> QED BY <1>4, <2>1, <2>2
<1>8. ASSUME NEW o \in Obj, New(u, o) PROVE Operation(u)'
  <2>1. pc'[u] = "load" /\ dst'[u] = u
    BY <1>0, <1>8 DEF New, Begin, TypeOK
  <2> QED BY <1>0, <2>1 DEF Operation, Storing, Reach
<1>9. ASSUME UNCHANGED <<ref, val, dst>>, run' = run, owner' = owner
      PROVE  /\ \A b : Reach(u, b) => Reach(u, b)'
             /\ Reach(u, dst[u]) => Reach(u, dst[u])'
  BY <1>9 DEF Reach, Nameable, Fields
<1>10. CASE Retain(u)
  <2>1. pc[u] = "retain" /\ pc'[u] = "load" /\ UNCHANGED <<ref, val, dst>> /\ run' = run /\ owner' = owner
    BY <1>0, <1>10 DEF Retain, TypeOK
  <2> QED BY <1>0, <1>9, <2>1 DEF Operation, Storing
<1>11. CASE LoadOld(u)
  <2>1. /\ pc[u] = "load" /\ pc'[u] = "write" /\ UNCHANGED <<ref, val, dst>> /\ run' = run
        /\ owner' = owner /\ old'[u] = ref[dst[u]]
    BY <1>0, <1>11 DEF LoadOld, TypeOK
  <2> QED BY <1>0, <1>9, <2>1 DEF Operation, Storing
<1>12. CASE Write(u) \/ ReleaseOld(u) \/ DropEnd(u) \/ \E s \in Slot : DropField(u, s)
  <2>1. pc'[u] \in {"release", "drop", "finish", "idle"}
    BY <1>0, <1>12 DEF Write, ReleaseOld, DropEnd, DropField, TypeOK, Resume
  <2> QED BY <1>2, <2>1 DEF Storing
<1>13. ASSUME Program(u) \/ Step(u) PROVE Operation(u)'
  BY <1>3, <1>5, <1>6, <1>7, <1>8, <1>10, <1>11, <1>12, <1>13 DEF Program, Step
<1>14. ASSUME NEW w \in Worker, Start(w) \/ EndRun(w) \/ Finish(w) \/ Join(w) PROVE Operation(u)'
  <2>1. /\ ref' = ref /\ val' = val /\ dst' = dst /\ owner' = owner
        /\ \A c \in OwnedCells : Reach(u, c) => ref'[c] = ref[c]
    BY <1>14 DEF Start, EndRun, Finish, Join
  <2>2. CASE u = w
    <3>1. pc'[u] \in {"idle", "release", "none"} \/ (Join(w) /\ pc'[u] = "none")
      BY <1>0, <1>14, <2>2 DEF Start, EndRun, Finish, Join, TypeOK, IInv, Lifecycle
    <3> QED BY <1>2, <3>1 DEF Storing
  <2>3. CASE u # w
    <3>1. pc'[u] = pc[u] /\ old'[u] = old[u] /\ (u \in Worker => run'[u] = run[u])
      BY <1>0, <1>14, <2>3 DEF Start, EndRun, Finish, Join, TypeOK
    <3> QED BY <2>1, <3>1, OtherOperation
  <2> QED BY <2>2, <2>3
<1>15. CASE Return
  <2>1. pc[Main] = "idle" /\ \A w \in Worker : pc[w] = "none"
    BY <1>15 DEF Return, IInv, Lifecycle
  <2>2. pc'[Main] \in {"exit", "release"} /\ \A w \in Worker : w # Main => pc'[w] = pc[w]
    <3>1. pc' = [pc EXCEPT ![Main] = "exit"] \/ pc' = [pc EXCEPT ![Main] = "release"]
      BY <1>15 DEF Return
    <3> QED BY <1>0, <3>1 DEF TypeOK
  <2>3. ~ Storing(u)'
    BY <2>1, <2>2, Sorts DEF Storing
  <2> QED BY <1>2, <2>3
<1>16. CASE UNCHANGED vars
  BY <1>0, <1>16, OtherOperation DEF vars
<1> QED BY <1>1, <1>13, <1>14, <1>15, <1>16 DEF Next

\* The steps that call no drop function and return from none.
LEMMA CallStacksStep ==
  ASSUME IInv, frames' = frames, alloc \subseteq alloc',
         \A t \in Thread : pc'[t] = "drop" <=> pc[t] = "drop"
  PROVE  CallStacks'
<1>1. CallStacks
  BY DEF IInv
<1>2. FrameObjs(frames)' = FrameObjs(frames) /\ (DroppedOnce(frames)' <=> DroppedOnce(frames))
  BY DEF FrameObjs, DroppedOnce
<1> QED BY <1>1, <1>2 DEF CallStacks

-----------------------------------------------------------------------------
(* The invariant, for programs that lock their accesses to shared cells     *)

LEMMA InitEstablishes == Init => IInv
<1> SUFFICES ASSUME Init PROVE IInv
  OBVIOUS
<1> USE DEF Init
<1>0. Main \in Thread /\ Worker \subseteq Thread /\ Main \notin Worker /\ Thread \subseteq Cell
      /\ Static \subseteq Cell /\ NULL \notin Obj
  BY Sorts
<1>1. TypeOK
  <2>1. frames \in [Thread -> Seq(Obj \X SUBSET Slot)] /\ regions \in [Thread -> Seq({"block", "method"})]
    BY EmptySeq
  <2> QED BY <1>0, <2>1 DEF TypeOK
<1>2. \A t \in Thread : DOMAIN frames[t] = {} /\ DOMAIN regions[t] = {}
  BY EmptySeq, LenProperties
<1>3. FrameObjs(frames) = {} /\ FrameCells(frames) = {} /\ Live = {}
  BY <1>2 DEF FrameObjs, FrameCells, Live
<1>4. CallStacks
  BY <1>0, <1>2, <1>3 DEF CallStacks, DroppedOnce
<1>5. Lifecycle
  BY <1>0 DEF Lifecycle
<1>6. Monitor
  BY <1>2 DEF Monitor, Blocks
<1>7. \A t \in Thread : Operation(t)
  BY <1>0 DEF Operation, Storing
<1>8. Ownership /\ Counts /\ Typed
  <2>1. \A t \in Thread, o \in Obj : \A k \in Kind : ~ Holds(t, k, o)
    BY <1>0 DEF Holds
  <2>2. OwnedCells \subseteq Cell
    BY <1>1, OwnedAreCells
  <2>3. Ownership
    BY <2>1, <2>2 DEF Ownership
  <2> QED BY <1>3, <2>3 DEF Counts, Typed
<1> QED BY <1>1, <1>4, <1>5, <1>6, <1>7, <1>8 DEF IInv

LEMMA Inductive ==
  ASSUME Locked, IInv, [Next]_vars
  PROVE  IInv'
<1> USE DEF Goto, memory, operation, pthreads
<1>1. TypeOK' /\ Lifecycle' /\ Monitor'
  BY TypeStep, LifecycleStep, MonitorStep
<1>2. \A t \in Thread : Operation(t)'
  BY OperationStep
<1>3. ASSUME NEW t \in Thread, ReleaseOld(t) \/ DropEnd(t) \/ \E s \in Slot : DropField(t, s)
      PROVE  CallStacks' /\ Ownership' /\ Counts' /\ Typed'
  BY <1>3, ReleaseOldClaims, DropFieldClaims, DropEndClaims
<1>4. TypeOK /\ Main \in Thread /\ Worker \subseteq Thread
  BY Sorts DEF IInv
<1>5. ASSUME NEW t \in Thread, NEW c, NEW x, NEW first \in {"retain", "load"}, Begin(t, c, x, first)
      PROVE  frames' = frames /\ \A u \in Thread : pc'[u] = "drop" <=> pc[u] = "drop"
  BY <1>4, <1>5 DEF Begin, TypeOK
<1>6. ASSUME NEW t \in Thread, Program(t) \/ Step(t),
             ~ (ReleaseOld(t) \/ DropEnd(t) \/ \E s \in Slot : DropField(t, s))
      PROVE  CallStacks' /\ Ownership' /\ Counts' /\ Typed'
  <2>1. CASE EnterBlock(t) \/ CallSyncMethod(t) \/ Leave(t) \/ LoadOld(t)
    <3>1. frames' = frames /\ alloc' = alloc /\ \A u \in Thread : pc'[u] = "drop" <=> pc[u] = "drop"
      BY <1>4, <2>1 DEF EnterBlock, CallSyncMethod, Leave, LoadOld, TypeOK
    <3> QED BY <2>1, <3>1, CallStacksStep, QuietSteps
  <2>2. CASE \E c \in Shared : Load(t, c) \/ Store(t, c)
    <3>1. frames' = frames /\ alloc' = alloc /\ \A u \in Thread : pc'[u] = "drop" <=> pc[u] = "drop"
      BY <1>5, <2>2 DEF Load, Store
    <3> QED BY <2>2, <3>1, CallStacksStep, QuietSteps
  <2>3. CASE \E c \in Cell : StoreNull(t, c)
    <3>1. frames' = frames /\ alloc' = alloc /\ \A u \in Thread : pc'[u] = "drop" <=> pc[u] = "drop"
      BY <1>5, <2>3 DEF StoreNull
    <3> QED BY <2>3, <3>1, CallStacksStep, QuietSteps
  <2>4. CASE \E o \in Obj : New(t, o)
    <3>1. frames' = frames /\ alloc \subseteq alloc'
          /\ \A u \in Thread : pc'[u] = "drop" <=> pc[u] = "drop"
      BY <1>5, <2>4 DEF New
    <3> QED BY <2>4, <3>1, CallStacksStep, NewClaims
  <2>5. CASE Retain(t) \/ Write(t)
    <3>1. frames' = frames /\ alloc' = alloc /\ \A u \in Thread : pc'[u] = "drop" <=> pc[u] = "drop"
      BY <1>4, <2>5 DEF Retain, Write, TypeOK
    <3> QED BY <2>5, <3>1, CallStacksStep, RetainClaims, WriteClaims
  <2> QED BY <1>6, <2>1, <2>2, <2>3, <2>4, <2>5 DEF Program, Step
<1>7. ASSUME NEW w \in Worker, Start(w) \/ EndRun(w) \/ Finish(w) \/ Join(w)
      PROVE  CallStacks' /\ Ownership' /\ Counts' /\ Typed'
  <2>1. frames' = frames /\ alloc' = alloc
    BY <1>7 DEF Start, EndRun, Finish, Join
  <2>2. \A u \in Thread : pc'[u] = "drop" <=> pc[u] = "drop"
    <3>1. CASE Start(w)
      <4>1. pc[w] = "none"
        BY <3>1 DEF Start, IInv, Lifecycle
      <4> QED BY <1>4, <3>1, <4>1 DEF Start, TypeOK
    <3>2. CASE EndRun(w) \/ Finish(w) \/ Join(w)
      BY <1>4, <3>2 DEF EndRun, Finish, Join, TypeOK
    <3> QED BY <1>7, <3>1, <3>2
  <2>3. CallStacks'
    BY <2>1, <2>2, CallStacksStep
  <2> QED BY <1>4, <1>7, <2>3, StartClaims, EndRunClaims, QuietSteps
<1>8. ASSUME Return PROVE CallStacks' /\ Ownership' /\ Counts' /\ Typed'
  <2>1. frames' = frames /\ alloc' = alloc /\ pc[Main] = "idle"
        /\ (pc' = [pc EXCEPT ![Main] = "exit"] \/ pc' = [pc EXCEPT ![Main] = "release"])
    BY <1>8 DEF Return
  <2>2. \A u \in Thread : pc'[u] = "drop" <=> pc[u] = "drop"
    BY <1>4, <2>1 DEF TypeOK
  <2>3. CallStacks'
    BY <2>1, <2>2, CallStacksStep
  <2>4. Ownership' /\ Counts' /\ Typed'
    BY <1>8, ReturnClaims
  <2> QED BY <2>3, <2>4
<1>9. ASSUME UNCHANGED vars PROVE CallStacks' /\ Ownership' /\ Counts' /\ Typed'
  <2>1. CallStacks'
    BY <1>9, CallStacksStep DEF vars
  <2>2. Main \in Thread
    BY <1>4
  <2>3. Ownership' /\ Counts' /\ Typed'
    BY <1>9, <2>2, QuietSteps
  <2> QED BY <2>1, <2>3
<1>10. ASSUME NEW t \in Thread, Program(t) \/ Step(t)
       PROVE  CallStacks' /\ Ownership' /\ Counts' /\ Typed'
  BY <1>3, <1>6, <1>10
<1>11. CallStacks' /\ Ownership' /\ Counts' /\ Typed'
  BY <1>7, <1>8, <1>9, <1>10 DEF Next
<1> QED BY <1>1, <1>2, <1>11 DEF IInv

\* Whatever the interleaving of the threads' steps, the invariant holds.
THEOREM ThreadsInvariance ==
  ASSUME Locked
  PROVE  Spec => []IInv
<1>1. Init => IInv
  BY InitEstablishes
<1>2. IInv /\ [Next]_vars => IInv'
  BY Inductive
<1> QED BY <1>1, <1>2, PTL DEF Spec

\* The variables of the threaded build keep their types.
THEOREM ThreadsTypeCorrect ==
  ASSUME Locked
  PROVE  Spec => []TypeOK
<1>1. IInv => TypeOK
  BY DEF IInv
<1> QED BY <1>1, ThreadsInvariance, PTL

-----------------------------------------------------------------------------
(* The properties                                                           *)

\* The sets the properties are stated with are those of the invariant.
LEMMA SameSets ==
  ASSUME IInv
  PROVE  /\ Dropping = FrameObjs(frames)
         /\ \A o \in Obj : Owners(o) = Refs(o) /\ InFlight(o) = Tokens(o)
<1>1. frames \in Stacks /\ DroppedOnce(frames)
  BY FramesTyped DEF IInv, CallStacks
<1>2. \A o : FramesOf(o) = {f \in Thread \X (1 .. Cardinality(Obj)) :
                              f[2] \in DOMAIN frames[f[1]] /\ frames[f[1]][f[2]][1] = o}
  BY DEF FramesOf
<1>3. ASSUME NEW t \in Thread, NEW i \in DOMAIN frames[t]
      PROVE  <<t, i>> \in FramesOf(frames[t][i][1]) /\ frames[t][i][1] \in Obj
  BY <1>1, <1>2, StackDepth, FrameType
<1>4. ASSUME NEW o, NEW f \in FramesOf(o)
      PROVE  f[1] \in Thread /\ f[2] \in DOMAIN frames[f[1]] /\ frames[f[1]][f[2]][1] = o
  BY <1>2
<1>5. Dropping = FrameObjs(frames)
  <2>1. Dropping \subseteq FrameObjs(frames)
    BY <1>4 DEF Dropping, FrameObjs
  <2>2. FrameObjs(frames) \subseteq Dropping
    BY <1>3 DEF Dropping, FrameObjs
  <2> QED BY <2>1, <2>2
<1>6. UNION {StillToDrop(p) : p \in Dropping} = FrameCells(frames)
  <2>1. ASSUME NEW c \in UNION {StillToDrop(p) : p \in Dropping} PROVE c \in FrameCells(frames)
    <3>1. PICK p \in Dropping : c \in StillToDrop(p)
      OBVIOUS
    <3>2. PICK f \in FramesOf(p) : c \in {p} \X frames[f[1]][f[2]][2]
      BY <3>1 DEF StillToDrop
    <3>3. f[1] \in Thread /\ f[2] \in DOMAIN frames[f[1]] /\ frames[f[1]][f[2]][1] = p
      BY <1>4
    <3>4. frames[f[1]][f[2]][2] \subseteq Slot /\ p \in Obj
      BY <1>1, <3>3, FrameType
    <3>5. c \in Obj \X Slot /\ c[1] = p /\ c[2] \in frames[f[1]][f[2]][2]
      BY <3>2, <3>4
    <3> QED BY <3>3, <3>5 DEF FrameCells
  <2>2. ASSUME NEW c \in FrameCells(frames) PROVE c \in UNION {StillToDrop(p) : p \in Dropping}
    <3>1. c \in Obj \X Slot
          /\ \E t \in Thread : \E i \in DOMAIN frames[t] : frames[t][i][1] = c[1] /\ c[2] \in frames[t][i][2]
      BY DEF FrameCells
    <3>2. PICK t \in Thread : \E i \in DOMAIN frames[t] : frames[t][i][1] = c[1] /\ c[2] \in frames[t][i][2]
      BY <3>1
    <3>3. PICK i \in DOMAIN frames[t] : frames[t][i][1] = c[1] /\ c[2] \in frames[t][i][2]
      BY <3>2
    <3>4. PICK f : f = <<t, i>>
      OBVIOUS
    <3>5. f \in FramesOf(c[1]) /\ c \in {c[1]} \X frames[f[1]][f[2]][2]
      BY <1>3, <3>1, <3>3, <3>4
    <3>6. c \in StillToDrop(c[1])
      BY <3>5 DEF StillToDrop
    <3>7. c[1] \in Dropping
      BY <3>1, <3>5 DEF Dropping
    <3> QED BY <3>6, <3>7
  <2> QED BY <2>1, <2>2
<1>7. ASSUME NEW o \in Obj PROVE Owners(o) = Refs(o)
  <2>1. Refs(o) = {c \in Thread \cup Static \cup (Live \X Slot) \cup FrameCells(frames) : ref[c] = o}
    BY DEF Refs, OwnedCells
  <2>2. Owners(o) = {c \in Thread \cup Static : ref[c] = o} \cup {c \in Live \X Slot : ref[c] = o}
                      \cup {c \in FrameCells(frames) : ref[c] = o}
    BY <1>5, <1>6 DEF Owners, Live
  <2> QED BY <2>1, <2>2
<1>8. ASSUME NEW o \in Obj PROVE InFlight(o) = Tokens(o)
  <2>1. \A h : h \in InFlight(o) <=>
          \/ \E t \in Thread : h = <<t, "val">> /\ val[t] = o /\ pc[t] \in {"load", "write"}
          \/ \E t \in Thread : h = <<t, "old">> /\ old[t] = o /\ pc[t] = "release"
          \/ \E t \in Worker : h = <<t, "run">> /\ run[t] = o
    BY DEF InFlight
  <2>2. \A h : h \in Tokens(o) <=> \E t \in Thread : \E k \in Kind : h = <<t, k>> /\ Holds(t, k, o)
    BY DEF Tokens
  <2>3. InFlight(o) \subseteq Tokens(o)
    BY <2>1, <2>2, Sorts DEF Holds, Kind
  <2>4. Tokens(o) \subseteq InFlight(o)
    BY <2>1, <2>2 DEF Holds, Kind
  <2> QED BY <2>3, <2>4
<1> QED BY <1>5, <1>7, <1>8

\* Each counter equals the owning cells and the references under way, in every
\* interleaving of the retains, loads, overwrites and releases (jrt_retain, jrt_release).
THEOREM ThreadsExactCounts ==
  ASSUME Locked
  PROVE  Spec => []RcExactThreads
<1>1. ASSUME IInv PROVE RcExactThreads
  <2>1. alloc \ Dropping = Live /\ Live \subseteq Obj
    BY <1>1, SameSets, OwnedAreCells DEF Live, IInv
  <2>2. \A o \in Live : Cardinality(Owners(o)) = Cardinality(Refs(o))
                        /\ Cardinality(InFlight(o)) = Cardinality(Tokens(o))
    BY <1>1, <2>1, SameSets
  <2> QED BY <1>1, <2>1, <2>2 DEF RcExactThreads, IInv, Counts, Claims
<1> QED BY <1>1, ThreadsInvariance, PTL

\* No thread counts, overwrites or reads through an object another one has freed or drops.
THEOREM ThreadsAccessLive ==
  ASSUME Locked
  PROVE  Spec => []AccessesAreLive
<1>1. ASSUME IInv PROVE AccessesAreLive
  <2> SUFFICES ASSUME NEW t \in Thread
               PROVE  /\ pc[t] = "retain" => val[t] \in Live \cup {NULL}
                      /\ pc[t] = "release" => old[t] \in Live \cup {NULL}
                      /\ pc[t] \in {"load", "write"} /\ dst[t] \in Obj \X Slot => dst[t][1] \in Live
                      /\ \A i \in DOMAIN frames[t] :
                           /\ frames[t][i][1] \in alloc
                           /\ \A s \in frames[t][i][2] :
                                ref[<<frames[t][i][1], s>>] \in Live \cup {NULL}
    BY <1>1, SameSets DEF AccessesAreLive, Live
  <2>0. Operation(t) /\ Ownership /\ TypeOK /\ frames \in Stacks
    BY <1>1, FramesTyped DEF IInv
  <2>1. ASSUME pc[t] = "retain", val[t] # NULL PROVE val[t] \in Live
    <3>1. PICK c \in Cell : Reach(t, c) /\ ref[c] = val[t]
      BY <2>0, <2>1 DEF Operation
    <3>2. c \in OwnedCells
      BY <1>1, <3>1, ReachOwned
    <3> QED BY <2>0, <2>1, <3>1, <3>2 DEF Ownership
  <2>2. ASSUME pc[t] = "release", old[t] # NULL PROVE old[t] \in Live
    BY <2>0, <2>2 DEF Ownership, Holds, Kind, TypeOK
  <2>3. ASSUME pc[t] \in {"load", "write"}, dst[t] \in Obj \X Slot PROVE dst[t][1] \in Live
    BY <1>1, <2>0, <2>3, ReachOwned DEF Operation, Storing
  <2>4. ASSUME NEW i \in DOMAIN frames[t]
        PROVE  /\ frames[t][i][1] \in alloc
               /\ \A s \in frames[t][i][2] : ref[<<frames[t][i][1], s>>] \in Live \cup {NULL}
    <3>1. frames[t][i][1] \in Obj /\ frames[t][i][2] \subseteq Slot
      BY <2>0, FrameType
    <3>2. frames[t][i][1] \in FrameObjs(frames)
      BY <3>1 DEF FrameObjs
    <3>3. \A s \in frames[t][i][2] : <<frames[t][i][1], s>> \in FrameCells(frames)
      BY <3>1 DEF FrameCells
    <3> QED BY <1>1, <2>0, <3>2, <3>3 DEF IInv, CallStacks, Ownership, OwnedCells
  <2> QED BY <2>1, <2>2, <2>3, <2>4
<1> QED BY <1>1, ThreadsInvariance, PTL

\* The one recursive mutex of jrt_monitor_enter keeps synchronized blocks apart.
THEOREM MonitorExcludes ==
  ASSUME Locked
  PROVE  Spec => []BlocksExclude
<1>1. ASSUME IInv PROVE BlocksExclude
  BY <1>1 DEF IInv, Monitor, Blocks, BlocksExclude
<1> QED BY <1>1, ThreadsInvariance, PTL

\* A program whose types admit no cycle has freed every object when main returns.
THEOREM NothingLeftAfterJoin ==
  ASSUME Locked, Acyclic
  PROVE  Spec => []ZeroLiveAfterJoin
<1>1. ASSUME IInv PROVE ZeroLiveAfterJoin
  <2> SUFFICES ASSUME pc[Main] = "exit" PROVE alloc = {} /\ \A w \in Worker : pc[w] = "none"
    BY DEF ZeroLiveAfterJoin
  <2>1. /\ ref[Main] = NULL /\ \A s \in Static : ref[s] = NULL
        /\ \A w \in Worker : pc[w] = "none" /\ run[w] = NULL /\ ref[w] = NULL
    BY <1>1 DEF IInv, Lifecycle
  <2>2. \A t \in Thread : pc[t] \in {"exit", "none"} /\ ref[t] = NULL
    BY <2>1 DEF Thread
  <2>3. \A t \in Thread : frames[t] = <<>>
    BY <1>1, <2>2 DEF IInv, CallStacks
  <2>4. \A t \in Thread : DOMAIN frames[t] = {}
    BY <2>3
  <2>5. FrameObjs(frames) = {} /\ FrameCells(frames) = {} /\ Live = alloc
    BY <2>4 DEF FrameObjs, FrameCells, Live
  <2>6. ASSUME NEW o \in alloc PROVE \E p \in alloc : <<p, o>> \in Shape
    <3>1. o \in Obj /\ o # NULL
      BY <1>1, Sorts DEF IInv, TypeOK
    <3>2. Tokens(o) = {}
      BY <2>1, <2>2, <3>1 DEF Tokens, Holds
    <3>3. Claims(o) > 0
      BY <1>1, <2>5 DEF IInv, Counts
    <3>4. Refs(o) # {}
      BY <1>1, <3>1, <3>2, <3>3, ClaimsLemma DEF IInv
    <3>5. PICK c \in OwnedCells : ref[c] = o
      BY <3>4 DEF Refs
    <3>6. c \in alloc \X Slot
      BY <2>1, <2>2, <2>5, <3>1, <3>5 DEF OwnedCells
    <3> QED BY <1>1, <2>5, <3>1, <3>5, <3>6 DEF IInv, Typed
  <2>7. alloc \subseteq Obj
    BY <1>1 DEF IInv, TypeOK
  <2>8. alloc = {}
    BY <2>6, <2>7 DEF Acyclic
  <2> QED BY <2>1, <2>8
<1> QED BY <1>1, ThreadsInvariance, PTL

-----------------------------------------------------------------------------
(* The abstract heap                                                        *)

\* What a thread's own slot holds in the abstract heap.
View(t) == IF Storing(t) /\ dst[t] = t THEN val[t] ELSE ref[t]

LEMMA HeapCells ==
  /\ Heap!Cell = Cell \cup RunSlot /\ RunSlot \cap Cell = {}
  /\ \A w \in Worker : <<"run", w>> \in RunSlot
  /\ \A c \in RunSlot : c = <<"run", c[2]>> /\ c[2] \in Worker
  /\ \A o : Heap!Fields(o) = {o} \X Slot
BY ThreadsAssumption DEF Heap!Cell, Heap!Fields, Cell, Shared, RunSlot

LEMMA HeapValues ==
  /\ HeapRef = [c \in Cell \cup RunSlot |-> HeapRef[c]]
  /\ \A c \in RunSlot : HeapRef[c] = run[c[2]]
  /\ \A t \in Thread : HeapRef[t] = View(t)
  /\ \A c \in Shared : HeapRef[c] = ref[c]
BY HeapCells, Sorts DEF HeapRef, View

LEMMA NextHeapValues ==
  /\ HeapRef' = [c \in Cell \cup RunSlot |-> HeapRef'[c]]
  /\ \A c \in RunSlot : HeapRef'[c] = run'[c[2]]
  /\ \A t \in Thread : HeapRef'[t] = View(t)'
  /\ \A c \in Shared : HeapRef'[c] = ref'[c]
BY HeapCells, Sorts DEF HeapRef, View

\* A step that the abstract heap does not see.
LEMMA Unseen ==
  ASSUME \A c \in Shared : ref'[c] = ref[c], run' = run, \A t \in Thread : View(t)' = View(t)
  PROVE  HeapRef' = HeapRef
<1>1. \A c \in Cell \cup RunSlot : HeapRef'[c] = HeapRef[c]
  BY HeapValues, NextHeapValues DEF Cell
<1> QED BY <1>1, HeapValues, NextHeapValues

\* A step that changes one cell of it.
LEMMA Seen ==
  ASSUME NEW c \in Cell \cup RunSlot, NEW x, HeapRef'[c] = x,
         \A d \in Shared \ {c} : ref'[d] = ref[d],
         \A d \in RunSlot \ {c} : run'[d[2]] = run[d[2]],
         \A t \in Thread \ {c} : View(t)' = View(t)
  PROVE  HeapRef' = [HeapRef EXCEPT ![c] = x]
<1>1. \A d \in (Cell \cup RunSlot) \ {c} : HeapRef'[d] = HeapRef[d]
  BY HeapValues, NextHeapValues DEF Cell
<1> QED BY <1>1, HeapValues, NextHeapValues

\* The cells and values a thread can name are those the abstract heap lets it name.
LEMMA NameableThere ==
  ASSUME IInv, NEW t \in Thread, View(t) = ref[t]
  PROVE  /\ Nameable(t) \subseteq Heap!Nameable
         /\ Thread \cup Static \cup RunSlot \subseteq Heap!Nameable
         /\ NULL \in Heap!Readable /\ ref[t] \in Heap!Readable
         /\ \A c \in Nameable(t) : ref[c] \in Heap!Readable
<1>1. Thread \cup Static \cup RunSlot \subseteq Heap!Nameable
  BY DEF Heap!Nameable
<1>2. \A c \in Heap!Nameable : HeapRef[c] \in Heap!Readable
  BY DEF Heap!Readable
<1>3. \A v \in Thread \cup Static \cup RunSlot :
        HeapRef[v] # NULL => Fields(HeapRef[v]) \subseteq Heap!Nameable
  BY HeapCells, Sorts DEF Heap!Nameable
<1>4. HeapRef[t] = ref[t]
  BY HeapValues
<1>5. t \in Worker => <<"run", t>> \in RunSlot /\ HeapRef[<<"run", t>>] = run[t]
  BY HeapCells, HeapValues
<1>6. ASSUME NEW c \in Nameable(t) PROVE c \in Heap!Nameable /\ c \in Shared
  <2>1. CASE c \in Static
    BY <1>1, <2>1, Sorts
  <2>2. CASE ref[t] \in Obj /\ c \in Fields(ref[t])
    <3>1. ref[t] # NULL /\ t \in Thread \cup Static \cup RunSlot
      BY <2>2, Sorts
    <3> QED BY <1>3, <1>4, <2>2, <3>1, Sorts
  <2>3. CASE t \in Worker /\ run[t] # NULL /\ c \in Fields(run[t])
    <3>1. run[t] \in Obj
      BY <2>3 DEF IInv, TypeOK
    <3>2. Fields(run[t]) \subseteq Heap!Nameable
      BY <1>3, <1>5, <2>3
    <3> QED BY <2>3, <3>1, <3>2, Sorts
  <2> QED BY <2>1, <2>2, <2>3 DEF Nameable
<1>7. \A c \in Nameable(t) : ref[c] \in Heap!Readable
  BY <1>2, <1>6, HeapValues
<1>8. ref[t] \in Heap!Readable
  BY <1>1, <1>2, <1>4
<1> QED BY <1>1, <1>6, <1>7, <1>8 DEF Heap!Readable

LEMMA AssignRefines ==
  ASSUME NEW c \in Heap!Nameable, NEW x \in Heap!Readable,
         HeapRef' = [HeapRef EXCEPT ![c] = x], alloc' = alloc
  PROVE  Heap!Next
BY DEF Heap!Next, Heap!Assign

\* The objects of which no drop function has been called contain what the abstract heap
\* reaches.
LEMMA LiveIsClosed ==
  ASSUME IInv
  PROVE  Heap!ClosedUnderReach(Live)
<1>1. \A c \in OwnedCells : ref[c] \in Live \cup {NULL}
  BY DEF IInv, Ownership
<1>2. ASSUME NEW t \in Thread PROVE HeapRef[t] \in Live \cup {NULL}
  <2>1. Operation(t) /\ TypeOK /\ Ownership
    BY DEF IInv
  <2>2. CASE ~ (Storing(t) /\ dst[t] = t)
    BY <1>1, <2>2, HeapValues DEF View, OwnedCells
  <2>3. CASE Storing(t) /\ dst[t] = t /\ val[t] # NULL
    <3>1. CASE pc[t] = "retain"
      <4>1. PICK c \in Cell : Reach(t, c) /\ ref[c] = val[t]
        BY <2>1, <2>3, <3>1 DEF Operation
      <4>2. c \in OwnedCells
        BY <4>1, ReachOwned
      <4> QED BY <1>1, <2>3, <4>1, <4>2, HeapValues DEF View
    <3>2. CASE pc[t] \in {"load", "write"}
      <4>1. val[t] \in Live
        BY <2>1, <2>3, <3>2 DEF Ownership, Holds, Kind, TypeOK
      <4> QED BY <2>3, <4>1, HeapValues DEF View
    <3> QED BY <2>3, <3>1, <3>2 DEF Storing
  <2>4. CASE Storing(t) /\ dst[t] = t /\ val[t] = NULL
    BY <2>4, HeapValues DEF View
  <2> QED BY <2>2, <2>3, <2>4
<1>3. ASSUME NEW c \in RunSlot PROVE HeapRef[c] \in Live \cup {NULL}
  <2>1. c[2] \in Worker /\ HeapRef[c] = run[c[2]]
    BY HeapCells, HeapValues
  <2>2. run[c[2]] \in Obj \cup {NULL} /\ c[2] \in Thread
    BY <2>1, Sorts DEF IInv, TypeOK
  <2> QED BY <2>1, <2>2 DEF IInv, Ownership, Holds, Kind
<1>4. ASSUME NEW c \in Static \cup (Live \X Slot) PROVE HeapRef[c] \in Live \cup {NULL}
  <2>1. c \in OwnedCells /\ c \in Shared
    BY OwnedAreCells, Sorts DEF OwnedCells, IInv
  <2> QED BY <1>1, <2>1, HeapValues
<1> QED BY <1>2, <1>3, <1>4 DEF Heap!ClosedUnderReach

\* The views of the threads that do not move.
LEMMA OtherViews ==
  ASSUME IInv, NEW t \in Thread, Program(t) \/ Step(t), NEW u \in Thread \ {t}
  PROVE  View(u)' = View(u)
BY OthersUndisturbed DEF View, Storing

\* A load and an allocation take effect at once, as does clearing the thread's own slot.
LEMMA OwnSlotRefines ==
  ASSUME IInv, NEW t \in Thread, Program(t), NEW x \in Obj \cup {NULL}, NEW first,
         first \in {"retain", "load"}, Begin(t, t, x, first), \A c \in Shared : ref'[c] = ref[c]
  PROVE  HeapRef' = [HeapRef EXCEPT ![t] = x]
<1>1. pc'[t] = first /\ dst'[t] = t /\ val'[t] = x /\ run' = run
  BY DEF Begin, IInv, TypeOK, pthreads
<1>2. HeapRef'[t] = x
  BY <1>1, NextHeapValues DEF View, Storing
<1> QED BY <1>1, <1>2, Seen, OtherViews, Sorts

\* A store to a shared cell is only begun.
LEMMA BeginUnseen ==
  ASSUME IInv, NEW t \in Thread, Program(t), NEW c \in Shared, NEW x, Begin(t, c, x, "retain"),
         ref' = ref
  PROVE  HeapRef' = HeapRef
<1>1. pc[t] = "idle" /\ dst'[t] = c /\ run' = run /\ c # t
  BY Sorts DEF Begin, IInv, TypeOK, pthreads
<1>2. View(t)' = View(t)
  BY <1>1 DEF View, Storing
<1> QED BY <1>1, <1>2, Unseen, OtherViews

LEMMA ProgramRefines ==
  ASSUME IInv, NEW t \in Thread, Program(t)
  PROVE  Heap!Next \/ UNCHANGED <<alloc, HeapRef>>
<1>0. TypeOK /\ t \in Heap!Nameable
  BY DEF IInv, Heap!Nameable
<1> USE DEF memory, operation
<1>1. ASSUME pc[t] = "idle" PROVE View(t) = ref[t]
  BY <1>1 DEF View, Storing
<1>2. CASE EnterBlock(t) \/ CallSyncMethod(t) \/ Leave(t)
  <2>1. UNCHANGED <<alloc, ref, run, pc, val, dst>>
    BY <1>2 DEF EnterBlock, CallSyncMethod, Leave, pthreads
  <2>2. \A u \in Thread : View(u)' = View(u)
    BY <2>1 DEF View, Storing
  <2> QED BY <2>1, <2>2, Unseen
<1>3. ASSUME NEW c \in Shared, Load(t, c) PROVE Heap!Next
  <2>1. /\ c \in Nameable(t) /\ Begin(t, t, ref[c], "retain") /\ alloc' = alloc /\ ref' = ref
        /\ pc[t] = "idle"
    BY <1>3 DEF Load, Begin
  <2>2. PICK x \in Obj \cup {NULL} : x = ref[c]
    BY <1>0, Sorts DEF TypeOK
  <2>3. x \in Heap!Readable
    BY <1>1, <2>1, <2>2, NameableThere
  <2>4. HeapRef' = [HeapRef EXCEPT ![t] = x]
    BY <2>1, <2>2, OwnSlotRefines
  <2> QED BY <1>0, <2>1, <2>3, <2>4, AssignRefines
<1>4. ASSUME NEW c \in Shared, Store(t, c) PROVE UNCHANGED <<alloc, HeapRef>>
  <2>1. Begin(t, c, ref[t], "retain") /\ alloc' = alloc /\ ref' = ref
    BY <1>4 DEF Store
  <2> QED BY <2>1, BeginUnseen
<1>5. ASSUME NEW c \in Cell, StoreNull(t, c) PROVE Heap!Next \/ UNCHANGED <<alloc, HeapRef>>
  <2>1. Begin(t, c, NULL, "retain") /\ alloc' = alloc /\ ref' = ref /\ pc[t] = "idle"
    BY <1>5 DEF StoreNull, Begin
  <2>2. CASE c = t
    <3>1. HeapRef' = [HeapRef EXCEPT ![t] = NULL]
      BY <2>1, <2>2, OwnSlotRefines
    <3>2. NULL \in Heap!Readable
      BY DEF Heap!Readable
    <3> QED BY <1>0, <2>1, <3>1, <3>2, AssignRefines
  <2>3. CASE c # t
    <3>1. c \in Nameable(t)
      BY <1>5, <2>3 DEF StoreNull
    <3>2. c \in Shared
      <4>1. c \in Static \/ c \in Fields(ref[t]) \/ (t \in Worker /\ run[t] # NULL /\ c \in Fields(run[t]))
        BY <3>1 DEF Nameable
      <4>2. CASE c \in Static
        BY <4>2, Sorts
      <4>3. CASE ref[t] \in Obj /\ c \in Fields(ref[t])
        BY <4>3, Sorts
      <4>4. CASE t \in Worker /\ run[t] # NULL /\ c \in Fields(run[t])
        <5>1. run[t] \in Obj
          BY <1>0, <4>4 DEF TypeOK
        <5> QED BY <4>4, <5>1, Sorts
      <4> QED BY <3>1, <4>2, <4>3, <4>4 DEF Nameable
    <3> QED BY <2>1, <3>2, BeginUnseen
  <2> QED BY <2>2, <2>3
<1>6. ASSUME NEW o \in Obj, New(t, o) PROVE Heap!Next
  <2>1. /\ o \notin alloc /\ alloc' = alloc \cup {o} /\ Begin(t, t, o, "load")
        /\ ref' = [c \in Cell |-> IF c \in Fields(o) THEN NULL ELSE ref[c]]
    BY <1>6 DEF New
  <2>2. pc'[t] = "load" /\ dst'[t] = t /\ val'[t] = o /\ run' = run
    BY <1>0, <2>1 DEF Begin, TypeOK, pthreads
  <2>3. HeapRef'[t] = o
    BY <2>2, NextHeapValues DEF View, Storing
  <2>4. \A u \in Thread \ {t} : HeapRef'[u] = HeapRef[u]
    BY OtherViews, HeapValues, NextHeapValues
  <2>5. \A c \in RunSlot : HeapRef'[c] = HeapRef[c]
    BY <2>2, HeapValues, NextHeapValues
  <2>6. \A c \in Shared : HeapRef'[c] = IF c \in Fields(o) THEN NULL ELSE HeapRef[c]
    BY <2>1, HeapValues, NextHeapValues, Sorts
  <2>7. Fields(o) \subseteq Shared /\ Fields(o) \cap (Thread \cup RunSlot) = {}
    BY Sorts, HeapCells DEF Cell
  <2>8. \A c \in Cell \cup RunSlot :
          HeapRef'[c] = IF c = t THEN o ELSE IF c \in Fields(o) THEN NULL ELSE HeapRef[c]
    BY <2>3, <2>4, <2>5, <2>6, <2>7, HeapCells, Sorts DEF Cell
  <2>9. HeapRef' = [c \in Heap!Cell |-> IF c = t THEN o ELSE IF c \in Heap!Fields(o) THEN NULL
                                        ELSE HeapRef[c]]
    BY <2>8, HeapCells, NextHeapValues, Sorts
  <2> QED BY <2>1, <2>9 DEF Heap!Next, Heap!Allocate
<1> QED BY <1>2, <1>3, <1>4, <1>5, <1>6 DEF Program

\* A write to a shared cell is the assignment, one to the thread's own slot has been seen.
LEMMA WriteRefines ==
  ASSUME IInv, NEW t \in Thread, Write(t)
  PROVE  Heap!Next \/ UNCHANGED <<alloc, HeapRef>>
<1>1. /\ pc[t] = "write" /\ pc'[t] = "release" /\ alloc' = alloc /\ run' = run
      /\ ref' = [ref EXCEPT ![dst[t]] = val[t]] /\ Step(t) /\ TypeOK
  BY DEF Write, Goto, IInv, TypeOK, pthreads, Step
<1>2. Operation(t) /\ Reach(t, dst[t])
  BY <1>1 DEF IInv, Operation, Storing
<1>3. CASE dst[t] = t
  <2>1. \A c \in Shared : ref'[c] = ref[c]
    BY <1>1, <1>3, Sorts DEF TypeOK
  <2>2. View(t)' = View(t)
    BY <1>1, <1>3, Sorts DEF View, Storing, TypeOK
  <2> QED BY <1>1, <2>1, <2>2, Unseen, OtherViews
<1>4. CASE dst[t] # t
  <2>1. dst[t] \in Nameable(t) /\ val[t] \in {NULL, ref[t]} /\ View(t) = ref[t]
    BY <1>1, <1>2, <1>4 DEF Reach, Operation, Storing, View
  <2>2. dst[t] \in Shared
    BY <1>2, <1>4, ReachOwned
  <2>3. PICK c \in Shared : c = dst[t]
    BY <2>2
  <2>4. c \in Heap!Nameable /\ val[t] \in Heap!Readable
    BY <2>1, <2>3, NameableThere
  <2>5. HeapRef'[c] = val[t] /\ \A d \in Shared \ {c} : ref'[d] = ref[d]
    BY <1>1, <2>3, NextHeapValues, Sorts DEF TypeOK
  <2>6. View(t)' = View(t)
    BY <1>1, <1>4, <2>1, <2>3, Sorts DEF View, Storing, TypeOK
  <2>7. HeapRef' = [HeapRef EXCEPT ![c] = val[t]]
    BY <1>1, <2>5, <2>6, Seen, OtherViews, Sorts
  <2> QED BY <1>1, <2>4, <2>7, AssignRefines
<1> QED BY <1>3, <1>4

LEMMA StepRefines ==
  ASSUME IInv, NEW t \in Thread, Step(t)
  PROVE  Heap!Next \/ UNCHANGED <<alloc, HeapRef>>
<1>0. TypeOK /\ run' = run
  BY OwnState DEF IInv
<1>1. ASSUME UNCHANGED <<alloc, ref>>, View(t)' = View(t) PROVE UNCHANGED <<alloc, HeapRef>>
  BY <1>0, <1>1, Unseen, OtherViews
<1>2. CASE Retain(t) \/ LoadOld(t)
  <2>1. /\ UNCHANGED <<alloc, ref, val, dst>> /\ pc[t] \in {"retain", "load"}
        /\ pc'[t] \in {"load", "write"}
    BY <1>0, <1>2 DEF Retain, LoadOld, Goto, TypeOK, memory
  <2>2. View(t)' = View(t)
    BY <2>1 DEF View, Storing
  <2> QED BY <1>1, <2>1, <2>2
<1>3. CASE ReleaseOld(t) \/ DropEnd(t) \/ \E s \in Slot : DropField(t, s)
  <2>1. pc[t] \in {"release", "drop"} /\ pc'[t] \in {"release", "drop", Resume(t)} /\ ref' = ref
    BY <1>3, OwnState DEF ReleaseOld, DropEnd, DropField
  <2>2. View(t)' = View(t)
    BY <2>1 DEF View, Storing, Resume
  <2>3. CASE ~ DropEnd(t)
    <3>1. alloc' = alloc
      BY <1>3, <2>3 DEF ReleaseOld, DropField
    <3> QED BY <1>1, <2>1, <2>2, <3>1
  <2>4. CASE DropEnd(t)
    <3>1. HeapRef' = HeapRef
      BY <1>0, <2>1, <2>2, Unseen, OtherViews
    <3>2. frames \in Stacks /\ frames[t] # <<>>
      BY <1>0, <2>4, FramesTyped DEF DropEnd, IInv, CallStacks
    <3>3. PICK d \in Obj : d = Top(t)[1]
      BY <3>2, TopFrame
    <3>4. d \in FrameObjs(frames)
      BY <3>2, <3>3, TopFrame DEF FrameObjs, Top
    <3>5. Live \subseteq alloc \ {d} /\ {d} \subseteq alloc /\ alloc' = alloc \ {d}
      BY <2>4, <3>3, <3>4 DEF Live, IInv, CallStacks, DropEnd
    <3>6. Heap!Unreachable({d})
      BY <3>5, LiveIsClosed DEF Heap!Unreachable
    <3> QED BY <3>1, <3>5, <3>6 DEF Heap!Next, Heap!Reclaim
  <2> QED BY <2>3, <2>4
<1>4. CASE Write(t)
  BY <1>4, WriteRefines
<1> QED BY <1>2, <1>3, <1>4 DEF Step

\* The steps that begin and end a thread, and the return of main.
LEMMA LifecycleRefines ==
  ASSUME IInv, Return \/ \E w \in Worker : Start(w) \/ EndRun(w) \/ Finish(w) \/ Join(w)
  PROVE  Heap!Next \/ UNCHANGED <<alloc, HeapRef>>
<1> USE DEF Goto, memory, operation
<1>0. TypeOK /\ Lifecycle
  BY DEF IInv
<1>1. ASSUME NEW w \in Worker, NEW x \in Heap!Readable, run' = [run EXCEPT ![w] = x],
             UNCHANGED <<alloc, ref>>, \A t \in Thread : View(t)' = View(t)
      PROVE  Heap!Next
  <2>1. PICK c \in RunSlot : c = <<"run", w>> /\ c[2] = w /\ \A d \in RunSlot \ {c} : d[2] # w
    BY HeapCells
  <2>2. HeapRef'[c] = x /\ \A d \in RunSlot \ {c} : run'[d[2]] = run[d[2]]
    BY <1>0, <1>1, <2>1, NextHeapValues DEF TypeOK
  <2>3. HeapRef' = [HeapRef EXCEPT ![c] = x]
    BY <1>1, <2>2, Seen
  <2>4. c \in Heap!Nameable
    BY DEF Heap!Nameable
  <2> QED BY <1>1, <2>3, <2>4, AssignRefines
<1>2. ASSUME NEW w \in Worker, Start(w) PROVE Heap!Next
  <2>1. /\ pc[Main] = "idle" /\ pc[w] = "none" /\ UNCHANGED <<alloc, ref, val, dst>>
        /\ run' = [run EXCEPT ![w] = ref[Main]] /\ pc' = [pc EXCEPT ![w] = "idle"]
    BY <1>0, <1>2 DEF Start, Lifecycle
  <2>2. \A t \in Thread : View(t)' = View(t)
    BY <1>0, <2>1 DEF View, Storing, TypeOK
  <2>3. View(Main) = ref[Main] /\ Main \in Thread
    BY <2>1, Sorts DEF View, Storing
  <2>4. ref[Main] \in Heap!Readable
    BY <2>3, NameableThere
  <2> QED BY <1>1, <2>1, <2>2, <2>4
<1>3. ASSUME NEW w \in Worker, EndRun(w) PROVE Heap!Next
  <2>1. /\ pc[w] = "idle" /\ UNCHANGED <<alloc, ref, val, dst>>
        /\ run' = [run EXCEPT ![w] = NULL] /\ pc' = [pc EXCEPT ![w] = "release"]
    BY <1>3 DEF EndRun
  <2>2. \A t \in Thread : View(t)' = View(t)
    BY <1>0, <2>1 DEF View, Storing, TypeOK
  <2>3. NULL \in Heap!Readable
    BY DEF Heap!Readable
  <2> QED BY <1>1, <2>1, <2>2, <2>3
<1>4. ASSUME NEW w \in Worker, Finish(w) \/ Join(w) PROVE UNCHANGED <<alloc, HeapRef>>
  <2>1. UNCHANGED <<alloc, ref, val, dst, run>>
    BY <1>4 DEF Finish, Join
  <2>2. pc' = pc \/ (pc[w] = "finish" /\ pc' = [pc EXCEPT ![w] = "none"])
    BY <1>4 DEF Finish, Join
  <2>3. \A t \in Thread : View(t)' = View(t)
    BY <1>0, <2>1, <2>2 DEF View, Storing, TypeOK
  <2> QED BY <2>1, <2>3, Unseen
<1>5. CASE Return
  <2>1. /\ pc[Main] = "idle" /\ UNCHANGED <<alloc, val, dst, run>>
        /\ pc' = [pc EXCEPT ![Main] = "exit"] \/ pc' = [pc EXCEPT ![Main] = "release"]
    BY <1>5 DEF Return, pthreads
  <2>2. CASE ref' = ref
    <3>1. \A t \in Thread : View(t)' = View(t)
      BY <1>0, <2>1, <2>2 DEF View, Storing, TypeOK
    <3> QED BY <2>1, <2>2, <3>1, Unseen
  <2>3. CASE \E s \in Static : ref' = [ref EXCEPT ![s] = NULL]
    <3>1. PICK s \in Static : ref' = [ref EXCEPT ![s] = NULL]
      BY <2>3
    <3>2. s \in Shared /\ s \in Cell /\ \A t \in Thread : t # s
      BY Sorts
    <3>3. \A d \in Cell \ {s} : ref'[d] = ref[d]
      BY <1>0, <3>1 DEF TypeOK
    <3>4. \A t \in Thread : View(t)' = View(t)
      BY <1>0, <2>1, <3>2, <3>3, Sorts DEF View, Storing, TypeOK
    <3>5. HeapRef'[s] = NULL
      BY <1>0, <3>1, <3>2, NextHeapValues DEF TypeOK
    <3>6. HeapRef' = [HeapRef EXCEPT ![s] = NULL]
      BY <2>1, <3>2, <3>3, <3>4, <3>5, Seen, Sorts
    <3>7. s \in Heap!Nameable /\ NULL \in Heap!Readable
      BY DEF Heap!Nameable, Heap!Readable
    <3> QED BY <2>1, <3>6, <3>7, AssignRefines
  <2> QED BY <1>5, <2>2, <2>3 DEF Return
<1> QED BY <1>2, <1>3, <1>4, <1>5

\* ImplementsSharedHeap: in every interleaving of the threads' steps, the release that frees
\* an object (jrt_release) takes one that no thread, static or Runnable reaches, and every
\* load, store and allocation is an operation of the abstract heap.
THEOREM ThreadsRefine ==
  ASSUME Locked
  PROVE  Spec => ImplementsSharedHeap
<1>1. Init => Heap!Init
  <2> SUFFICES ASSUME Init PROVE Heap!Init
    OBVIOUS
  <2>1. \A c \in Cell \cup RunSlot : HeapRef[c] = NULL
    BY HeapValues, HeapCells, Sorts DEF Init, View, Cell
  <2> QED BY <2>1, HeapValues, HeapCells DEF Init, Heap!Init
<1>2. IInv /\ [Next]_vars => [Heap!Next]_<<alloc, HeapRef>>
  <2> SUFFICES ASSUME IInv, [Next]_vars PROVE Heap!Next \/ UNCHANGED <<alloc, HeapRef>>
    OBVIOUS
  <2>1. CASE UNCHANGED vars
    <3>1. \A t \in Thread : View(t)' = View(t)
      BY <2>1 DEF vars, memory, operation, View, Storing
    <3> QED BY <2>1, <3>1, Unseen DEF vars, memory, pthreads
  <2>2. CASE \E t \in Thread : Program(t) \/ Step(t)
    BY <2>2, ProgramRefines, StepRefines
  <2> QED BY <2>1, <2>2, LifecycleRefines DEF Next
<1> QED BY <1>1, <1>2, ThreadsInvariance, PTL DEF Spec, ImplementsSharedHeap, Heap!Spec
=============================================================================
