------------------------ MODULE RcHeapProgressProofs ------------------------
(***************************************************************************)
(* The functions of the runtime terminate: Remaining decreases with each   *)
(* of their steps.  That it is a tuple of natural numbers makes this a     *)
(* bound; nothing is said of when the next step is taken.                  *)
(***************************************************************************)
EXTENDS RcHeapProofs

-----------------------------------------------------------------------------
(* The order                                                                *)

\* A step that lowers a component and keeps those before it comes closer.
LEMMA LessCases ==
  ASSUME \/ Stage' < Stage
         \/ /\ Stage' = Stage
            /\ \/ Cardinality(Held)' < Cardinality(Held)
               \/ /\ Cardinality(Held)' = Cardinality(Held)
                  /\ \/ Owing' < Owing
                     \/ /\ Owing' = Owing
                        /\ \/ Calls' < Calls
                           \/ /\ Calls' = Calls
                              /\ \/ Candidates' < Candidates
                                 \/ /\ Candidates' = Candidates
                                    /\ \/ Phase' < Phase
                                       \/ /\ Phase' = Phase
                                          /\ \/ Cardinality(pend)' < Cardinality(pend)
                                             \/ /\ Cardinality(pend)' = Cardinality(pend)
                                                /\ \/ Toil' < Toil
                                                   \/ Toil' = Toil /\ Worklists' < Worklists
  PROVE  Less(Remaining', Remaining)
<1> DEFINE a == Remaining'  b == Remaining
<1>1. /\ a[1] = Stage' /\ a[2] = Cardinality(Held)' /\ a[3] = Owing' /\ a[4] = Calls'
      /\ a[5] = Candidates' /\ a[6] = Phase' /\ a[7] = Cardinality(pend)'
      /\ a[8] = Toil' /\ a[9] = Worklists' /\ DOMAIN a = 1 .. 9
  BY DEF Remaining
<1>2. /\ b[1] = Stage /\ b[2] = Cardinality(Held) /\ b[3] = Owing /\ b[4] = Calls
      /\ b[5] = Candidates /\ b[6] = Phase /\ b[7] = Cardinality(pend)
      /\ b[8] = Toil /\ b[9] = Worklists
  BY DEF Remaining
<1> HIDE DEF a, b
<1>3. \E i \in 1 .. 9 : a[i] < b[i] /\ \A j \in 1 .. 9 : j < i => a[j] = b[j]
  <2>1. CASE a[1] < b[1]
    BY <2>1
  <2>2. CASE a[1] = b[1] /\ a[2] < b[2]
    BY <2>2
  <2>3. CASE a[1] = b[1] /\ a[2] = b[2] /\ a[3] < b[3]
    BY <2>3
  <2>4. CASE a[1] = b[1] /\ a[2] = b[2] /\ a[3] = b[3] /\ a[4] < b[4]
    BY <2>4
  <2>5. CASE /\ a[1] = b[1] /\ a[2] = b[2] /\ a[3] = b[3] /\ a[4] = b[4]
             /\ a[5] < b[5]
    BY <2>5
  <2>6. CASE /\ a[1] = b[1] /\ a[2] = b[2] /\ a[3] = b[3] /\ a[4] = b[4]
             /\ a[5] = b[5] /\ a[6] < b[6]
    BY <2>6
  <2>7. CASE /\ a[1] = b[1] /\ a[2] = b[2] /\ a[3] = b[3] /\ a[4] = b[4]
             /\ a[5] = b[5] /\ a[6] = b[6] /\ a[7] < b[7]
    BY <2>7
  <2>8. CASE /\ a[1] = b[1] /\ a[2] = b[2] /\ a[3] = b[3] /\ a[4] = b[4]
             /\ a[5] = b[5] /\ a[6] = b[6] /\ a[7] = b[7] /\ a[8] < b[8]
    BY <2>8
  <2>9. CASE /\ a[1] = b[1] /\ a[2] = b[2] /\ a[3] = b[3] /\ a[4] = b[4]
             /\ a[5] = b[5] /\ a[6] = b[6] /\ a[7] = b[7] /\ a[8] = b[8] /\ a[9] < b[9]
    BY <2>9
  <2> QED BY <1>1, <1>2, <2>1, <2>2, <2>3, <2>4, <2>5, <2>6, <2>7, <2>8, <2>9
<1>4. PICK i \in 1 .. 9 : a[i] < b[i] /\ \A j \in 1 .. 9 : j < i => a[j] = b[j]
  BY <1>3
<1>5. \A j \in 1 .. i - 1 : j \in 1 .. 9 /\ j < i
  OBVIOUS
<1>6. Less(a, b)
  BY <1>1, <1>4, <1>5 DEF Less
<1> QED BY <1>6 DEF a, b

\* Finite sets that shrink.
LEMMA Fewer ==
  ASSUME NEW S, IsFiniteSet(S), NEW T, T \subseteq S
  PROVE  /\ Cardinality(S) \in Nat /\ Cardinality(T) \in Nat
         /\ Cardinality(T) <= Cardinality(S)
         /\ T # S => Cardinality(T) < Cardinality(S)
<1>1. IsFiniteSet(T) /\ Cardinality(T) <= Cardinality(S)
  BY FS_Subset
<1>2. T # S => Cardinality(T) # Cardinality(S)
  BY FS_Subset
<1> QED BY <1>1, <1>2, FS_CardinalityType

\* All sets of the state are finite.
LEMMA StateFinite ==
  ASSUME TypeOK
  PROVE  /\ IsFiniteSet(Held) /\ IsFiniteSet(todo) /\ IsFiniteSet(roots) /\ IsFiniteSet(pend)
         /\ IsFiniteSet(cwork) /\ IsFiniteSet(bwork)
         /\ \A P \in SUBSET Obj : IsFiniteSet(P) /\ Cardinality(P) \in Nat
BY ConstantsAssumption, FS_Subset, FS_CardinalityType DEF TypeOK, Held

-----------------------------------------------------------------------------
(* The program's calls, and the drop cascade                                *)

\* The sets that a step leaves alone keep their sizes.
LEMMA SameHeld ==
  ASSUME UNCHANGED <<alloc, dropped, fwork, gbuf>>
  PROVE  Held' = Held /\ Cardinality(Held)' = Cardinality(Held)
BY DEF Held

\* The parts of an allocation, and those of the shutdown, follow one another.
LEMMA CallProgress ==
  ASSUME PumpGbuf \/ Flush \/ Done \/ \E v \in Local, o \in Obj : Make(v, o)
  PROVE  Less(Remaining', Remaining)
<1>1. Stage' < Stage
  BY DEF PumpGbuf, Flush, Done, Make, Stage
<1> QED BY <1>1, LessCases

\* A release gives up the reference it owes; what it starts comes after it.
LEMMA ReleaseOldProgress == ASSUME ReleaseOld PROVE Less(Remaining', Remaining)
<1>1. Stage' = Stage
  BY DEF ReleaseOld, Stage
<1>2. Cardinality(Held)' = Cardinality(Held)
  BY SameHeld DEF ReleaseOld, traversal
<1>3. Owing' < Owing
  BY DEF ReleaseOld, Owing
<1> QED BY <1>1, <1>2, <1>3, LessCases

\* The cascade takes a queued object: from now on it is not held.
LEMMA DrainNextProgress ==
  ASSUME IInv, NEW x \in dropbuf, DrainNext(x)
  PROVE  Less(Remaining', Remaining)
<1>1. Stage' = Stage
  BY DEF DrainNext, program, Stage
<1>2. x \in Held
  BY DEF IInv, Placement
<1>3. Held' \subseteq Held \ {x}
  BY DEF DrainNext, Held, traversal
<1>4. Cardinality(Held') < Cardinality(Held)
  BY <1>2, <1>3, StateFinite, Fewer DEF IInv
<1> QED BY <1>1, <1>4, LessCases

\* A drop function has a field less to release.  The candidate or the collection step that
\* the release gives rise to weighs less than the field.
LEMMA DropFieldProgress ==
  ASSUME IInv, NEW s \in todo, DropField(s)
  PROVE  Less(Remaining', Remaining)
<1>1. Stage' = Stage /\ Owing' = Owing
  BY DEF DropField, program, Stage, Owing
<1>2. Cardinality(Held)' = Cardinality(Held)
  BY SameHeld DEF DropField, traversal
<1>3. todo' = todo \ {s} /\ drop' = drop /\ draining' = draining
  BY DEF DropField
<1>4. Cardinality(todo') < Cardinality(todo) /\ Cardinality(todo) \in Nat /\ Cardinality(todo') \in Nat
  BY <1>3, StateFinite, Fewer DEF IInv
<1>5. Calls' < Calls
  BY <1>3, <1>4 DEF Calls
<1> QED BY <1>1, <1>2, <1>5, LessCases

\* The object whose drop function returns was not held any more.
LEMMA DropEndProgress == ASSUME IInv, DropEnd PROVE Less(Remaining', Remaining)
<1>1. Stage' = Stage /\ Owing' = Owing
  BY DEF DropEnd, program, Stage, Owing
<1>2. drop \in dropped
  BY DEF DropEnd, IInv, CallStack
<1>3. Held' = Held
  BY <1>2 DEF DropEnd, Held, traversal
<1>4. todo' = todo /\ draining' = draining /\ drop # NULL /\ drop' = NULL
  BY DEF DropEnd
<1>5. Cardinality(todo) \in Nat
  BY StateFinite, FS_CardinalityType DEF IInv
<1>6. Calls' < Calls
  BY <1>4, <1>5 DEF Calls
<1> QED BY <1>1, <1>3, <1>6, LessCases

\* drain_drops returns.
LEMMA DrainDoneProgress == ASSUME IInv, DrainDone PROVE Less(Remaining', Remaining)
<1>1. Stage' = Stage /\ Owing' = Owing
  BY DEF DrainDone, program, Stage, Owing
<1>2. Cardinality(Held)' = Cardinality(Held)
  BY SameHeld DEF DrainDone, traversal
<1>3. Cardinality(todo) \in Nat
  BY StateFinite, FS_CardinalityType DEF IInv
<1>4. Calls' < Calls
  BY <1>3 DEF DrainDone, Calls
<1> QED BY <1>1, <1>2, <1>4, LessCases

-----------------------------------------------------------------------------
(* The collection step                                                      *)

\* It is part of the call that has started it: it leaves the stack below it alone.
LEMMA StackBelow ==
  ASSUME UNCHANGED <<program, cascade>>
  PROVE  Stage' = Stage /\ Owing' = Owing /\ Calls' = Calls
BY DEF program, cascade, Stage, Owing, Calls

\* jrt_collect_cycles calls a step as long as there is a candidate.
LEMMA CollectCyclesProgress == ASSUME IInv, CollectCycles PROVE Less(Remaining', Remaining)
<1>1. Stage' = Stage /\ Owing' = Owing /\ Calls' = Calls
  BY StackBelow DEF CollectCycles
<1>2. Cardinality(Held)' = Cardinality(Held)
  BY SameHeld DEF CollectCycles, cascade, traversal
<1>3. Candidates' = Candidates
  BY DEF CollectCycles, Idle, Candidates
<1>4. Phase' < Phase
  BY DEF CollectCycles, Idle, Phase
<1> QED BY <1>1, <1>2, <1>3, <1>4, LessCases

\* A step starts only with candidates, and takes some of them off the head of the buffer.
Work == gc = "pass1" => roots # {}

LEMMA Pass1Progress == ASSUME IInv, Work, Pass1 PROVE Less(Remaining', Remaining)
<1>1. Stage' = Stage /\ Owing' = Owing /\ Calls' = Calls
  BY StackBelow DEF Pass1
<1>2. Held' \subseteq Held
  BY DEF Pass1, Held, cascade
<1>3. Cardinality(Held') \in Nat /\ Cardinality(Held) \in Nat /\ Cardinality(Held') <= Cardinality(Held)
  BY <1>2, StateFinite, Fewer DEF IInv
<1> DEFINE head == Cardinality(roots) - COLLECT_BATCH
<1>4. Cardinality(roots) \in Nat /\ Cardinality(roots) # 0
  BY StateFinite, FS_CardinalityType, FS_EmptySet DEF IInv, Work, Pass1
<1>5. Cardinality(roots' \ batch') <= IF head > 0 THEN head ELSE 0
  BY DEF Pass1
<1>6. IsFiniteSet(roots' \ batch')
  <2>1. roots' \ batch' \subseteq roots
    BY DEF Pass1
  <2> QED BY <2>1, StateFinite, FS_Subset DEF IInv
<1>7. Cardinality(roots' \ batch') < Cardinality(roots)
  BY <1>4, <1>5, <1>6, FS_CardinalityType, ConstantsAssumption
<1>8. Candidates' < Candidates
  BY <1>7 DEF Pass1, Candidates
<1>9. CASE Cardinality(Held') < Cardinality(Held)
  BY <1>1, <1>9, LessCases
<1>10. CASE Cardinality(Held') = Cardinality(Held)
  BY <1>1, <1>8, <1>10, LessCases
<1> QED BY <1>3, <1>9, <1>10

\* A loop over the batch has an entry less to visit.
LEMMA VisitProgress ==
  ASSUME IInv, NEW phase \in {"mark", "scan", "collect"}, NEW h \in pend, NEW wanted,
         Visit(phase, h, wanted)
  PROVE  Less(Remaining', Remaining)
<1>1. Stage' = Stage /\ Owing' = Owing /\ Calls' = Calls
  BY StackBelow DEF Visit
<1>2. Cardinality(Held)' = Cardinality(Held)
  BY SameHeld DEF Visit, cascade
<1>3. Candidates' = Candidates /\ Phase' = Phase
  BY DEF Visit, Candidates, Phase
<1>4. Cardinality(pend') < Cardinality(pend)
  BY StateFinite, Fewer DEF Visit, IInv
<1> QED BY <1>1, <1>2, <1>3, <1>4, LessCases

\* The loops over the batch follow one another.
LEMMA NextPassProgress ==
  ASSUME NextPass("mark", "scan") \/ NextPass("scan", "collect")
  PROVE  Less(Remaining', Remaining)
<1>1. Stage' = Stage /\ Owing' = Owing /\ Calls' = Calls
  BY StackBelow DEF NextPass
<1>2. Cardinality(Held)' = Cardinality(Held)
  BY SameHeld DEF NextPass, cascade
<1>3. Candidates' = Candidates
  BY DEF NextPass, Candidates
<1>4. Phase' < Phase
  BY DEF NextPass, Phase
<1> QED BY <1>1, <1>2, <1>3, <1>4, LessCases

\* What an iteration of a traversal leaves alone, if it claims no object.
LEMMA TraversalFrame ==
  ASSUME UNCHANGED <<alloc, program, cascade, roots, gc, batch, pend, fwork, gbuf>>
  PROVE  /\ Stage' = Stage /\ Owing' = Owing /\ Calls' = Calls
         /\ Cardinality(Held)' = Cardinality(Held)
         /\ Candidates' = Candidates /\ Phase' = Phase /\ Cardinality(pend)' = Cardinality(pend)
<1>1. Stage' = Stage /\ Owing' = Owing /\ Calls' = Calls
  BY StackBelow
<1>2. Cardinality(Held)' = Cardinality(Held)
  BY SameHeld DEF cascade
<1> QED BY <1>1, <1>2 DEF Candidates, Phase

\* The traversals colour an object, or drop an entry of a worklist.
LEMMA TraversalProgress ==
  ASSUME UNCHANGED <<alloc, program, cascade, roots, gc, batch, pend, fwork, gbuf>>,
         Toil' < Toil \/ (Toil' = Toil /\ Worklists' < Worklists)
  PROVE  Less(Remaining', Remaining)
BY TraversalFrame, LessCases

\* An entry taken off one of the worklists.
LEMMA WorkTaken ==
  ASSUME TypeOK,
         \/ \E h \in cwork : cwork' = cwork \ {h} /\ bwork' = bwork
         \/ \E h \in bwork : bwork' = bwork \ {h} /\ cwork' = cwork
         \/ \E h \in cwork : cwork' = cwork \ {h} /\ bwork = {} /\ bwork' = {h}
  PROVE  Worklists' < Worklists
<1>1. /\ Cardinality(cwork) \in Nat /\ Cardinality(bwork) \in Nat
      /\ IsFiniteSet(cwork) /\ IsFiniteSet(bwork)
  BY StateFinite, FS_CardinalityType
<1>2. \A h \in cwork : /\ Cardinality(cwork \ {h}) \in Nat
                       /\ Cardinality(cwork \ {h}) < Cardinality(cwork)
  BY <1>1, Fewer
<1>3. \A h \in bwork : /\ Cardinality(bwork \ {h}) \in Nat
                       /\ Cardinality(bwork \ {h}) < Cardinality(bwork)
  BY <1>1, Fewer
<1>4. Cardinality({}) = 0 /\ \A h : Cardinality({h}) = 1
  BY FS_EmptySet, FS_Singleton
<1>5. CASE \E h \in cwork : cwork' = cwork \ {h} /\ bwork' = bwork
  BY <1>1, <1>2, <1>5 DEF Worklists
<1>6. CASE \E h \in bwork : bwork' = bwork \ {h} /\ cwork' = cwork
  BY <1>1, <1>3, <1>6 DEF Worklists
<1>7. CASE \E h \in cwork : cwork' = cwork \ {h} /\ bwork = {} /\ bwork' = {h}
  <2>1. PICK h \in cwork : cwork' = cwork \ {h} /\ bwork = {} /\ bwork' = {h}
    BY <1>7
  <2>2. Cardinality(bwork) = 0 /\ Cardinality(bwork') = 1
    BY <2>1, <1>4
  <2>3. Cardinality(cwork') \in Nat /\ Cardinality(cwork') < Cardinality(cwork)
    BY <2>1, <1>2
  <2> QED BY <2>2, <2>3, <1>1 DEF Worklists
<1> QED BY <1>5, <1>6, <1>7

\* mark_gray: an object turns gray once.
LEMMA MarkGrayProgress ==
  ASSUME IInv, NEW h \in cwork, MarkGray(h)
  PROVE  Less(Remaining', Remaining)
<1>1. UNCHANGED <<alloc, program, cascade, roots, gc, batch, pend, fwork, gbuf>>
  BY DEF MarkGray
<1>2. CASE color[h] = "GRAY"
  <2>1. Toil' = Toil
    BY <1>2 DEF MarkGray, Toil
  <2>2. Worklists' < Worklists
    BY <1>2, WorkTaken DEF MarkGray, IInv
  <2> QED BY <1>1, <2>1, <2>2, TraversalProgress
<1>3. CASE color[h] # "GRAY"
  <2> DEFINE S == {o \in Obj : color[o] # "GRAY"}
  <2>1. h \in Obj /\ color \in [Obj -> {"BLACK", "GRAY", "WHITE", "PURPLE"}]
    BY DEF IInv, TypeOK
  <2>2. S' \subseteq S /\ h \in S /\ h \notin S' /\ S \subseteq Obj
    BY <1>3, <2>1 DEF MarkGray
  <2>3. Cardinality(S') < Cardinality(S)
    BY <2>2, StateFinite, Fewer DEF IInv
  <2>4. Toil = Cardinality(S) /\ Toil' = Cardinality(S')
    BY DEF MarkGray, Toil
  <2> QED BY <1>1, <2>3, <2>4, TraversalProgress
<1> QED BY <1>2, <1>3

\* scan: an object turns white once, or is handed to scan_black.
LEMMA ScanProgress ==
  ASSUME IInv, NEW h \in cwork, Scan(h)
  PROVE  Less(Remaining', Remaining)
<1>1. UNCHANGED <<alloc, program, cascade, roots, gc, batch, pend, fwork, gbuf>>
  BY DEF Scan
<1>2. CASE color' = color
  <2>1. Toil' = Toil
    BY <1>2 DEF Scan, Toil
  <2>2. h \in Obj /\ color \in [Obj -> {"BLACK", "GRAY", "WHITE", "PURPLE"}]
    BY DEF IInv, TypeOK
  <2>3. Worklists' < Worklists
    BY <1>2, <2>2, WorkTaken DEF Scan, IInv
  <2> QED BY <1>1, <2>1, <2>3, TraversalProgress
<1>3. CASE color[h] = "GRAY" /\ color' = [color EXCEPT ![h] = "WHITE"]
  <2> DEFINE N == {o \in Obj : color[o] # "BLACK"}  G == {o \in Obj : color[o] = "GRAY"}
  <2>1. h \in Obj /\ color \in [Obj -> {"BLACK", "GRAY", "WHITE", "PURPLE"}]
    BY DEF IInv, TypeOK
  <2>2. N' = N /\ G' \subseteq G /\ h \in G /\ h \notin G' /\ G \subseteq Obj /\ N \subseteq Obj
    BY <1>3, <2>1
  <2>3. /\ Cardinality(G') < Cardinality(G) /\ Cardinality(G') \in Nat /\ Cardinality(G) \in Nat
        /\ Cardinality(N) \in Nat /\ Cardinality(N') = Cardinality(N)
    BY <2>2, StateFinite, Fewer DEF IInv
  <2>4. Toil = Cardinality(N) + Cardinality(G) /\ Toil' = Cardinality(N') + Cardinality(G')
    BY DEF Scan, Toil
  <2> HIDE DEF N, G
  <2>5. Toil' < Toil
    BY <2>3, <2>4
  <2> QED BY <1>1, <2>5, TraversalProgress
<1> QED BY <1>2, <1>3 DEF Scan

\* scan_black: an object turns black once.
LEMMA ScanBlackProgress ==
  ASSUME IInv, NEW h \in bwork, ScanBlack(h)
  PROVE  Less(Remaining', Remaining)
<1>1. UNCHANGED <<alloc, program, cascade, roots, gc, batch, pend, fwork, gbuf>>
  BY DEF ScanBlack
<1>2. CASE color[h] = "BLACK"
  <2>1. Toil' = Toil
    BY <1>2 DEF ScanBlack, Toil
  <2>2. Worklists' < Worklists
    BY <1>2, WorkTaken DEF ScanBlack, IInv
  <2> QED BY <1>1, <2>1, <2>2, TraversalProgress
<1>3. CASE color[h] # "BLACK"
  <2> DEFINE N == {o \in Obj : color[o] # "BLACK"}  G == {o \in Obj : color[o] = "GRAY"}
  <2>1. h \in Obj /\ color \in [Obj -> {"BLACK", "GRAY", "WHITE", "PURPLE"}]
    BY DEF IInv, TypeOK
  <2>2. /\ N' \subseteq N /\ h \in N /\ h \notin N' /\ N \subseteq Obj
        /\ G' \subseteq G /\ G \subseteq Obj
    BY <1>3, <2>1 DEF ScanBlack
  <2>3. /\ Cardinality(N') < Cardinality(N) /\ Cardinality(N') \in Nat /\ Cardinality(N) \in Nat
        /\ Cardinality(G') <= Cardinality(G) /\ Cardinality(G') \in Nat /\ Cardinality(G) \in Nat
    BY <2>2, StateFinite, Fewer DEF IInv
  <2>4. Toil = Cardinality(N) + Cardinality(G) /\ Toil' = Cardinality(N') + Cardinality(G')
    BY DEF ScanBlack, Toil
  <2> HIDE DEF N, G
  <2>5. Toil' < Toil
    BY <2>3, <2>4
  <2> QED BY <1>1, <2>5, TraversalProgress
<1> QED BY <1>2, <1>3

\* collect_white: an object is claimed once, and claiming it ends its being held.
LEMMA CollectWhiteProgress ==
  ASSUME IInv, NEW h \in cwork, CollectWhite(h)
  PROVE  Less(Remaining', Remaining)
<1>1. CASE color[h] = "WHITE"
  <2>1. Stage' = Stage
    BY DEF CollectWhite, program, Stage
  <2>2. h \in Held
    BY <1>1 DEF IInv, TypeOK, Placement, Tried, White
  <2>3. Held' \subseteq Held \ {h}
    BY <1>1 DEF CollectWhite, Held, cascade
  <2>4. Cardinality(Held') < Cardinality(Held)
    BY <2>2, <2>3, StateFinite, Fewer DEF IInv
  <2> QED BY <2>1, <2>4, LessCases
<1>2. CASE color[h] # "WHITE"
  <2>1. UNCHANGED <<alloc, program, cascade, roots, gc, batch, pend, fwork, gbuf>>
    BY <1>2 DEF CollectWhite
  <2>2. Toil' = Toil
    BY <1>2 DEF CollectWhite, Toil
  <2>3. Worklists' < Worklists
    BY <1>2, WorkTaken DEF CollectWhite, IInv
  <2> QED BY <2>1, <2>2, <2>3, TraversalProgress
<1> QED BY <1>1, <1>2

\* Compaction keeps candidates of the head of the buffer only: no member of the batch has
\* stayed one.
LEMMA CompactProgress == ASSUME IInv, RootsBound, Compact PROVE Less(Remaining', Remaining)
<1>1. Stage' = Stage /\ Owing' = Owing /\ Calls' = Calls
  BY StackBelow DEF Compact
<1>2. Held' = Held
  BY DEF Compact, Held, cascade
<1>3. Kept \subseteq roots \ batch
  BY DEF Compact, Kept, RootsBound, Candidate, Purple, IInv, TypeOK
<1>4. IsFiniteSet(roots \ batch)
  BY StateFinite, FS_Subset, roots \ batch \subseteq roots DEF IInv
<1>5. /\ Cardinality(Kept) <= Cardinality(roots \ batch)
      /\ Cardinality(Kept) \in Nat /\ Cardinality(roots \ batch) \in Nat
  BY <1>3, <1>4, Fewer
<1>6. Candidates' = Cardinality(Kept) /\ Candidates = Cardinality(roots \ batch)
  BY DEF Compact, Candidates
<1>7. Phase' < Phase
  BY DEF Compact, Phase
<1>8. CASE Candidates' < Candidates
  BY <1>1, <1>2, <1>8, LessCases
<1>9. CASE Candidates' = Candidates
  BY <1>1, <1>2, <1>7, <1>9, LessCases
<1> QED BY <1>5, <1>6, <1>8, <1>9

LEMMA CollectStepProgress ==
  ASSUME IInv, RootsBound, Work, CollectStep
  PROVE  Less(Remaining', Remaining)
<1>1. ASSUME NEW h \in pend, MarkRoot(h) \/ ScanRoot(h) \/ CollectRoot(h)
      PROVE  Less(Remaining', Remaining)
  BY <1>1, VisitProgress DEF MarkRoot, ScanRoot, CollectRoot
<1>2. ASSUME NEW h \in cwork, MarkGray(h) \/ Scan(h) \/ CollectWhite(h)
      PROVE  Less(Remaining', Remaining)
  BY <1>2, MarkGrayProgress, ScanProgress, CollectWhiteProgress
<1> QED BY <1>1, <1>2, Pass1Progress, NextPassProgress, CompactProgress, ScanBlackProgress
        DEF CollectStep

LEMMA RuntimeProgress ==
  ASSUME IInv, RootsBound, Work, Runtime
  PROVE  Less(Remaining', Remaining)
BY CallProgress, ReleaseOldProgress, DrainNextProgress, DropFieldProgress, DropEndProgress,
   DrainDoneProgress, CollectStepProgress, CollectCyclesProgress DEF Runtime

-----------------------------------------------------------------------------
(* A collection step always has a candidate to start from                   *)

LEMMA InitWork == Init => Work
BY DEF Init, Work

\* A step is started by the candidate that fills the buffer, or by jrt_collect_cycles.
LEMMA ReleaseWork ==
  ASSUME IInv, gc = "off", NEW o \in Obj, ReleaseLast(o) \/ ReleaseShared(o)
  PROVE  Work'
<1>1. CASE gc' = gc
  BY <1>1 DEF Work
<1>2. CASE gc' # gc
  <2>1. PossibleRoot(o)
    BY <1>2 DEF ReleaseLast, ReleaseShared
  <2>2. o \in roots'
    BY <1>2, <2>1 DEF PossibleRoot, IInv, Placement
  <2> QED BY <2>2 DEF Work
<1> QED BY <1>1, <1>2

LEMMA NextWork == ASSUME IInv, Work, [Next]_vars PROVE Work'
<1>1. ASSUME Mutate PROVE Work'
  BY <1>1 DEF Mutate, CopyLocal, GetField, PutField, PutNull, Release, Store, BeginNew, Exit,
     Running, Idle, Work
<1>2. ASSUME ReleaseOld PROVE Work'
  <2>1. rel \in Obj /\ gc = "off"
    BY <1>2 DEF ReleaseOld, IInv, TypeOK
  <2> QED BY <1>2, <2>1, ReleaseWork DEF ReleaseOld
<1>3. ASSUME NEW s \in todo, DropField(s) PROVE Work'
  <2> DEFINE k == ref[<<drop, s>>]
  <2>1. k \in Obj \cup {NULL} /\ gc = "off"
    BY <1>3 DEF DropField, IInv, TypeOK, Cell
  <2>2. CASE k = NULL
    BY <1>3, <2>1, <2>2, ConstantsAssumption DEF DropField, Work, ReleaseLast, ReleaseShared
  <2>3. CASE k # NULL
    BY <1>3, <2>1, <2>3, ReleaseWork DEF DropField
  <2> QED BY <2>2, <2>3
<1>4. ASSUME CollectStep PROVE Work'
  BY <1>4 DEF CollectStep, Pass1, NextPass, Compact, MarkRoot, ScanRoot, CollectRoot, Visit,
     MarkGray, Scan, CollectWhite, ScanBlack, Work
<1>5. ASSUME CollectCycles PROVE Work'
  BY <1>5 DEF CollectCycles, Work
<1>6. ASSUME PumpGbuf \/ DropEnd \/ DrainDone \/ Flush \/ Done PROVE Work'
  BY <1>6 DEF PumpGbuf, DropEnd, DrainDone, Flush, Done, Work
<1>7. ASSUME NEW v, NEW o, Make(v, o) PROVE Work'
  BY <1>7 DEF Make, Work
<1>8. ASSUME NEW x, DrainNext(x) PROVE Work'
  BY <1>8 DEF DrainNext, Work
<1>9. ASSUME UNCHANGED vars PROVE Work'
  BY <1>9 DEF vars, Work
<1>10. ASSUME Runtime PROVE Work'
  BY <1>2, <1>3, <1>4, <1>5, <1>6, <1>7, <1>8, <1>10 DEF Runtime
<1> QED BY <1>1, <1>9, <1>10 DEF Next

\* Every component of the bound is a natural number, so that the order it descends in has
\* no infinite chain.
LEMMA RemainingType ==
  ASSUME TypeOK
  PROVE  Remaining \in [1 .. 9 -> Nat]
<1>1. /\ Stage \in Nat /\ Owing \in Nat /\ Phase \in Nat
  BY DEF Stage, Owing, Phase, TypeOK
<1>2. /\ Cardinality(Held) \in Nat /\ Cardinality(pend) \in Nat /\ Cardinality(todo) \in Nat
      /\ Cardinality(cwork) \in Nat /\ Cardinality(bwork) \in Nat /\ Cardinality(roots) \in Nat
  BY StateFinite, FS_CardinalityType
<1>3. Calls \in Nat /\ Worklists \in Nat
  BY <1>2 DEF Calls, Worklists
<1>4. Candidates \in Nat
  <2>1. roots \ batch \subseteq Obj
    BY DEF TypeOK
  <2>2. Cardinality(roots \ batch) \in Nat
    BY <2>1, StateFinite
  <2> QED BY <1>2, <2>2 DEF Candidates
<1>5. Toil \in Nat
  <2> DEFINE N == {o \in Obj : color[o] # "BLACK"}  G == {o \in Obj : color[o] = "GRAY"}
             U == {o \in Obj : color[o] # "GRAY"}
  <2>1. Cardinality(N) \in Nat /\ Cardinality(G) \in Nat /\ Cardinality(U) \in Nat
    BY StateFinite
  <2>2. Toil \in {Cardinality(U), Cardinality(N) + Cardinality(G), 0}
    BY DEF Toil
  <2> HIDE DEF N, G, U
  <2> QED BY <2>1, <2>2
<1> QED BY <1>1, <1>2, <1>3, <1>4, <1>5 DEF Remaining

\* RuntimeProgresses: no function of the runtime runs for ever, whatever the sizes of the
\* heap, of the buffer and of the batches.  The second conjunct makes it a bound on the steps
\* between two moments at which the program runs.
THEOREM RuntimeTerminates == Spec => RuntimeProgresses /\ [](Remaining \in [1 .. 9 -> Nat])
<1>1. Init => RootsBound
  BY FS_EmptySet, ConstantsAssumption DEF Init, RootsBound
<1>2. IInv /\ RootsBound /\ Work /\ [Next]_vars => [~Running => Less(Remaining', Remaining)]_vars
  <2> SUFFICES ASSUME IInv, RootsBound, Work, [Next]_vars, ~UNCHANGED vars, ~Running
               PROVE  Less(Remaining', Remaining)
    OBVIOUS
  <2>1. ~Mutate
    BY DEF Mutate, CopyLocal, GetField, PutField, PutNull, Release, Store, BeginNew, Exit
  <2> QED BY <2>1, RuntimeProgress DEF Next
<1>3. IInv => Remaining \in [1 .. 9 -> Nat]
  BY RemainingType DEF IInv
<1> QED BY <1>1, <1>2, <1>3, InitWork, NextWork, NextBound, Invariance, PTL
        DEF Spec, RuntimeProgresses

=============================================================================
