------------------------------- MODULE RcHeap -------------------------------
(***************************************************************************)
(* The single-threaded memory manager of the FastJavaC runtime             *)
(* (crates/driver/src/runtime.c): reference counts packed in the object    *)
(* header, the iterative and budgeted drop cascade, and the incremental    *)
(* Bacon-Rajan cycle collector that a release may start in the middle of a *)
(* cascade.  The program that runs above it is the code the backend emits: *)
(* it retains a value before storing it and releases the overwritten one.  *)
(*                                                                         *)
(* The runtime is one thread, but it is re-entrant: a store releases the   *)
(* old value, which may start a cascade, whose releases may start a        *)
(* collection step, all before the store returns.  The variables rel,      *)
(* drop/todo/draining and gc are that call stack.  One action is one       *)
(* iteration of one of the C loops.  Worklists and buffers are sets: the   *)
(* order of their entries is left open, and popping an entry twice is a    *)
(* no-op in the code because the colour has changed by then.               *)
(***************************************************************************)
EXTENDS Integers, FiniteSets

CONSTANTS
  Obj,           (* addresses the slab allocator hands out                 *)
  Local,         (* owning reference slots of frames, and static fields    *)
  Slot,          (* reference fields of an object                          *)
  NULL,          (* null, and every immortal object: the runtime skips both*)
  SOFT_CAP,      (* ROOTS_SOFT_CAP                                         *)
  COLLECT_BATCH, (* candidate roots one collection step takes              *)
  FREE_BUDGET,   (* drops one top-level release may run                    *)
  FREE_PUMP,     (* drops, and deferred frees, one allocation pays for     *)
  DROP_CAP0,     (* first capacity of dropbuf (256 in the code)            *)
  TRIM_CAP,      (* trim_buf gives back a buffer larger than this          *)
  Collector,     (* FASTLLVM_COLLECTOR: FALSE in a NO_CYCLES build         *)
  Shape          (* <<o, p>>: the declared types let a field of o hold p   *)

ASSUME ConstantsAssumption ==
  /\ IsFiniteSet(Obj) /\ IsFiniteSet(Local) /\ IsFiniteSet(Slot)
  /\ NULL \notin Obj
  /\ Local \cap (Obj \X Slot) = {}
  /\ SOFT_CAP \in Nat \ {0} /\ COLLECT_BATCH \in Nat \ {0}
  /\ FREE_BUDGET \in Nat \ {0} /\ FREE_PUMP \in Nat \ {0}
  /\ DROP_CAP0 \in Nat \ {0} /\ TRIM_CAP \in Nat
  /\ Collector \in BOOLEAN
  /\ Shape \subseteq Obj \X Obj

VARIABLES
  alloc,    (* addresses that hold an object                               *)
  ref,      (* what each cell (local slot or object field) points to       *)
  rc,       (* header: reference counter                                   *)
  color,    (* header: colour                                              *)
  buffered, (* header: the objects whose buffered bit is set               *)
  dropped,  (* ghost: objects whose drop function has been called          *)
  pc,       (* what the program is doing                                   *)
  rel,      (* the reference the running operation still has to release    *)
  draining, (* drain_drops is running                                      *)
  left,     (* drops it may still run, -1 for no bound                     *)
  drop,     (* the object whose drop function is running                   *)
  todo,     (* its fields not yet released                                 *)
  dropbuf,  (* objects at count 0 waiting for their drop                   *)
  dropcap,  (* capacity of dropbuf                                         *)
  roots,    (* candidate roots of garbage cycles                           *)
  gc,       (* phase of the running jrt_collect_step, or "off"             *)
  batch,    (* the tail of roots this step works on                        *)
  pend,     (* its entries the running phase has not reached yet           *)
  cwork, bwork, fwork, (* worklists of the traversals                      *)
  gbuf      (* collected cycle members whose free is deferred              *)

program   == <<ref, pc, rel>>
header    == <<rc, color, buffered>>
cascade   == <<draining, left, drop, todo, dropped>>
dropqueue == <<dropbuf, dropcap>>
traversal == <<batch, pend, cwork, bwork, fwork>>
vars == <<alloc, program, header, cascade, dropqueue, roots, gc, traversal, gbuf>>

Fields(o) == {o} \X Slot
Cell == Local \cup (Obj \X Slot)
Edges(h, o) == Cardinality({c \in Fields(h) : ref[c] = o})

\* What trace(h, visit) reaches: the visitors skip null and immortal objects.
Kids(h) == {k \in Obj : \E c \in Fields(h) : ref[c] = k}

\* The counters after every edge out of h has been visited once.
Visited(h, d) == [o \in Obj |-> rc[o] + d * Edges(h, o)]

\* No runtime function is on the stack.
Idle == rel = NULL /\ ~draining /\ gc = "off"
Running == pc = "run" /\ Idle

Init ==
  /\ alloc = {} /\ ref = [c \in Cell |-> NULL]
  /\ rc = [o \in Obj |-> 0] /\ color = [o \in Obj |-> "BLACK"] /\ buffered = {}
  /\ pc = "run" /\ rel = NULL
  /\ draining = FALSE /\ left = 0 /\ drop = NULL /\ todo = {} /\ dropped = {}
  /\ dropbuf = {} /\ dropcap = 0
  /\ roots = {} /\ gc = "off"
  /\ batch = {} /\ pend = {} /\ cwork = {} /\ bwork = {} /\ fwork = {}
  /\ gbuf = {}

-----------------------------------------------------------------------------
(* jrt_retain, jrt_release, possible_root                                   *)

Retain(x) ==
  IF x = NULL
    THEN UNCHANGED <<rc, color>>
    ELSE /\ rc' = [rc EXCEPT ![x] = @ + 1]
         /\ color' = [color EXCEPT ![x] = "BLACK"]

DropEnq(o) ==
  /\ dropbuf' = dropbuf \cup {o}
  /\ dropcap' = IF Cardinality(dropbuf) # dropcap THEN dropcap
                ELSE IF dropcap = 0 THEN DROP_CAP0 ELSE 2 * dropcap

StartDrain(budget) == draining' = TRUE /\ left' = budget

\* Mutant: a candidate that still has its slot in the buffer keeps its colour.
PossibleRootOnce(o) ==
  /\ color' = IF o \in buffered THEN color ELSE [color EXCEPT ![o] = "PURPLE"]
  /\ buffered' = buffered \cup {o}
  /\ roots' = roots \cup {o}
  /\ gc' = IF o \notin buffered /\ Cardinality(roots') >= SOFT_CAP THEN "pass1" ELSE gc

\* A new candidate may be the one that starts a collection step at once.
PossibleRoot(o) ==
  IF color[o] = "PURPLE"
    THEN UNCHANGED <<color, buffered, roots, gc>>
    ELSE /\ color' = [color EXCEPT ![o] = "PURPLE"]
         /\ buffered' = buffered \cup {o}
         /\ roots' = IF o \in buffered THEN roots ELSE roots \cup {o}
         /\ gc' = IF o \notin buffered /\ Cardinality(roots') >= SOFT_CAP
                    THEN "pass1" ELSE gc

\* The decrement of jrt_release.  The last reference queues the object; while
\* a cascade is running, its re-entrant drain_drops returns at once.
ReleaseLast(o) ==
  /\ rc[o] = 1
  /\ rc' = [rc EXCEPT ![o] = 0]
  /\ DropEnq(o)
  /\ UNCHANGED <<color, buffered, roots, gc>>

ReleaseShared(o) ==
  /\ rc[o] # 1
  /\ rc' = [rc EXCEPT ![o] = @ - 1]
  /\ IF Collector THEN PossibleRoot(o) ELSE UNCHANGED <<color, buffered, roots, gc>>
  /\ UNCHANGED dropqueue

-----------------------------------------------------------------------------
(* The program.  A store retains the new value, reads and overwrites the    *)
(* cell, and then owes the release of the old value.                        *)

Store(c, x) ==
  /\ Running
  /\ Retain(x)
  /\ ref' = [ref EXCEPT ![c] = x]
  /\ rel' = ref[c]
  /\ UNCHANGED <<alloc, pc, buffered, cascade, dropqueue, roots, gc, traversal, gbuf>>

\* Mutant: the value read from a field is borrowed, yet later released.
GetFieldBorrowed(v, w, s) ==
  /\ Running /\ ref[w] # NULL
  /\ ref' = [ref EXCEPT ![v] = ref[<<ref[w], s>>]]
  /\ rel' = ref[v]
  /\ UNCHANGED <<alloc, pc, header, cascade, dropqueue, roots, gc, traversal, gbuf>>

CopyLocal(v, w) == Store(v, ref[w])
GetField(v, w, s) == ref[w] # NULL /\ Store(v, ref[<<ref[w], s>>])
PutField(w, s, v) ==
  /\ ref[w] # NULL
  /\ ref[v] # NULL => <<ref[w], ref[v]>> \in Shape
  /\ Store(<<ref[w], s>>, ref[v])
PutNull(w, s) == ref[w] # NULL /\ Store(<<ref[w], s>>, NULL)
Release(v) == ref[v] # NULL /\ Store(v, NULL)

\* jrt_release of the old value, called by the operation itself.
ReleaseOld ==
  /\ rel # NULL /\ ~draining /\ gc = "off"
  /\ \/ ReleaseLast(rel) /\ StartDrain(FREE_BUDGET)
     \/ ReleaseShared(rel) /\ UNCHANGED <<draining, left>>
  /\ rel' = NULL
  /\ UNCHANGED <<alloc, ref, pc, drop, todo, dropped, traversal, gbuf>>

\* jrt_alloc first pays for a few deferred drops, then for a few deferred
\* frees.  A full heap ends the program (OutOfMemoryError): not modelled.
BeginNew ==
  /\ Running /\ alloc # Obj
  /\ pc' = "new"
  /\ IF dropbuf # {} THEN StartDrain(FREE_PUMP) ELSE UNCHANGED <<draining, left>>
  /\ UNCHANGED <<alloc, ref, rel, header, drop, todo, dropped, dropqueue, roots, gc,
                 traversal, gbuf>>

\* drain_gbuf(n), and drain_gbuf(0) for n = Cardinality(gbuf).
DrainGbuf(n) ==
  \E F \in SUBSET gbuf :
    /\ Cardinality(F) = IF n < Cardinality(gbuf) THEN n ELSE Cardinality(gbuf)
    /\ gbuf' = gbuf \ F
    /\ alloc' = alloc \ F

PumpGbuf ==
  /\ pc = "new" /\ Idle
  /\ pc' = "make"
  /\ DrainGbuf(FREE_PUMP)
  /\ UNCHANGED <<ref, rel, header, cascade, dropqueue, roots, gc, traversal>>

\* The allocation proper: a zeroed object whose creator holds the first
\* reference, which the assignment hands to local v without a retain.
Make(v, o) ==
  /\ pc = "make" /\ Idle /\ o \notin alloc
  /\ pc' = "run"
  /\ alloc' = alloc \cup {o}
  /\ ref' = [c \in Cell |-> IF c = v THEN o ELSE IF c \in Fields(o) THEN NULL ELSE ref[c]]
  /\ rel' = ref[v]
  /\ rc' = [rc EXCEPT ![o] = 1]
  /\ color' = [color EXCEPT ![o] = "BLACK"]
  /\ buffered' = buffered \ {o}
  /\ dropped' = dropped \ {o}
  /\ UNCHANGED <<draining, left, drop, todo, dropqueue, roots, gc, traversal, gbuf>>

-----------------------------------------------------------------------------
(* drain_drops                                                              *)

DrainNext(x) ==
  /\ draining /\ drop = NULL /\ gc = "off"
  /\ x \in dropbuf /\ left # 0
  /\ dropbuf' = dropbuf \ {x}
  /\ drop' = x /\ todo' = Slot
  /\ dropped' = dropped \cup {x}
  /\ left' = IF left > 0 THEN left - 1 ELSE left
  /\ UNCHANGED <<alloc, program, header, draining, dropcap, roots, gc, traversal, gbuf>>

\* run_drop: the drop function releases one field after the other.
DropField(s) ==
  /\ drop # NULL /\ gc = "off" /\ s \in todo
  /\ todo' = todo \ {s}
  /\ LET k == ref[<<drop, s>>] IN
       \/ k = NULL /\ UNCHANGED <<header, roots, gc, dropqueue>>
       \/ k # NULL /\ (ReleaseLast(k) \/ ReleaseShared(k))
  /\ UNCHANGED <<alloc, program, draining, left, drop, dropped, traversal, gbuf>>

\* After the drop: an object that is still in the root buffer is left for
\* pass 1 of a collection step, any other is freed.
DropEnd ==
  /\ drop # NULL /\ gc = "off" /\ todo = {}
  /\ color' = [color EXCEPT ![drop] = "BLACK"]
  /\ alloc' = IF drop \in buffered THEN alloc ELSE alloc \ {drop}
  /\ drop' = NULL
  /\ UNCHANGED <<program, rc, buffered, draining, left, todo, dropped, dropqueue, roots,
                 gc, traversal, gbuf>>

DrainDone ==
  /\ draining /\ drop = NULL /\ gc = "off"
  /\ dropbuf = {} \/ left = 0
  /\ draining' = FALSE /\ left' = 0
  /\ UNCHANGED <<alloc, program, header, drop, todo, dropped, dropqueue, roots, gc,
                 traversal, gbuf>>

-----------------------------------------------------------------------------
(* jrt_collect_step                                                         *)

\* Mutant: a buffer that is smaller than a batch is not worked on.
Pass1FullBatches ==
  LET dead == {h \in roots : color[h] = "BLACK" /\ rc[h] = 0} IN
  /\ gc = "pass1"
  /\ alloc' = alloc \ dead
  /\ buffered' = buffered \ dead
  /\ roots' = roots \ dead
  /\ batch' \in {B \in SUBSET roots' : Cardinality(roots) > COLLECT_BATCH
                                        /\ Cardinality(B) <= COLLECT_BATCH}
  /\ pend' = batch'
  /\ gc' = "mark"
  /\ UNCHANGED <<program, rc, color, cascade, dropqueue, cwork, bwork, fwork, gbuf>>

\* Pass 1 frees the objects that died while they were buffered; the tail of
\* the buffer (positions, so some of them empty by now) becomes the batch.
Pass1 ==
  LET dead == {h \in roots : color[h] = "BLACK" /\ rc[h] = 0}
      head == Cardinality(roots) - COLLECT_BATCH
  IN
  /\ gc = "pass1"
  /\ alloc' = alloc \ dead
  /\ buffered' = buffered \ dead
  /\ roots' = roots \ dead
  /\ batch' \in {B \in SUBSET roots' :
                   /\ Cardinality(B) <= COLLECT_BATCH
                   /\ Cardinality(roots' \ B) <= IF head > 0 THEN head ELSE 0}
  /\ pend' = batch'
  /\ gc' = "mark"
  /\ UNCHANGED <<program, rc, color, cascade, dropqueue, cwork, bwork, fwork, gbuf>>

\* Take the next batch entry; the phase's traversal starts from it if it has
\* the colour (and, for marking, the count) the phase looks for.
Visit(phase, h, wanted) ==
  /\ gc = phase /\ cwork = {} /\ bwork = {} /\ h \in pend
  /\ pend' = pend \ {h}
  /\ cwork' = IF wanted THEN {h} ELSE {}
  /\ UNCHANGED <<alloc, program, header, cascade, dropqueue, roots, gc, batch, bwork,
                 fwork, gbuf>>

MarkRoot(h) == Visit("mark", h, color[h] = "PURPLE" /\ rc[h] > 0)
ScanRoot(h) == Visit("scan", h, color[h] = "GRAY")
CollectRoot(h) == Visit("collect", h, color[h] = "WHITE")

\* Mutant: an edge back to the node itself is not trial-deleted.
MarkGrayNoSelf(h) ==
  /\ gc = "mark" /\ h \in cwork
  /\ IF color[h] = "GRAY"
       THEN cwork' = cwork \ {h} /\ UNCHANGED <<rc, color>>
       ELSE /\ color' = [color EXCEPT ![h] = "GRAY"]
            /\ rc' = [Visited(h, -1) EXCEPT ![h] = rc[h]]
            /\ cwork' = (cwork \ {h}) \cup Kids(h)
  /\ UNCHANGED <<alloc, program, buffered, cascade, dropqueue, roots, gc, batch, pend,
                 bwork, fwork, gbuf>>

\* One iteration of mark_gray: trial deletion of every edge out of h.
MarkGray(h) ==
  /\ gc = "mark" /\ h \in cwork
  /\ IF color[h] = "GRAY"
       THEN cwork' = cwork \ {h} /\ UNCHANGED <<rc, color>>
       ELSE /\ color' = [color EXCEPT ![h] = "GRAY"]
            /\ rc' = Visited(h, -1)
            /\ cwork' = (cwork \ {h}) \cup Kids(h)
  /\ UNCHANGED <<alloc, program, buffered, cascade, dropqueue, roots, gc, batch, pend,
                 bwork, fwork, gbuf>>

\* Mutant: every gray node turns white, whatever its counter.
ScanAllWhite(h) ==
  /\ gc = "scan" /\ bwork = {} /\ h \in cwork
  /\ IF color[h] = "GRAY"
       THEN /\ color' = [color EXCEPT ![h] = "WHITE"]
            /\ cwork' = (cwork \ {h}) \cup Kids(h)
       ELSE cwork' = cwork \ {h} /\ UNCHANGED color
  /\ UNCHANGED <<alloc, program, rc, buffered, cascade, dropqueue, roots, gc, batch,
                 pend, bwork, fwork, gbuf>>

\* One iteration of scan: a gray node with references left is restored by
\* scan_black, which drains its own worklist first; one without turns white.
Scan(h) ==
  /\ gc = "scan" /\ bwork = {} /\ h \in cwork
  /\ \/ /\ color[h] # "GRAY"
        /\ cwork' = cwork \ {h}
        /\ UNCHANGED <<color, bwork>>
     \/ /\ color[h] = "GRAY" /\ rc[h] > 0
        /\ cwork' = cwork \ {h} /\ bwork' = {h}
        /\ UNCHANGED color
     \/ /\ color[h] = "GRAY" /\ rc[h] <= 0
        /\ color' = [color EXCEPT ![h] = "WHITE"]
        /\ cwork' = (cwork \ {h}) \cup Kids(h)
        /\ UNCHANGED bwork
  /\ UNCHANGED <<alloc, program, rc, buffered, cascade, dropqueue, roots, gc, batch,
                 pend, fwork, gbuf>>

\* Mutant: the children get their count back but are not visited.
ScanBlackShallow(h) ==
  /\ gc = "scan" /\ h \in bwork
  /\ color' = [color EXCEPT ![h] = "BLACK"]
  /\ rc' = IF color[h] = "BLACK" THEN rc ELSE Visited(h, 1)
  /\ bwork' = bwork \ {h}
  /\ UNCHANGED <<alloc, program, buffered, cascade, dropqueue, roots, gc, batch, pend,
                 cwork, fwork, gbuf>>

\* One iteration of scan_black: the edges out of h count again.
ScanBlack(h) ==
  /\ gc = "scan" /\ h \in bwork
  /\ IF color[h] = "BLACK"
       THEN bwork' = bwork \ {h} /\ UNCHANGED <<rc, color>>
       ELSE /\ color' = [color EXCEPT ![h] = "BLACK"]
            /\ rc' = Visited(h, 1)
            /\ bwork' = (bwork \ {h}) \cup Kids(h)
  /\ UNCHANGED <<alloc, program, buffered, cascade, dropqueue, roots, gc, batch, pend,
                 cwork, fwork, gbuf>>

\* Mutant: a collected node stays white.
CollectWhiteUncolored(h) ==
  /\ gc = "collect" /\ h \in cwork
  /\ IF color[h] = "WHITE"
       THEN fwork' = fwork \cup {h} /\ cwork' = (cwork \ {h}) \cup Kids(h)
       ELSE cwork' = cwork \ {h} /\ UNCHANGED fwork
  /\ UNCHANGED <<alloc, program, header, cascade, dropqueue, roots, gc, batch, pend,
                 bwork, gbuf>>

\* One iteration of collect_white: the node is claimed, its free comes later.
CollectWhite(h) ==
  /\ gc = "collect" /\ h \in cwork
  /\ IF color[h] = "WHITE"
       THEN /\ color' = [color EXCEPT ![h] = "BLACK"]
            /\ fwork' = fwork \cup {h}
            /\ cwork' = (cwork \ {h}) \cup Kids(h)
       ELSE cwork' = cwork \ {h} /\ UNCHANGED <<color, fwork>>
  /\ UNCHANGED <<alloc, program, rc, buffered, cascade, dropqueue, roots, gc, batch,
                 pend, bwork, gbuf>>

\* The loops over the batch follow one another.
NextPass(from, to) ==
  /\ gc = from /\ pend = {} /\ cwork = {} /\ bwork = {}
  /\ gc' = to /\ pend' = batch
  /\ UNCHANGED <<alloc, program, header, cascade, dropqueue, roots, batch, cwork, bwork,
                 fwork, gbuf>>

\* Mutant: the whole buffer is emptied, not only the batch.
KeptNone == {}

\* Mutant: a batch member that turned out to be live stays a candidate.
KeptLive == {h \in roots : h \in buffered /\ rc[h] > 0}

\* What compaction leaves in the buffer: the live purple candidates.
Kept == {h \in roots : h \in buffered /\ color[h] = "PURPLE" /\ rc[h] > 0}

\* Mutant: a candidate that loses its slot keeps its buffered bit.
UnbufferNone(kept) == buffered
Unbuffer(kept) == buffered \ (roots \ kept)

\* Compaction keeps the live purple candidates; the collected members move to
\* gbuf, of which a bounded number is freed now; collector_trim gives back a
\* dropbuf that has grown large, with whatever is still queued in it.
Compact ==
  LET garbage == gbuf \cup fwork IN
  /\ gc = "collect" /\ pend = {} /\ cwork = {}
  /\ buffered' = Unbuffer(Kept)
  /\ roots' = Kept
  /\ \E F \in SUBSET garbage :
       /\ Cardinality(F) = IF FREE_BUDGET < Cardinality(garbage)
                             THEN FREE_BUDGET ELSE Cardinality(garbage)
       /\ gbuf' = garbage \ F
       /\ alloc' = alloc \ F
  /\ fwork' = {} /\ batch' = {}
  /\ IF dropcap > TRIM_CAP THEN dropbuf' = {} /\ dropcap' = 0 ELSE UNCHANGED dropqueue
  /\ gc' = "off"
  /\ UNCHANGED <<program, rc, color, cascade, pend, cwork, bwork>>

CollectStep ==
  \/ Pass1 \/ NextPass("mark", "scan") \/ NextPass("scan", "collect") \/ Compact
  \/ \E h \in pend : MarkRoot(h) \/ ScanRoot(h) \/ CollectRoot(h)
  \/ \E h \in cwork : MarkGray(h) \/ Scan(h) \/ CollectWhite(h)
  \/ \E h \in bwork : ScanBlack(h)

-----------------------------------------------------------------------------
(* jrt_shutdown, after main has released the static fields                  *)

Exit ==
  /\ Running /\ \A v \in Local : ref[v] = NULL
  /\ pc' = "exit"
  /\ StartDrain(-1)
  /\ UNCHANGED <<alloc, ref, rel, header, drop, todo, dropped, dropqueue, roots, gc,
                 traversal, gbuf>>

\* jrt_collect_cycles steps until the buffer is empty.
CollectCycles ==
  /\ pc = "exit" /\ Idle /\ roots # {}
  /\ gc' = "pass1"
  /\ UNCHANGED <<alloc, program, header, cascade, dropqueue, roots, traversal, gbuf>>

\* Mutant: the last flush of gbuf is bounded like every other.
FlushSome ==
  /\ pc = "exit" /\ Idle /\ roots = {}
  /\ pc' = "flush"
  /\ DrainGbuf(FREE_BUDGET)
  /\ StartDrain(-1)
  /\ UNCHANGED <<ref, rel, header, drop, todo, dropped, dropqueue, roots, gc, traversal>>

Flush ==
  /\ pc = "exit" /\ Idle /\ roots = {}
  /\ pc' = "flush"
  /\ DrainGbuf(Cardinality(gbuf))
  /\ StartDrain(-1)
  /\ UNCHANGED <<ref, rel, header, drop, todo, dropped, dropqueue, roots, gc, traversal>>

Done ==
  /\ pc = "flush" /\ Idle
  /\ pc' = "done"
  /\ UNCHANGED <<alloc, ref, rel, header, cascade, dropqueue, roots, gc, traversal, gbuf>>

-----------------------------------------------------------------------------
Mutate ==
  \/ \E v, w \in Local : CopyLocal(v, w)
  \/ \E v, w \in Local, s \in Slot : GetField(v, w, s) \/ PutField(w, s, v)
  \/ \E w \in Local, s \in Slot : PutNull(w, s)
  \/ \E v \in Local : Release(v)
  \/ BeginNew
  \/ Exit

Runtime ==
  \/ ReleaseOld
  \/ PumpGbuf
  \/ \E v \in Local, o \in Obj : Make(v, o)
  \/ \E x \in dropbuf : DrainNext(x)
  \/ \E s \in todo : DropField(s)
  \/ DropEnd \/ DrainDone
  \/ CollectStep
  \/ CollectCycles \/ Flush \/ Done

Next == Mutate \/ Runtime

Spec == Init /\ [][Next]_vars

\* The runtime's functions run to completion: they are loops of one thread
\* that wait for nothing.  Nothing is assumed of the program above them.
FairSpec == Spec /\ WF_vars(Runtime)

-----------------------------------------------------------------------------
(* Properties                                                               *)

\* The types.  The one that could fail is rc: a counter released or trial-deleted once
\* too often wraps below zero, and the runtime takes a negative one for immortal.
TypeOK ==
  /\ alloc \subseteq Obj /\ ref \in [Cell -> Obj \cup {NULL}]
  /\ rc \in [Obj -> Nat]
  /\ color \in [Obj -> {"BLACK", "GRAY", "WHITE", "PURPLE"}]
  /\ buffered \subseteq Obj /\ dropped \subseteq Obj
  /\ pc \in {"run", "new", "make", "exit", "flush", "done"}
  /\ rel \in Obj \cup {NULL} /\ drop \in Obj \cup {NULL}
  /\ draining \in BOOLEAN /\ left \in Int /\ todo \subseteq Slot
  /\ dropbuf \subseteq Obj /\ dropcap \in Nat
  /\ roots \subseteq Obj /\ gbuf \subseteq Obj
  /\ gc \in {"off", "pass1", "mark", "scan", "collect"}
  /\ batch \subseteq Obj /\ pend \subseteq Obj
  /\ cwork \subseteq Obj /\ bwork \subseteq Obj /\ fwork \subseteq Obj

\* Objects that still hold references to others: their drop has not begun and
\* the collector has not claimed them.
Held == alloc \ (dropped \cup fwork \cup gbuf)

\* The cells that own a reference: the program's slots, the fields of held
\* objects, and the fields the running drop has yet to release.
DropCells == {c \in Obj \X Slot : drop # NULL /\ c[1] = drop /\ c[2] \in todo}
Owned == Local \cup (Held \X Slot) \cup DropCells

\* Trial deletion takes the fields of gray and white objects out of the count.
Counted == {c \in Owned : c \in Held \X Slot => color[c[1]] \in {"BLACK", "PURPLE"}}

Refs(o) == {c \in Counted : ref[c] = o}

\* Every counter equals the number of cells that count towards it, plus the one
\* reference the running operation has taken out of a cell and not yet released.
\* It holds between any two loop iterations of the runtime, trial deletion included.
RcExact ==
  \A o \in Held : rc[o] = Cardinality(Refs(o)) + (IF rel = o THEN 1 ELSE 0)

\* No cell that counts, and no reference still to be released, points to an object
\* that has been freed, whose drop has begun, or that the collector has claimed.
NoDangling ==
  /\ \A c \in Counted : ref[c] \in Held \cup {NULL}
  /\ rel \in Held \cup {NULL}

\* Between collection steps no object carries a colour of trial deletion
\* ("leaves the graph consistent between steps: every object BLACK or PURPLE").
ConsistentBetweenSteps ==
  gc = "off" => \A o \in alloc : color[o] \in {"BLACK", "PURPLE"}

\* The buffered bit says exactly whether the object has a slot in the root buffer, and
\* only allocated objects do: a stale or second slot would be freed twice by pass 1.
BufferedBitMatchesRoots == buffered = roots /\ roots \subseteq alloc

\* The root buffer stays below the soft cap between steps: the step a full buffer starts
\* makes room, so that collector_trim never meets a root buffer grown past its limit,
\* whose candidates it would throw away.
RootBufferBounded == gc = "off" => Cardinality(roots) < SOFT_CAP

\* A queued object is at count 0 and nothing the program or a held object owns points
\* to it, so that its drop may be deferred ("deferring their free is invisible").
QueuedAreUnreachable ==
  \A x \in dropbuf : x \in Held /\ rc[x] = 0 /\ \A c \in Owned : ref[c] # x

\* No garbage is forgotten: whenever the program runs, every held object is reachable
\* from the program, from a candidate root or from a queued drop, and a dropped object
\* that is still allocated sits, black at count 0, in the buffer that pass 1 sweeps.
NoForgottenGarbage ==
  Running =>
    /\ \A S \in SUBSET Held :
         /\ \A v \in Local : ref[v] \in S \cup {NULL}
         /\ (roots \cap Held) \cup dropbuf \subseteq S
         /\ \A c \in S \X Slot : ref[c] \in S \cup {NULL}
         => S = Held
    /\ \A o \in alloc \cap dropped : o \in roots /\ color[o] = "BLACK" /\ rc[o] = 0

\* At exit nothing is left ("live_objects must be 0 at the end (even with cycles").
ZeroLiveAtExit == pc = "done" => alloc = {}

Heap == INSTANCE ManagedHeap WITH objs <- alloc

\* The runtime keeps the promise of ManagedHeap: free_obj, wherever it is called from,
\* only ever takes objects the program can no longer reach.
ImplementsManagedHeap == Heap!Spec

\* How far the runtime is from returning to the program, in descending order of weight:
\* the part of an allocation or of the shutdown; the objects that can still be dropped or
\* collected; the release that is owed; the calls on the stack; the candidates that the
\* collection step has to look at; its phase; what the phase has not looked at.
Stage == CASE pc = "exit" -> 3 [] pc \in {"flush", "new"} -> 2 [] pc = "make" -> 1 [] OTHER -> 0
Owing == IF rel = NULL THEN 0 ELSE 1
Calls == Cardinality(todo) + (IF drop = NULL THEN 0 ELSE 1) + (IF draining THEN 1 ELSE 0)
Candidates == Cardinality(IF gc \in {"off", "pass1"} THEN roots ELSE roots \ batch)
Phase == CASE gc = "pass1" -> 0 [] gc = "off" -> 1 [] gc = "collect" -> 2
           [] gc = "scan" -> 3 [] gc = "mark" -> 4
Toil == CASE gc = "mark" -> Cardinality({o \in Obj : color[o] # "GRAY"})
          [] gc = "scan" -> Cardinality({o \in Obj : color[o] # "BLACK"})
                              + Cardinality({o \in Obj : color[o] = "GRAY"})
          [] OTHER -> 0
Worklists == 2 * Cardinality(cwork) + Cardinality(bwork)
Remaining ==
  <<Stage, Cardinality(Held), Owing, Calls, Candidates, Phase, Cardinality(pend), Toil, Worklists>>

\* Lexicographic order.
Less(a, b) == \E i \in DOMAIN a : a[i] < b[i] /\ \A j \in 1 .. i - 1 : a[j] = b[j]

\* No function of the runtime runs for ever: each of its steps comes closer to the return,
\* although a release can start a cascade, a cascade a collection step, and a collection
\* step leaves candidates for the next.
RuntimeProgresses == [][~Running => Less(Remaining', Remaining)]_vars

\* Shutdown ends: every collection step shrinks the root buffer it loops over.
ShutdownCompletes == pc = "exit" ~> pc = "done"

\* Every store and every allocation returns to the program, with all the cascades and
\* collection steps it starts.
OperationsReturn == []<>(pc = "done" \/ Running)

=============================================================================
