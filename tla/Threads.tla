------------------------------ MODULE Threads ------------------------------
(***************************************************************************)
(* The threaded build (--threads, FASTLLVM_THREADS): Java threads over     *)
(* pthreads, one recursive monitor for the whole program, atomic reference *)
(* counters and no cycle collector.  A store is not atomic: the emitted    *)
(* code retains the new value, loads the old one, overwrites the cell and  *)
(* releases the old value, and a release that reaches zero runs the drop   *)
(* function recursively on the stack of the thread.  Each of these is a    *)
(* step of its own here, and those of different threads interleave.  Every *)
(* loaded reference is retained: the retains that borrow_slots leaves out  *)
(* of a single thread's code, in threaded builds too, are not modelled.    *)
(***************************************************************************)
EXTENDS Integers, FiniteSets, Sequences

CONSTANTS
  Obj,         (* addresses                                                *)
  Static,      (* static reference fields                                  *)
  Slot,        (* reference fields of an object                            *)
  Main, Worker,(* the main thread, and the others                          *)
  NULL,
  Shape,       (* <<o, p>>: the declared types let a field of o hold p     *)
  MAX_NESTING, (* bound: synchronized regions a thread may be inside       *)
  Locked,      (* the program accesses shared cells in synchronized blocks *)
  SyncMethods  (* the program calls synchronized methods                   *)

Thread == {Main} \cup Worker

ASSUME ThreadsAssumption ==
  /\ IsFiniteSet(Obj) /\ IsFiniteSet(Static) /\ IsFiniteSet(Slot) /\ IsFiniteSet(Worker)
  /\ NULL \notin Obj \cup Thread /\ Main \notin Worker
  /\ Static \cap (Obj \X Slot) = {} /\ Static \cap Thread = {}
  /\ Thread \cap (Obj \X Slot) = {}
  /\ ({"run"} \X Worker) \cap (Thread \cup Static \cup (Obj \X Slot)) = {}
  /\ Shape \subseteq Obj \X Obj /\ MAX_NESTING \in Nat
  /\ Locked \in BOOLEAN /\ SyncMethods \in BOOLEAN

VARIABLES
  alloc, ref, rc,
  pc,      (* per thread: the next step of its running operation           *)
  val,     (* the value the operation stores                               *)
  dst,     (* the cell it stores it in                                     *)
  old,     (* the value it overwrites                                      *)
  frames,  (* per thread: the drop functions on its stack                  *)
  run,     (* worker -> the Runnable it holds a reference to               *)
  status,  (* worker -> "new", "running", "ending", "done" or "joined"     *)
  owner, depth, (* the recursive mutex g_monitor                           *)
  regions  (* per thread: the synchronized regions it is inside            *)

memory == <<alloc, ref, rc>>
operation == <<pc, val, dst, old, frames>>
pthreads == <<run, status>>
monitor == <<owner, depth, regions>>
vars == <<memory, operation, pthreads, monitor>>

\* Every thread has one owning reference slot, named after the thread.
Shared == Static \cup (Obj \X Slot)
Cell == Thread \cup Shared
Fields(o) == {o} \X Slot

Init ==
  /\ alloc = {} /\ ref = [c \in Cell |-> NULL] /\ rc = [o \in Obj |-> 0]
  /\ pc = [t \in Thread |-> IF t = Main THEN "idle" ELSE "none"]
  /\ val = [t \in Thread |-> NULL] /\ old = [t \in Thread |-> NULL]
  /\ dst = [t \in Thread |-> t]
  /\ frames = [t \in Thread |-> <<>>]
  /\ run = [w \in Worker |-> NULL] /\ status = [w \in Worker |-> "new"]
  /\ owner = NULL /\ depth = 0 /\ regions = [t \in Thread |-> <<>>]

-----------------------------------------------------------------------------
(* jrt_monitor_enter and jrt_monitor_exit.  A synchronized method is called *)
(* like any other: no part of the compiler reads ACC_SYNCHRONIZED.          *)

EnterBlock(t) ==
  /\ pc[t] = "idle" /\ Len(regions[t]) < MAX_NESTING
  /\ owner \in {NULL, t}
  /\ owner' = t /\ depth' = depth + 1
  /\ regions' = [regions EXCEPT ![t] = Append(@, "block")]
  /\ UNCHANGED <<memory, operation, pthreads>>

CallSyncMethod(t) ==
  /\ SyncMethods
  /\ pc[t] = "idle" /\ Len(regions[t]) < MAX_NESTING
  /\ regions' = [regions EXCEPT ![t] = Append(@, "method")]
  /\ UNCHANGED <<memory, operation, pthreads, owner, depth>>

\* Mutant: the mutex is not recursive, the first exit unlocks it.
LeaveUnlocks(t) ==
  /\ pc[t] = "idle" /\ regions[t] # <<>>
  /\ regions' = [regions EXCEPT ![t] = SubSeq(@, 1, Len(@) - 1)]
  /\ depth' = 0 /\ owner' = NULL
  /\ UNCHANGED <<memory, operation, pthreads>>

Leave(t) ==
  /\ pc[t] = "idle" /\ regions[t] # <<>>
  /\ regions' = [regions EXCEPT ![t] = SubSeq(@, 1, Len(@) - 1)]
  /\ IF regions[t][Len(regions[t])] = "block"
       THEN /\ depth' = depth - 1
            /\ owner' = IF depth = 1 THEN NULL ELSE owner
       ELSE UNCHANGED <<owner, depth>>
  /\ UNCHANGED <<memory, operation, pthreads>>

-----------------------------------------------------------------------------
(* The operations of a thread: each begins with the value and the cell of a *)
(* store and goes through its steps one at a time.                          *)

Begin(t, c, x, first) ==
  /\ pc[t] = "idle"
  /\ pc' = [pc EXCEPT ![t] = first]
  /\ dst' = [dst EXCEPT ![t] = c]
  /\ val' = [val EXCEPT ![t] = x]
  /\ UNCHANGED <<old, frames, pthreads, monitor>>

\* The shared cells a thread can name: the statics, and the fields of the objects its
\* own slot and its Runnable refer to.
Nameable(t) ==
  Static \cup (UNION {Fields(o) : o \in {ref[t]} \cap Obj})
         \cup (IF t \in Worker /\ run[t] # NULL THEN Fields(run[t]) ELSE {})

MayAccess(t) == Locked => owner = t

Load(t, c) ==
  /\ MayAccess(t) /\ c \in Nameable(t)
  /\ Begin(t, t, ref[c], "retain")
  /\ UNCHANGED memory

Store(t, c) ==
  /\ MayAccess(t) /\ c \in Nameable(t)
  /\ c \in Obj \X Slot /\ ref[t] # NULL => <<c[1], ref[t]>> \in Shape
  /\ Begin(t, c, ref[t], "retain")
  /\ UNCHANGED memory

StoreNull(t, c) ==
  /\ c = t \/ (MayAccess(t) /\ c \in Nameable(t))
  /\ Begin(t, c, NULL, "retain")
  /\ UNCHANGED memory

\* jrt_alloc, its slab under g_slab_lock: a zeroed object whose +1 is handed over.
New(t, o) ==
  /\ o \notin alloc
  /\ Begin(t, t, o, "load")
  /\ alloc' = alloc \cup {o}
  /\ rc' = [rc EXCEPT ![o] = 1]
  /\ ref' = [c \in Cell |-> IF c \in Fields(o) THEN NULL ELSE ref[c]]

Goto(t, label) == pc' = [pc EXCEPT ![t] = label]

\* Mutant: the copy of a shared reference is borrowed.
RetainNothing(t) ==
  /\ pc[t] = "retain" /\ Goto(t, "load")
  /\ UNCHANGED <<memory, val, dst, old, frames, pthreads, monitor>>

Retain(t) ==
  /\ pc[t] = "retain" /\ Goto(t, "load")
  /\ rc' = IF val[t] = NULL THEN rc ELSE [rc EXCEPT ![val[t]] = @ + 1]
  /\ UNCHANGED <<alloc, ref, val, dst, old, frames, pthreads, monitor>>

LoadOld(t) ==
  /\ pc[t] = "load" /\ Goto(t, "write")
  /\ old' = [old EXCEPT ![t] = ref[dst[t]]]
  /\ UNCHANGED <<memory, val, dst, frames, pthreads, monitor>>

Write(t) ==
  /\ pc[t] = "write" /\ Goto(t, "release")
  /\ ref' = [ref EXCEPT ![dst[t]] = val[t]]
  /\ val' = [val EXCEPT ![t] = NULL]
  /\ UNCHANGED <<alloc, rc, dst, old, frames, pthreads, monitor>>

\* Where a thread goes on when its operation is over.
Resume(t) == IF t \in Worker /\ status[t] = "ending" THEN "finish" ELSE "idle"

\* Mutant: the decrement is a load and a store, and another thread's may be lost.
ReleaseLost(t, x, rest) ==
  IF x = NULL
    THEN frames' = [frames EXCEPT ![t] = rest] /\ UNCHANGED rc
    ELSE /\ frames' = [frames EXCEPT ![t] = IF rc[x] = 1 THEN Append(rest, <<x, Slot>>) ELSE rest]
         /\ rc' \in {rc, [rc EXCEPT ![x] = @ - 1]}

\* jrt_release(x) by t: the atomic decrement that reaches zero calls the drop
\* function, a new frame on the stack; rest is the stack below.
ReleaseAtomic(t, x, rest) ==
  IF x = NULL
    THEN frames' = [frames EXCEPT ![t] = rest] /\ UNCHANGED rc
    ELSE /\ rc' = [rc EXCEPT ![x] = @ - 1]
         /\ frames' = [frames EXCEPT ![t] = IF rc[x] = 1 THEN Append(rest, <<x, Slot>>) ELSE rest]

ReleaseOld(t) ==
  /\ pc[t] = "release"
  /\ ReleaseAtomic(t, old[t], <<>>)
  /\ old' = [old EXCEPT ![t] = NULL]
  /\ Goto(t, IF frames'[t] = <<>> THEN Resume(t) ELSE "drop")
  /\ UNCHANGED <<alloc, ref, val, dst, pthreads, monitor>>

Top(t) == frames[t][Len(frames[t])]
Below(t) == SubSeq(frames[t], 1, Len(frames[t]) - 1)

\* The drop function on top of the stack releases one more field.
DropField(t, s) ==
  /\ pc[t] = "drop" /\ s \in Top(t)[2]
  /\ ReleaseAtomic(t, ref[<<Top(t)[1], s>>], Append(Below(t), <<Top(t)[1], Top(t)[2] \ {s}>>))
  /\ UNCHANGED <<alloc, ref, pc, val, dst, old, pthreads, monitor>>

\* It returns, and jrt_release frees the object.
DropEnd(t) ==
  /\ pc[t] = "drop" /\ Top(t)[2] = {}
  /\ alloc' = alloc \ {Top(t)[1]}
  /\ frames' = [frames EXCEPT ![t] = Below(t)]
  /\ Goto(t, IF Below(t) = <<>> THEN Resume(t) ELSE "drop")
  /\ UNCHANGED <<ref, rc, val, dst, old, pthreads, monitor>>

-----------------------------------------------------------------------------
(* jrt_thread_start, thread_tramp, jrt_thread_join                          *)

\* Mutant: the thread borrows its Runnable.
StartBorrowed(w) ==
  /\ pc[Main] = "idle" /\ status[w] = "new" /\ ref[Main] # NULL
  /\ run' = [run EXCEPT ![w] = ref[Main]]
  /\ status' = [status EXCEPT ![w] = "running"]
  /\ Goto(w, "idle")
  /\ UNCHANGED <<memory, val, dst, old, frames, monitor>>

\* The Runnable is retained before the thread exists and released by the thread.
Start(w) ==
  /\ pc[Main] = "idle" /\ status[w] = "new" /\ ref[Main] # NULL
  /\ rc' = [rc EXCEPT ![ref[Main]] = @ + 1]
  /\ run' = [run EXCEPT ![w] = ref[Main]]
  /\ status' = [status EXCEPT ![w] = "running"]
  /\ Goto(w, "idle")
  /\ UNCHANGED <<alloc, ref, val, dst, old, frames, monitor>>

\* run() has returned, its locals released: the thread drops its reference.
EndRun(w) ==
  /\ pc[w] = "idle" /\ status[w] = "running" /\ ref[w] = NULL /\ regions[w] = <<>>
  /\ status' = [status EXCEPT ![w] = "ending"]
  /\ old' = [old EXCEPT ![w] = run[w]]
  /\ run' = [run EXCEPT ![w] = NULL]
  /\ Goto(w, "release")
  /\ UNCHANGED <<memory, val, dst, frames, monitor>>

Finish(w) ==
  /\ pc[w] = "finish"
  /\ status' = [status EXCEPT ![w] = "done"]
  /\ Goto(w, "none")
  /\ UNCHANGED <<memory, val, dst, old, frames, run, monitor>>

\* Mutant: the join does not wait.
JoinEarly(w) ==
  /\ pc[Main] = "idle" /\ status[w] \in {"running", "ending", "done"}
  /\ status' = [status EXCEPT ![w] = "joined"]
  /\ UNCHANGED <<memory, operation, run, monitor>>

\* Blocks until the thread is done.  Main joins a thread at most once: pthread_join of
\* a joined thread is undefined.
Join(w) ==
  /\ pc[Main] = "idle" /\ status[w] = "done"
  /\ status' = [status EXCEPT ![w] = "joined"]
  /\ UNCHANGED <<memory, operation, run, monitor>>

\* main returns after joining what it started; the entry point releases the statics.
Return ==
  /\ pc[Main] = "idle" /\ ref[Main] = NULL /\ regions[Main] = <<>>
  /\ \A w \in Worker : status[w] \in {"new", "joined"}
  /\ IF \A s \in Static : ref[s] = NULL
       THEN Goto(Main, "exit") /\ UNCHANGED <<ref, old>>
       ELSE \E s \in Static :
              /\ ref[s] # NULL /\ Goto(Main, "release")
              /\ old' = [old EXCEPT ![Main] = ref[s]]
              /\ ref' = [ref EXCEPT ![s] = NULL]
  /\ UNCHANGED <<alloc, rc, val, dst, frames, pthreads, monitor>>

-----------------------------------------------------------------------------
Program(t) ==
  \/ EnterBlock(t) \/ CallSyncMethod(t) \/ Leave(t)
  \/ \E c \in Shared : Load(t, c) \/ Store(t, c)
  \/ \E c \in Cell : StoreNull(t, c)
  \/ \E o \in Obj : New(t, o)

Step(t) ==
  \/ Retain(t) \/ LoadOld(t) \/ Write(t) \/ ReleaseOld(t)
  \/ \E s \in Slot : DropField(t, s)
  \/ DropEnd(t)

Next ==
  \/ \E t \in Thread : Program(t) \/ Step(t)
  \/ \E w \in Worker : Start(w) \/ EndRun(w) \/ Finish(w) \/ Join(w)
  \/ Return

Spec == Init /\ [][Next]_vars

-----------------------------------------------------------------------------
(* Properties                                                               *)

TypeOK ==
  /\ alloc \subseteq Obj /\ ref \in [Cell -> Obj \cup {NULL}] /\ rc \in [Obj -> Nat]
  /\ pc \in [Thread -> {"none", "idle", "retain", "load", "write", "release", "drop",
                        "finish", "exit"}]
  /\ val \in [Thread -> Obj \cup {NULL}] /\ old \in [Thread -> Obj \cup {NULL}]
  /\ dst \in [Thread -> Cell]
  /\ frames \in [Thread -> Seq(Obj \X SUBSET Slot)]
  /\ run \in [Worker -> Obj \cup {NULL}]
  /\ status \in [Worker -> {"new", "running", "ending", "done", "joined"}]
  /\ owner \in Thread \cup {NULL} /\ depth \in Nat
  /\ regions \in [Thread -> Seq({"block", "method"})]

\* Fields that a drop function of some thread has already released, or will release.
FramesOf(o) == {f \in Thread \X (1 .. Cardinality(Obj)) :
                  f[2] \in DOMAIN frames[f[1]] /\ frames[f[1]][f[2]][1] = o}
Dropping == {o \in Obj : FramesOf(o) # {}}
StillToDrop(o) == UNION {{o} \X frames[f[1]][f[2]][2] : f \in FramesOf(o)}

Owners(o) ==
  {c \in Thread \cup Static : ref[c] = o}
    \cup {c \in (alloc \ Dropping) \X Slot : ref[c] = o}
    \cup {c \in UNION {StillToDrop(p) : p \in Dropping} : ref[c] = o}

\* References that threads hold between the steps of their operations.
InFlight(o) ==
  {<<t, "val">> : t \in {u \in Thread : val[u] = o /\ pc[u] \in {"load", "write"}}}
    \cup {<<t, "old">> : t \in {u \in Thread : old[u] = o /\ pc[u] = "release"}}
    \cup {<<w, "run">> : w \in {u \in Worker : run[u] = o}}

\* In every interleaving of the threads' steps each counter equals the number of cells
\* that own the object plus the references under way between two steps of a thread.
RcExactThreads ==
  \A o \in alloc \ Dropping : rc[o] = Cardinality(Owners(o)) + Cardinality(InFlight(o))

\* "shared refcounted state crossing threads is safe": no thread is about to count, to
\* overwrite or to read through an object that has been freed or is being dropped.
AccessesAreLive ==
  \A t \in Thread :
    /\ pc[t] = "retain" => val[t] \in (alloc \ Dropping) \cup {NULL}
    /\ pc[t] = "release" => old[t] \in (alloc \ Dropping) \cup {NULL}
    /\ pc[t] \in {"load", "write"} /\ dst[t] \in Obj \X Slot => dst[t][1] \in alloc \ Dropping
    /\ \A i \in DOMAIN frames[t] :
         /\ frames[t][i][1] \in alloc
         /\ \A s \in frames[t][i][2] :
              ref[<<frames[t][i][1], s>>] \in (alloc \ Dropping) \cup {NULL}

\* No two threads are inside synchronized blocks at once, however they nest.
BlocksExclude ==
  \A t, u \in Thread : t # u =>
    ~ \E i \in DOMAIN regions[t], j \in DOMAIN regions[u] :
        regions[t][i] = "block" /\ regions[u][j] = "block"

\* Nor inside a synchronized method while another is in such a block or method.
SynchronizedExcludes ==
  \A t, u \in Thread : t # u => regions[t] = <<>> \/ regions[u] = <<>>

\* A program without cycles that has joined its threads leaves an empty heap, and none
\* of its threads still runs.
ZeroLiveAfterJoin == pc[Main] = "exit" => alloc = {} /\ \A w \in Worker : pc[w] = "none"

\* The heap as the threads' operations see it: a thread's own slot has the value of a load
\* or an allocation from its first step on, a shared cell that of a store from the write
\* on.  The Runnable a thread holds is in a slot of its own.
Storing(t) == pc[t] \in {"retain", "load", "write"}
RunSlot == {"run"} \X Worker
HeapRef ==
  [c \in Cell \cup RunSlot |->
     IF c \in RunSlot THEN run[c[2]]
     ELSE IF c \in Thread /\ Storing(c) /\ dst[c] = c THEN val[c]
     ELSE ref[c]]

Heap == INSTANCE ManagedHeap
          WITH objs <- alloc, ref <- HeapRef, Local <- Thread \cup Static \cup RunSlot

\* However the steps of the threads interleave, their operations are those of ManagedHeap,
\* each at one moment: a release frees only what no thread, static field or Runnable
\* reaches, and a store writes a value its thread can name into a cell it can name.
ImplementsSharedHeap == Heap!Spec
=============================================================================
