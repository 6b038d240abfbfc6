----------------------------- MODULE ThreadsInv -----------------------------
(***************************************************************************)
(* The inductive invariant of Threads for programs that access shared      *)
(* cells in synchronized blocks.  The counters are exact because a store   *)
(* keeps what it read: from the moment a thread reads a cell to the moment *)
(* it retains the value or overwrites the cell it holds the monitor, so    *)
(* the value still has the owner it had.                                   *)
(***************************************************************************)
EXTENDS Threads

Frame == Obj \X SUBSET Slot
Stacks == [Thread -> Seq(Frame)]

\* What the drop functions on the threads' stacks g are at: the objects, and the fields
\* that they have not released yet.  Each object is dropped once, by one thread.
FrameObjs(g) == {o \in Obj : \E t \in Thread : \E i \in DOMAIN g[t] : g[t][i][1] = o}
FrameCells(g) ==
  {c \in Obj \X Slot :
     \E t \in Thread : \E i \in DOMAIN g[t] : g[t][i][1] = c[1] /\ c[2] \in g[t][i][2]}
DroppedOnce(g) ==
  \A t, u \in Thread : \A i \in DOMAIN g[t], j \in DOMAIN g[u] :
    g[t][i][1] = g[u][j][1] => t = u /\ i = j

CallStacks ==
  /\ DroppedOnce(frames)
  /\ FrameObjs(frames) \subseteq alloc
  /\ \A t \in Thread : pc[t] = "drop" <=> frames[t] # <<>>

Live == alloc \ FrameObjs(frames)

\* The cells that count, and the references the threads hold between two steps.
OwnedCells == Thread \cup Static \cup (Live \X Slot) \cup FrameCells(frames)
Refs(o) == {c \in OwnedCells : ref[c] = o}
Holds(t, k, o) ==
  \/ k = "val" /\ pc[t] \in {"load", "write"} /\ val[t] = o
  \/ k = "old" /\ pc[t] = "release" /\ old[t] = o
  \/ k = "run" /\ t \in Worker /\ run[t] = o
Kind == {"val", "old", "run"}
Tokens(o) == {h \in Thread \X Kind : Holds(h[1], h[2], o)}
Claims(o) == Cardinality(Refs(o)) + Cardinality(Tokens(o))

Lifecycle ==
  /\ pc[Main] \notin {"none", "finish"}
  /\ \A w \in Worker :
       /\ status[w] \in {"new", "done", "joined"} <=> pc[w] = "none"
       /\ status[w] = "running" <=> run[w] # NULL
       /\ status[w] = "running" => pc[w] # "finish"
       /\ status[w] = "ending" => pc[w] \in {"release", "drop", "finish"}
       /\ status[w] # "running" => ref[w] = NULL /\ regions[w] = <<>>
       /\ pc[w] # "exit"
  /\ pc[Main] = "exit" =>
       /\ ref[Main] = NULL /\ \A s \in Static : ref[s] = NULL
       /\ \A w \in Worker : status[w] \in {"new", "joined"}

\* The recursive mutex counts the synchronized blocks its owner is inside.
Blocks(t) == {i \in DOMAIN regions[t] : regions[t][i] = "block"}
Monitor ==
  /\ depth = 0 <=> owner = NULL
  /\ owner # NULL => depth = Cardinality(Blocks(owner))
  /\ \A t \in Thread : t # owner => Blocks(t) = {}

\* A store between its first step and the write: the cell and the source of the value are
\* the thread's own, or it holds the monitor.
Reach(t, c) == c = t \/ (c \in Nameable(t) /\ owner = t)
Operation(t) ==
  /\ Storing(t) => Reach(t, dst[t])
  /\ Storing(t) /\ dst[t] \in Obj \X Slot /\ val[t] # NULL => <<dst[t][1], val[t]>> \in Shape
  /\ pc[t] = "retain" /\ val[t] # NULL => \E c \in Cell : Reach(t, c) /\ ref[c] = val[t]
  /\ Storing(t) /\ dst[t] # t => val[t] \in {NULL, ref[t]}
  /\ pc[t] = "write" => old[t] = ref[dst[t]]

Ownership ==
  /\ \A c \in OwnedCells : ref[c] \in Live \cup {NULL}
  /\ \A t \in Thread, o \in Obj : \A k \in Kind : Holds(t, k, o) => o \in Live

Counts == \A o \in Live : rc[o] = Claims(o) /\ rc[o] > 0

Typed == \A c \in Live \X Slot : ref[c] # NULL => <<c[1], ref[c]>> \in Shape

\* The declared types admit no cycle: in every set of objects one is held by no other.
Acyclic == \A S \in SUBSET Obj : S # {} => \E o \in S : \A p \in S : <<p, o>> \notin Shape

IInv ==
  /\ TypeOK /\ CallStacks /\ Lifecycle /\ Monitor
  /\ (\A t \in Thread : Operation(t)) /\ Ownership /\ Counts /\ Typed
=============================================================================
