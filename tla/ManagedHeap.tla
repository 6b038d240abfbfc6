---------------------------- MODULE ManagedHeap ----------------------------
(***************************************************************************)
(* What a memory manager promises the compiled program, whatever it does   *)
(* inside: objects come into being zeroed at an address nobody uses, cells *)
(* change only by the program's own assignments, and an object disappears  *)
(* only when the program can no longer reach it.                           *)
(***************************************************************************)
CONSTANTS Obj, Local, Slot, NULL

VARIABLES objs, ref

Fields(o) == {o} \X Slot
Cell == Local \cup (Obj \X Slot)

\* S contains what the program can reach.
ClosedUnderReach(S) ==
  /\ \A v \in Local : ref[v] \in S \cup {NULL}
  /\ \A c \in S \X Slot : ref[c] \in S \cup {NULL}

\* No member of F is reachable.
Unreachable(F) == \E S \in SUBSET (objs \ F) : ClosedUnderReach(S)

\* The cells the program can name, and the values it can read from them.
Nameable == Local \cup UNION {Fields(ref[v]) : v \in {w \in Local : ref[w] # NULL}}
Readable == {NULL} \cup {ref[d] : d \in Nameable}

Init == objs = {} /\ ref = [c \in Cell |-> NULL]

Allocate(v, o) ==
  /\ o \notin objs
  /\ objs' = objs \cup {o}
  /\ ref' = [c \in Cell |-> IF c = v THEN o ELSE IF c \in Fields(o) THEN NULL ELSE ref[c]]

Assign(c, x) ==
  /\ ref' = [ref EXCEPT ![c] = x]
  /\ UNCHANGED objs

\* Assign several slots of an object at once, as a copy of array elements does.
Copy(xs) ==
  /\ ref' = [c \in Cell |-> IF c \in DOMAIN xs THEN xs[c] ELSE ref[c]]
  /\ UNCHANGED objs

Reclaim(F) ==
  /\ Unreachable(F)
  /\ objs' = objs \ F
  /\ UNCHANGED ref

Next ==
  \/ \E v \in Local, o \in Obj : Allocate(v, o)
  \/ \E c \in Nameable : \E x \in Readable : Assign(c, x)
  \/ \E F \in SUBSET objs : Reclaim(F)
  \/ \E v \in Local : \E cs \in SUBSET Fields(ref[v]) :
       ref[v] # NULL /\ \E xs \in [cs -> Readable] : Copy(xs)

Spec == Init /\ [][Next]_<<objs, ref>>
=============================================================================
