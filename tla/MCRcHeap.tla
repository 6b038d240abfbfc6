------------------------------ MODULE MCRcHeap ------------------------------
(* Small instances of RcHeap for TLC. *)
EXTENDS RcHeapInv, TLC

Symmetry == Permutations(Obj) \cup Permutations(Local) \cup Permutations(Slot)

\* Any field may hold any object: cycles are possible.
AnyShape == Obj \X Obj

\* The solver proved the program acyclic: a linear order of the classes.
CONSTANTS o1, o2, o3
AcyclicShape == {<<o1, o2>>, <<o1, o3>>, <<o2, o3>>}

=============================================================================
