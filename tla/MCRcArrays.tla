----------------------------- MODULE MCRcArrays -----------------------------
(* Small instances of RcArrays for TLC. *)
EXTENDS RcArraysInv, TLC

Symmetry == Permutations(Obj) \cup Permutations(Local)

AnyShape == Obj \X Obj

CONSTANTS o1, o2, o3

\* The solver proved the program acyclic: a linear order of the classes.
AcyclicShape == {<<o1, o2>>, <<o1, o3>>, <<o2, o3>>}
=============================================================================
